------------------------------- MODULE RunCache -------------------------------
(***************************************************************************)
(* The run store of the BullMQ world (world-bullmq/src/state.ts) and its   *)
(* retention (core/src/retention.ts).  Events of runs are written to a     *)
(* Redis hash, with an index of the instants they were written at, and, at *)
(* the same time, to a durable store if there is one (composeDrains); what *)
(* the durable store lists is written to the hash again.  The hash is      *)
(* trimmed to a size after every write, and by age by the sweeps of the    *)
(* replicas; the durable store is pruned under an advisory lock            *)
(* (core/src/drizzle.ts).  Hash and index are only written together, in    *)
(* one MULTI: they are one map here.                                       *)
(***************************************************************************)
EXTENDS Naturals, FiniteSets

CONSTANTS
  Writers,   \* those who report events or list runs
  Sweepers,  \* the replicas that sweep
  Runs,      \* ids of runs
  NoRun,     \* no row
  MaxCached, \* maxCachedRuns
  MaxPruned, \* rows a sweep deletes of the durable store at most
  MaxTime,   \* bound: the last instant; a run may be pruned an instant after it ended
  MaxWrites, \* bound: events reported and lists made
  MaxBroken  \* bound: events and lists that are cut short; each is one event less after it

ASSUME RunCacheAssumption ==
  /\ IsFiniteSet(Runs) /\ MaxCached \in Nat /\ MaxPruned \in Nat \ {0}
  /\ {MaxTime, MaxWrites, MaxBroken} \subseteq Nat

VARIABLES
  backed,  \* whether there is a durable store
  table,   \* its rows
  hash,    \* the rows in Redis
  puts,    \* puts[w][i]: where w's write of run i to the hash is
  upserts, \* upserts[w]: the event w has still to write to the durable store
  sweeps,  \* sweeps[s]: where the sweep of s is
  lock,    \* the holder of RETENTION_PRUNE_LOCK_KEY
  clock,
  truth,   \* history: truth[i], the last event of run i
  touched, \* history: touched[i], when one was reported last
  lost,    \* history: runs of which the durable store never heard an event
  mixed, writes, broken \* history: two at once; events and lists; those cut short

runVars == <<backed, table, hash, puts, upserts, sweeps, lock, clock, truth, touched, lost, mixed, writes,
             broken>>
redisRuns == <<hash, puts>>
durableRuns == <<table, upserts>>
past == <<clock, truth, touched, lost, mixed, writes, broken>>

RunRow == [status : {"queued", "executing", "ended"}, at : 0 .. MaxTime]
ASSUME NoRunAssumption == NoRun \notin RunRow

Kept(rows) == {i \in Runs : rows[i] # NoRun}

Write == [pc : {"none", "check", "put", "count", "range", "evict"}, row : RunRow \cup {NoRun},
          excess : Nat, ids : SUBSET Runs]
NoWrite == [pc |-> "none", row |-> NoRun, excess |-> 0, ids |-> {}]
Sweep == [pc : {"none", "range", "rows", "evict", "lock", "delete"}, cutoff : 0 .. MaxTime,
          ids : SUBSET Runs]
NoSweep == [pc |-> "none", cutoff |-> 0, ids |-> {}]
NoUpsert == [run |-> NoRun, row |-> NoRun]

(* Runs may have ended before; a hash in front of a store starts empty.     *)
RunCacheInit ==
  /\ backed \in BOOLEAN
  /\ truth \in [Runs -> {NoRun, [status |-> "ended", at |-> 0]}]
  /\ Cardinality(Kept(truth)) <= MaxCached
  /\ table = [i \in Runs |-> IF backed THEN truth[i] ELSE NoRun]
  /\ hash = [i \in Runs |-> IF backed THEN NoRun ELSE truth[i]]
  /\ puts = [w \in Writers |-> [i \in Runs |-> NoWrite]]
  /\ upserts = [w \in Writers |-> NoUpsert]
  /\ sweeps = [s \in Sweepers |-> NoSweep] /\ lock = {}
  /\ touched = [i \in Runs |-> 0]
  /\ clock = 0 /\ lost = {} /\ mixed = FALSE /\ writes = 0 /\ broken = 0

Writing == {w \in Writers : upserts[w] # NoUpsert \/ \E i \in Runs : puts[w][i] # NoWrite}
Reported == {upserts[w].run : w \in Writers}
              \cup {i \in Runs : \E w \in Writers : puts[w][i].pc \in {"check", "put"}}
Sweeping == {s \in Sweepers : sweeps[s] # NoSweep}

Starts(writing) ==
  /\ mixed' = (mixed \/ (~backed /\ Writing \cup Sweeping # {}))
  /\ IF writing THEN writes + broken < MaxWrites /\ writes' = writes + 1 ELSE UNCHANGED writes
  /\ UNCHANGED <<lost, broken, clock>>

-----------------------------------------------------------------------------
(* Events.  One of a run follows the other; what happens when they race is  *)
(* RunHistory's.                                                           *)

(* An ended run is enqueued again, which changes nothing, or runs again.    *)
Follows(status, i) ==
  \/ status = "queued" /\ truth[i] = NoRun
  \/ status = "executing" /\ truth[i] # NoRun /\ truth[i].status # "executing"
  \/ status = "ended" /\ truth[i] # NoRun /\ truth[i].status = "executing"

Report(w, i) ==
  /\ w \notin Writing /\ i \notin Reported
  /\ \E status \in {"queued", "executing", "ended"} :
       LET row == [status |-> status, at |-> clock]
           again == status = "queued" /\ truth[i] # NoRun /\ truth[i].status = "ended"
       IN  /\ Follows(status, i) \/ again
           /\ truth' = [truth EXCEPT ![i] = IF again THEN @ ELSE row]
           /\ touched' = [touched EXCEPT ![i] = IF backed THEN 0 ELSE clock]
           /\ puts' = [puts EXCEPT ![w][i] =
                [NoWrite EXCEPT !.pc = IF status = "queued" THEN "check" ELSE "put", !.row = row]]
           /\ upserts' = [upserts EXCEPT ![w] = IF backed THEN [run |-> i, row |-> row] ELSE @]
  /\ Starts(TRUE)
  /\ UNCHANGED <<backed, table, hash, sweeps, lock>>

(* persistRun: an enqueue does not bring back a run that has ended.         *)
Upsert(w) ==
  LET u == upserts[w]
  IN  /\ u # NoUpsert
      /\ table' = IF u.row.status = "queued" /\ u.run \in Kept(table) /\ table[u.run].status = "ended"
                    THEN table ELSE [table EXCEPT ![u.run] = u.row]
      /\ upserts' = [upserts EXCEPT ![w] = NoUpsert]
      /\ UNCHANGED <<backed, redisRuns, sweeps, lock, past>>

(* list: the rows that the durable store selects are put in the hash, side  *)
(* by side.                                                                *)
ListRuns(w) ==
  /\ backed /\ w \notin Writing /\ Kept(table) # {}
  /\ \E some \in SUBSET Kept(table) \ {{}} :
       puts' = [puts EXCEPT ![w] = [i \in Runs |->
                  IF i \in some THEN [NoWrite EXCEPT !.pc = "put", !.row = table[i]] ELSE NoWrite]]
  /\ Starts(TRUE)
  /\ UNCHANGED <<backed, table, hash, upserts, sweeps, lock, truth, touched>>

-----------------------------------------------------------------------------
(* handle and writeRun.                                                    *)
Puts(w, i, from, to) == puts[w][i].pc = from /\ puts' = [puts EXCEPT ![w][i] = to]
Elsewhere == UNCHANGED <<backed, durableRuns, sweeps, lock, past>>

Check(w, i) ==
  /\ Puts(w, i, "check", IF i \in Kept(hash) /\ hash[i].status = "ended" THEN NoWrite
                         ELSE [puts[w][i] EXCEPT !.pc = "put"])
  /\ UNCHANGED hash /\ Elsewhere

PutRun(w, i) ==
  /\ Puts(w, i, "put", [puts[w][i] EXCEPT !.pc = "count", !.row = NoRun])
  /\ hash' = [hash EXCEPT ![i] = puts[w][i].row] /\ Elsewhere

(* pruneRuns: the size, the ids that are too many, the oldest, and a MULTI   *)
(* that deletes them, as three calls.                                      *)
CountRuns(w, i) ==
  LET size == Cardinality(Kept(hash))
  IN  /\ Puts(w, i, "count", IF size <= MaxCached THEN NoWrite
                             ELSE [puts[w][i] EXCEPT !.pc = "range", !.excess = size - MaxCached])
      /\ UNCHANGED hash /\ Elsewhere

Oldest(n) ==
  {ids \in SUBSET Kept(hash) :
     /\ Cardinality(ids) = IF n <= Cardinality(Kept(hash)) THEN n ELSE Cardinality(Kept(hash))
     /\ \A i \in ids, j \in Kept(hash) \ ids : hash[i].at <= hash[j].at}

ListOldest(w, i) ==
  /\ \E ids \in Oldest(puts[w][i].excess) :
       Puts(w, i, "range", [NoWrite EXCEPT !.pc = "evict", !.ids = ids])
  /\ UNCHANGED hash /\ Elsewhere

Without(rows, ids) == [i \in Runs |-> IF i \in ids THEN NoRun ELSE rows[i]]

Evict(w, i) ==
  /\ hash' = Without(hash, puts[w][i].ids)
  /\ Puts(w, i, "evict", NoWrite) /\ Elsewhere

-----------------------------------------------------------------------------
(* Retention.                                                              *)

(* Mutant: how the run stands is not asked.                                *)
PastWindow(row, cutoff) == row.at < cutoff

(* shouldPruneRun: only what has ended, and long ago.                       *)
ShouldPrune(row, cutoff) == row.status = "ended" /\ row.at < cutoff

Sweeps(s, from, to) == sweeps[s].pc = from /\ sweeps' = [sweeps EXCEPT ![s] = to]
ThenDurable(s) == IF backed THEN [sweeps[s] EXCEPT !.pc = "lock", !.ids = {}] ELSE NoSweep

SweepStarts(s) ==
  /\ Sweeps(s, "none", [NoSweep EXCEPT !.pc = "range", !.cutoff = clock])
  /\ Starts(FALSE) /\ UNCHANGED <<backed, table, hash, puts, upserts, lock, truth, touched>>

(* pruneRunsByAge: the candidates by the index, their rows, and a MULTI.     *)
Candidates(s) ==
  LET ids == {i \in Kept(hash) : hash[i].at <= sweeps[s].cutoff}
  IN  /\ Sweeps(s, "range", IF ids = {} THEN ThenDurable(s)
                            ELSE [sweeps[s] EXCEPT !.pc = "rows", !.ids = ids])
      /\ UNCHANGED <<backed, redisRuns, durableRuns, lock, past>>

ReadRows(s) ==
  LET doomed == {i \in sweeps[s].ids : i \in Kept(hash) => ShouldPrune(hash[i], sweeps[s].cutoff)}
  IN  /\ Sweeps(s, "rows", IF doomed = {} THEN ThenDurable(s)
                           ELSE [sweeps[s] EXCEPT !.pc = "evict", !.ids = doomed])
      /\ UNCHANGED <<backed, redisRuns, durableRuns, lock, past>>

EvictOld(s) ==
  /\ hash' = Without(hash, sweeps[s].ids)
  /\ Sweeps(s, "evict", ThenDurable(s))
  /\ UNCHANGED <<backed, puts, durableRuns, lock, past>>

(* pruneRuns of the durable store: a sweep that finds the lock taken is     *)
(* over; the one that has it deletes batches of what is past its window.    *)
TryLock(s) ==
  /\ Sweeps(s, "lock", IF lock = {} THEN [sweeps[s] EXCEPT !.pc = "delete"] ELSE NoSweep)
  /\ lock' = IF lock = {} THEN {s} ELSE lock
  /\ UNCHANGED <<backed, redisRuns, durableRuns, past>>

Prune(s) ==
  LET doomed == {i \in Kept(table) : ShouldPrune(table[i], sweeps[s].cutoff)}
  IN  /\ Sweeps(s, "delete", NoSweep)
      /\ \E ids \in SUBSET doomed :
           /\ Cardinality(ids) = MaxPruned \/ (ids = doomed /\ Cardinality(ids) < MaxPruned)
           /\ table' = Without(table, ids)
      /\ lock' = {}
      /\ UNCHANGED <<backed, redisRuns, upserts, past>>

-----------------------------------------------------------------------------
(* Redis or the database rejects, or the process is gone: an event or a      *)
(* list is cut short, which nobody sees, or a sweep that has begun to       *)
(* delete, whose lock is given back with its transaction; one that has only *)
(* read leaves what a sweep that never began does.                         *)
BreakWrite(w) ==
  /\ w \in Writing /\ broken < MaxBroken /\ broken' = broken + 1
  /\ puts' = [puts EXCEPT ![w] = [i \in Runs |-> NoWrite]]
  /\ \/ UNCHANGED <<upserts, lost>>
     \/ /\ upserts[w] # NoUpsert
        /\ upserts' = [upserts EXCEPT ![w] = NoUpsert] /\ lost' = lost \cup {upserts[w].run}
  /\ UNCHANGED <<backed, table, hash, sweeps, lock, clock, truth, touched, mixed, writes>>

BreakSweep(s) ==
  /\ sweeps[s].pc \in {"lock", "delete"}
  /\ sweeps' = [sweeps EXCEPT ![s] = NoSweep] /\ lock' = lock \ {s}
  /\ UNCHANGED <<backed, redisRuns, durableRuns, past>>

Pass ==
  /\ clock < MaxTime /\ clock' = clock + 1
  /\ UNCHANGED <<backed, redisRuns, durableRuns, sweeps, lock, truth, touched, lost, mixed, writes, broken>>

-----------------------------------------------------------------------------
(* Properties.                                                             *)
RunTypeOK ==
  /\ {backed, mixed} \subseteq BOOLEAN /\ clock \in 0 .. MaxTime
  /\ {table, hash, truth} \subseteq [Runs -> RunRow \cup {NoRun}]
  /\ touched \in [Runs -> 0 .. MaxTime]
  /\ puts \in [Writers -> [Runs -> Write]]
  /\ upserts \in [Writers -> [run : Runs \cup {NoRun}, row : RunRow \cup {NoRun}]]
  /\ sweeps \in [Sweepers -> Sweep] /\ lock \subseteq Sweepers
  /\ lost \subseteq Runs /\ writes \in 0 .. MaxWrites /\ broken \in 0 .. MaxBroken

Rested == Writing \cup Sweeping = {} /\ broken = 0

(* What may be said of a run that ended and whose time is over: nothing, or *)
(* what a later enqueue of its id, which nothing runs, made of it.          *)
Forgotten(rows, i) ==
  /\ truth[i].status = "ended" /\ truth[i].at < clock
  /\ i \in Kept(rows) => rows[i].status = "queued"

(* "A run that never finished is never pruned": whatever sweeps, lists and  *)
(* events overlap and whichever are cut short, the durable store knows how  *)
(* each run whose events reached it stands, unless it ended and its time is *)
(* over.                                                                   *)
DurableKeeps ==
  backed =>
    \A i \in Kept(truth) \ (Reported \cup lost) : table[i] = truth[i] \/ Forgotten(table, i)

(* The hash has its size again when everything has returned.  And with      *)
(* nothing that overlaps it is a run store of its own: what it does not      *)
(* tell has ended long ago, or was evicted when it was full of newer runs.   *)
HashKeeps ==
  Rested =>
    /\ Cardinality(Kept(hash)) <= MaxCached
    /\ ~backed /\ ~mixed => \A i \in Kept(truth) :
         \/ hash[i] = truth[i] \/ Forgotten(hash, i)
         \/ /\ i \in Kept(hash) => hash[i].status = "queued"
            /\ Cardinality({j \in Kept(truth) \ {i} : touched[j] >= truth[i].at}) >= MaxCached

RunsKept == RunTypeOK /\ DurableKeeps /\ HashKeeps

(* The same promise for the hash alone, where sweeps and events overlap.    *)
UnfinishedKept ==
  Rested /\ ~backed /\ Cardinality(Runs) <= MaxCached =>
    \A i \in Runs : truth[i] # NoRun /\ truth[i].status # "ended" => i \in Kept(hash)
=============================================================================
