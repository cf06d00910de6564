----------------------------- MODULE PgTransport -----------------------------
(***************************************************************************)
(* The Postgres delivery transport (world-postgres/src/transport.ts): a    *)
(* single table of jobs that pollers in several worker processes claim     *)
(* with SELECT ... FOR UPDATE SKIP LOCKED, keep alive by a heartbeat and   *)
(* settle under a fencing token, while clients enqueue and remove jobs.    *)
(*                                                                         *)
(* One SQL statement is one step.  Everything between two awaits of a      *)
(* consumer is one step too; other processes, the clock, crashes and lost  *)
(* database replies come in between.                                       *)
(***************************************************************************)
EXTENDS Naturals, FiniteSets

CONSTANTS
  Jobs,         \* the job ids of one queue in one namespace
  Consumers,    \* the pollers, one per worker process
  Attempts,     \* the `attempts` column: runs allowed by failure
  MaxStalled,   \* maxStalledCount: lease losses a job survives
  Concurrency,  \* jobs a consumer runs at once
  Batch,        \* rows one poll may claim
  Rank,         \* the `priority` column; the smaller is claimed first
  MaxEnqueues,  \* bound: how often a client inserts one id
  MaxFaults     \* bound: crashes, closes and lost database replies

ASSUME ConstantsAssumption ==
  /\ Attempts \in Nat \ {0}
  /\ MaxStalled \in Nat
  /\ Concurrency \in Nat \ {0}
  /\ Batch \in Nat \ {0}
  /\ Rank \in [Jobs -> Nat]
  /\ MaxEnqueues \in Nat
  /\ MaxFaults \in Nat

VARIABLES
  row,       \* row[j]: the table row of job j
  nextClaim, \* the next fresh claim token (randomUUID)
  attempts,  \* startJob's attempts: running, settling or reporting
  inFlight,  \* inFlight[c][j]: the token in consumer c's map, or 0
  mode,      \* mode[c]: "up", "closing" or "down"
  pc,        \* pc[c]: where consumer c's runLoop awaits
  fetched,   \* fetched[c]: the rows the last statement returned to c's loop
  awaited,   \* awaited[c]: the promises closeConsumer waits for
  faults,    \* faults so far
  reported,  \* history: incarnations whose terminal callback has fired
  removed,   \* history: incarnations a client removed
  lost       \* history: incarnations whose terminal callback a fault swallowed

vars == <<row, nextClaim, attempts, inFlight, mode, pc, fetched, awaited,
          faults, reported, removed, lost>>
fates == <<reported, removed, lost>>

-----------------------------------------------------------------------------
(* A row.  `elapsed` says that now() has passed the time the row waits for: *)
(* run_at of a waiting row, claimed_until of an active one.  `inc` numbers  *)
(* the insertions of the id, `claims` counts the claims of this insertion:  *)
(* both are history.  `writer` is the token that last stored `data`.        *)
Row == [state   : {"absent", "waiting", "active"},
        elapsed : BOOLEAN,
        made    : Nat,
        stalls  : Nat,
        claim   : Nat,
        writer  : Nat,
        inc     : Nat,
        claims  : Nat]

Absent(i) == [state |-> "absent", elapsed |-> FALSE, made |-> 0, stalls |-> 0,
              claim |-> 0, writer |-> 0, inc |-> i, claims |-> 0]

Present(j) == row[j].state # "absent"

(* An attempt: what startJob captured of the claimed row, and how far       *)
(* processAndSettle has come.  `done` is TRUE in phase "report" when the    *)
(* row was deleted, so that the callback is the job's last.                 *)
Attempt == [job : Jobs, cons : Consumers, claim : Nat, made : Nat, inc : Nat,
            phase : {"process", "settle", "report"},
            result : {"none", "ok", "error", "final"},
            done : BOOLEAN]

Fetched == [job : Jobs, claim : Nat, made : Nat, inc : Nat]

Snap(j, k) == [job |-> j, claim |-> k, made |-> row[j].made, inc |-> row[j].inc]

(* What is owed: the terminal callbacks of insertions <<job, inc>> whose row *)
(* is deleted, in the hands of an attempt or of a stall pass.               *)
Verdicts == {a \in attempts : a.done}
Stalled(c) == IF pc[c] = "report" THEN fetched[c] ELSE {}

OwedBy(A) == {<<a.job, a.inc>> : a \in A}
Owed == OwedBy(Verdicts) \cup OwedBy(UNION {Stalled(c) : c \in Consumers})

-----------------------------------------------------------------------------
Init ==
  /\ row       = [j \in Jobs |-> Absent(0)]
  /\ nextClaim = 1
  /\ attempts  = {}
  /\ inFlight  = [c \in Consumers |-> [j \in Jobs |-> 0]]
  /\ mode      = [c \in Consumers |-> "up"]
  /\ pc        = [c \in Consumers |-> "recover"]
  /\ fetched   = [c \in Consumers |-> {}]
  /\ awaited   = [c \in Consumers |-> {}]
  /\ faults    = 0
  /\ reported  = {}
  /\ removed   = {}
  /\ lost      = {}

-----------------------------------------------------------------------------
(* Clients and the clock.                                                  *)

(* insert ... on conflict do nothing: an id still in the table is a no-op. *)
Enqueue(j, due) ==
  /\ ~Present(j)
  /\ row[j].inc < MaxEnqueues
  /\ row' = [row EXCEPT ![j] = [Absent(row[j].inc + 1)
                                  EXCEPT !.state = "waiting", !.elapsed = due]]
  /\ UNCHANGED <<nextClaim, attempts, inFlight, mode, pc, fetched, awaited,
                 faults, fates>>

(* A row under a live lease is not deleted: remove() throws and changes     *)
(* nothing.                                                                 *)
Remove(j) ==
  /\ Present(j)
  /\ ~(row[j].state = "active" /\ ~row[j].elapsed)
  /\ row' = [row EXCEPT ![j] = Absent(@.inc)]
  /\ removed' = removed \cup {<<j, row[j].inc>>}
  /\ UNCHANGED <<nextClaim, attempts, inFlight, mode, pc, fetched, awaited,
                 faults, reported, lost>>

Elapse(j) ==
  /\ Present(j)
  /\ ~row[j].elapsed
  /\ row' = [row EXCEPT ![j].elapsed = TRUE]
  /\ UNCHANGED <<nextClaim, attempts, inFlight, mode, pc, fetched, awaited,
                 faults, fates>>

-----------------------------------------------------------------------------
(* runLoop: the two statements of the stall pass, then a claim.            *)

(* Mutants: the stall pass does not look at the lease; a job that has used   *)
(* up its stalls is expired for neither statement.                          *)
ExpiredAnyLease(j) == row[j].state = "active"
ExpiredRecoverable(j) ==
  row[j].state = "active" /\ row[j].elapsed /\ row[j].stalls < MaxStalled

Expired(j) == row[j].state = "active" /\ row[j].elapsed

(* Mutant: the recovered row keeps its claim_id.                           *)
StallRecoverKeepsClaim(c) ==
  /\ mode[c] = "up"
  /\ pc[c] = "recover"
  /\ row' = [j \in Jobs |->
               IF Expired(j) /\ row[j].stalls < MaxStalled
                 THEN [row[j] EXCEPT !.state = "waiting", !.stalls = @ + 1]
                 ELSE row[j]]
  /\ pc' = [pc EXCEPT ![c] = "fail"]
  /\ UNCHANGED <<nextClaim, attempts, inFlight, mode, fetched, awaited, faults,
                 fates>>

StallRecover(c) ==
  /\ mode[c] = "up"
  /\ pc[c] = "recover"
  /\ row' = [j \in Jobs |->
               IF Expired(j) /\ row[j].stalls < MaxStalled
                 THEN [row[j] EXCEPT !.state = "waiting", !.claim = 0,
                                     !.stalls = @ + 1]
                 ELSE row[j]]
  /\ pc' = [pc EXCEPT ![c] = "fail"]
  /\ UNCHANGED <<nextClaim, attempts, inFlight, mode, fetched, awaited, faults,
                 fates>>

(* The returned rows are reported one by one; the loop waits meanwhile.    *)
StallFail(c) ==
  LET dead == {j \in Jobs : Expired(j) /\ row[j].stalls >= MaxStalled}
  IN  /\ pc[c] = "fail"
      /\ row' = [j \in Jobs |-> IF j \in dead THEN Absent(row[j].inc) ELSE row[j]]
      /\ \/ /\ fetched' = [fetched EXCEPT ![c] = {Snap(j, row[j].claim) : j \in dead}]
            /\ pc' = [pc EXCEPT ![c] = IF dead = {} THEN "poll" ELSE "report"]
            /\ UNCHANGED <<faults, lost>>
         \/ /\ dead # {}           \* committed, but the reply is lost
            /\ faults < MaxFaults
            /\ faults' = faults + 1
            /\ lost' = lost \cup {<<j, row[j].inc>> : j \in dead}
            /\ pc' = [pc EXCEPT ![c] = "poll"]
            /\ UNCHANGED fetched
      /\ UNCHANGED <<nextClaim, attempts, inFlight, mode, awaited, reported,
                     removed>>

StallReport(c, r) ==
  /\ pc[c] = "report"
  /\ r \in fetched[c]
  /\ reported' = reported \cup {<<r.job, r.inc>>}
  /\ fetched' = [fetched EXCEPT ![c] = @ \ {r}]
  /\ pc' = [pc EXCEPT ![c] = IF fetched[c] = {r} THEN "poll" ELSE "report"]
  /\ UNCHANGED <<row, nextClaim, attempts, inFlight, mode, awaited, faults,
                 removed, lost>>

(* A stall statement threw: the loop goes on to the claim.                 *)
StallThrows(c) ==
  /\ \/ pc[c] = "recover" /\ mode[c] = "up"
     \/ pc[c] = "fail"
  /\ faults < MaxFaults
  /\ faults' = faults + 1
  /\ pc' = [pc EXCEPT ![c] = "poll"]
  /\ UNCHANGED <<row, nextClaim, attempts, inFlight, mode, fetched, awaited, fates>>

Due(j) == row[j].state = "waiting" /\ row[j].elapsed

InFlight(c) == {j \in Jobs : inFlight[c][j] # 0}

(* The capacity is read before the statement is sent; an attempt that ends  *)
(* meanwhile frees a slot this claim leaves empty, so S may be smaller.     *)
Claimable(c) ==
  {S \in SUBSET {j \in Jobs : Due(j)} :
     /\ S # {}
     /\ Cardinality(S) <= Batch
     /\ Cardinality(S) + Cardinality(InFlight(c)) <= Concurrency
     /\ \A i \in S, j \in Jobs \ S : Due(j) => Rank[i] <= Rank[j]}

Claimed(S) ==
  [j \in Jobs |-> IF j \in S
                    THEN [row[j] EXCEPT !.state = "active", !.elapsed = FALSE,
                                        !.claim = nextClaim, !.claims = @ + 1]
                    ELSE row[j]]

(* One statement stamps every row it claims with one fresh token.          *)
Claim(c, S) ==
  /\ pc[c] = "poll"
  /\ S \in Claimable(c)
  /\ row' = Claimed(S)
  /\ nextClaim' = nextClaim + 1
  /\ \/ /\ fetched' = [fetched EXCEPT ![c] = {Snap(j, nextClaim) : j \in S}]
        /\ pc' = [pc EXCEPT ![c] = "start"]
        /\ UNCHANGED faults
     \/ /\ faults < MaxFaults      \* committed, but the reply is lost
        /\ faults' = faults + 1
        /\ pc' = [pc EXCEPT ![c] = "recover"]
        /\ UNCHANGED fetched
  /\ UNCHANGED <<attempts, inFlight, mode, awaited, fates>>

(* No capacity, nothing due, or the statement threw: waitForWork.          *)
Idle(c) ==
  /\ pc[c] = "poll"
  /\ \/ Claimable(c) = {} /\ UNCHANGED faults
     \/ faults < MaxFaults /\ faults' = faults + 1
  /\ pc' = [pc EXCEPT ![c] = "recover"]
  /\ UNCHANGED <<row, nextClaim, attempts, inFlight, mode, fetched, awaited,
                 fates>>

(* startJob for each row of the batch; the map is keyed by job id.         *)
Start(c) ==
  /\ pc[c] = "start"
  /\ attempts' = attempts \cup
       {[job |-> r.job, cons |-> c, claim |-> r.claim, made |-> r.made,
         inc |-> r.inc, phase |-> "process", result |-> "none",
         done |-> FALSE] : r \in fetched[c]}
  /\ inFlight' = [inFlight EXCEPT ![c] =
       [j \in Jobs |-> IF \E r \in fetched[c] : r.job = j
                         THEN (CHOOSE r \in fetched[c] : r.job = j).claim
                         ELSE inFlight[c][j]]]
  /\ fetched' = [fetched EXCEPT ![c] = {}]
  /\ pc' = [pc EXCEPT ![c] = "recover"]
  /\ UNCHANGED <<row, nextClaim, mode, awaited, faults, fates>>

-----------------------------------------------------------------------------
(* processAndSettle.                                                       *)

(* Mutant: settlement by id alone.                                         *)
OwnsById(a) == Present(a.job)

(* The token of the row is the attempt's (or the fetched row's).           *)
Owns(a) == Present(a.job) /\ row[a.job].claim = a.claim

(* updateData of the handler, awaited or not: it is fenced by the token.   *)
UpdateData(a) ==
  /\ a \in attempts
  /\ Owns(a)
  /\ row' = [row EXCEPT ![a.job].writer = a.claim]
  /\ UNCHANGED <<nextClaim, attempts, inFlight, mode, pc, fetched, awaited,
                 faults, fates>>

Finish(a, res) ==
  /\ a \in attempts
  /\ a.phase = "process"
  /\ attempts' = (attempts \ {a}) \cup
                   {[a EXCEPT !.phase = "settle", !.result = res]}
  /\ UNCHANGED <<row, nextClaim, inFlight, mode, pc, fetched, awaited, faults,
                 fates>>

(* Mutant: one attempt too many.                                           *)
WillRetryOnceMore(a) == a.result = "error" /\ a.made + 1 <= Attempts

WillRetry(a) == a.result = "error" /\ a.made + 1 < Attempts

(* The `finally` of startJob.                                              *)
Leave(a) ==
  /\ inFlight' = [inFlight EXCEPT ![a.cons][a.job] = 0]
  /\ awaited' = [awaited EXCEPT ![a.cons] = @ \ {<<a.job, a.claim>>}]

(* requeue or deleteJob, whose WHERE clause holds the token only.          *)
Settled(a, due) ==
  [row EXCEPT ![a.job] =
     IF WillRetry(a)
       THEN [@ EXCEPT !.state = "waiting", !.elapsed = due, !.made = a.made + 1]
       ELSE Absent(@.inc)]

(* Mutant: the callback fires whether or not a row matched.                *)
SettleRegardless(a, due) ==
  /\ a \in attempts
  /\ a.phase = "settle"
  /\ row' = IF Owns(a) THEN Settled(a, due) ELSE row
  /\ attempts' = (attempts \ {a}) \cup
                   {[a EXCEPT !.phase = "report", !.done = ~WillRetry(a)]}
  /\ UNCHANGED <<nextClaim, inFlight, mode, pc, fetched, awaited, faults, fates>>

Settle(a, due) ==
  /\ a \in attempts
  /\ a.phase = "settle"
  /\ Owns(a)
  /\ row' = Settled(a, due)
  /\ attempts' = (attempts \ {a}) \cup
                   {[a EXCEPT !.phase = "report", !.done = ~WillRetry(a)]}
  /\ UNCHANGED <<nextClaim, inFlight, mode, pc, fetched, awaited, faults, fates>>

(* Mutant: a lost lease returns before the promise is settled.             *)
SettleLostPending(a) ==
  /\ a \in attempts
  /\ a.phase = "settle"
  /\ ~Owns(a)
  /\ attempts' = attempts \ {a}
  /\ inFlight' = [inFlight EXCEPT ![a.cons][a.job] = 0]
  /\ UNCHANGED <<row, nextClaim, mode, pc, fetched, awaited, faults, fates>>

(* The lease was lost: nothing matched, and no callback may fire.          *)
SettleLost(a) ==
  /\ a \in attempts
  /\ a.phase = "settle"
  /\ ~Owns(a)
  /\ attempts' = attempts \ {a}
  /\ Leave(a)
  /\ UNCHANGED <<row, nextClaim, mode, pc, fetched, faults, fates>>

(* The statement threw: before it took effect, or after.                   *)
SettleThrows(a, due) ==
  /\ a \in attempts
  /\ a.phase = "settle"
  /\ faults < MaxFaults
  /\ faults' = faults + 1
  /\ \/ UNCHANGED <<row, lost>>
     \/ /\ Owns(a)
        /\ row' = Settled(a, due)
        /\ lost' = lost \cup IF WillRetry(a) THEN {} ELSE {<<a.job, a.inc>>}
  /\ attempts' = attempts \ {a}
  /\ Leave(a)
  /\ UNCHANGED <<nextClaim, mode, pc, fetched, reported, removed>>

(* Mutant: onFailed is not called for a failure without retry.             *)
ReportSuccessOnly(a) ==
  /\ a \in attempts
  /\ a.phase = "report"
  /\ reported' = reported \cup IF a.done /\ a.result = "ok" THEN {<<a.job, a.inc>>} ELSE {}
  /\ attempts' = attempts \ {a}
  /\ Leave(a)
  /\ UNCHANGED <<row, nextClaim, mode, pc, fetched, faults, removed, lost>>

(* onCompleted or onFailed; runCallback swallows what they throw.          *)
Report(a) ==
  /\ a \in attempts
  /\ a.phase = "report"
  /\ reported' = reported \cup IF a.done THEN {<<a.job, a.inc>>} ELSE {}
  /\ attempts' = attempts \ {a}
  /\ Leave(a)
  /\ UNCHANGED <<row, nextClaim, mode, pc, fetched, faults, removed, lost>>

-----------------------------------------------------------------------------
(* heartbeat, closeConsumer, and the life of a worker process.             *)

Beaten(c, j) ==
  /\ row[j].state = "active"
  /\ \E i \in InFlight(c) : inFlight[c][i] = row[j].claim

Heartbeat(c) ==
  /\ mode[c] # "down"
  /\ \E j \in Jobs : Beaten(c, j) /\ row[j].elapsed
  /\ row' = [j \in Jobs |-> IF Beaten(c, j)
                              THEN [row[j] EXCEPT !.elapsed = FALSE]
                              ELSE row[j]]
  /\ UNCHANGED <<nextClaim, attempts, inFlight, mode, pc, fetched, awaited,
                 faults, fates>>

Close(c) ==
  /\ mode[c] = "up"
  /\ faults < MaxFaults
  /\ faults' = faults + 1
  /\ mode' = [mode EXCEPT ![c] = "closing"]
  /\ UNCHANGED <<row, nextClaim, attempts, inFlight, pc, fetched, awaited, fates>>

(* The loop sees `closed` at its head; the map is then read once.          *)
LoopExit(c) ==
  /\ mode[c] = "closing"
  /\ pc[c] = "recover"
  /\ pc' = [pc EXCEPT ![c] = "exited"]
  /\ awaited' = [awaited EXCEPT ![c] =
                   {<<j, inFlight[c][j]>> : j \in InFlight(c)}]
  /\ UNCHANGED <<row, nextClaim, attempts, inFlight, mode, fetched, faults, fates>>

CloseDone(c) ==
  /\ mode[c] = "closing"
  /\ pc[c] = "exited"
  /\ awaited[c] = {}
  /\ mode' = [mode EXCEPT ![c] = "down"]
  /\ UNCHANGED <<row, nextClaim, attempts, inFlight, pc, fetched, awaited,
                 faults, fates>>

(* The process ends, with whatever it had in memory.                       *)
Die(c) ==
  /\ attempts' = {a \in attempts : a.cons # c}
  /\ inFlight' = [inFlight EXCEPT ![c] = [j \in Jobs |-> 0]]
  /\ fetched' = [fetched EXCEPT ![c] = {}]
  /\ awaited' = [awaited EXCEPT ![c] = {}]
  /\ lost' = lost \cup OwedBy({a \in Verdicts : a.cons = c} \cup Stalled(c))
  /\ UNCHANGED <<row, nextClaim, reported, removed>>

Crash(c) ==
  /\ mode[c] # "down"
  /\ faults < MaxFaults
  /\ faults' = faults + 1
  /\ mode' = [mode EXCEPT ![c] = "down"]
  /\ pc' = [pc EXCEPT ![c] = "exited"]
  /\ Die(c)

(* A new process takes a closed or crashed one's place.                    *)
Restart(c) ==
  /\ mode[c] = "down"
  /\ mode' = [mode EXCEPT ![c] = "up"]
  /\ pc' = [pc EXCEPT ![c] = "recover"]
  /\ Die(c)
  /\ UNCHANGED faults

-----------------------------------------------------------------------------
Loop(c) ==
  \/ StallRecover(c)
  \/ StallFail(c)
  \/ StallThrows(c)
  \/ \E r \in fetched[c] : StallReport(c, r)
  \/ \E S \in SUBSET Jobs : Claim(c, S)
  \/ Idle(c)
  \/ Start(c)

Advance(a) ==
  \/ \E res \in {"ok", "error", "final"} : Finish(a, res)
  \/ \E due \in BOOLEAN : Settle(a, due)
  \/ SettleLost(a)
  \/ Report(a)

Next ==
  \/ \E j \in Jobs :
       \/ \E due \in BOOLEAN : Enqueue(j, due)
       \/ Remove(j)
       \/ Elapse(j)
  \/ \E c \in Consumers :
       \/ Loop(c)
       \/ Heartbeat(c)
       \/ Close(c)
       \/ LoopExit(c)
       \/ CloseDone(c)
       \/ Crash(c)
       \/ Restart(c)
  \/ \E a \in attempts :
       \/ UpdateData(a)
       \/ Advance(a)
       \/ \E due \in BOOLEAN : SettleThrows(a, due)

Spec == Init /\ [][Next]_vars

(* What the scheduling of the code justifies.  A loop whose process is up   *)
(* keeps polling and a close keeps draining; handlers return and their      *)
(* settlement is carried out; a dead process is replaced.  Time passes for  *)
(* a waiting row, and for a lease that no process extends any more: a lease *)
(* that is extended need never elapse.                                      *)
TimePasses(j) ==
  /\ \A c \in Consumers : mode[c] # "down" => ~Beaten(c, j)
  /\ Elapse(j)

Fairness ==
  /\ \A j \in Jobs : WF_vars(TimePasses(j))
  /\ \A c \in Consumers :
       /\ WF_vars(Loop(c))
       /\ WF_vars(LoopExit(c) \/ CloseDone(c) \/ Restart(c))
  /\ WF_vars(\E a \in attempts : Advance(a))

FairSpec == Spec /\ Fairness

-----------------------------------------------------------------------------
(* Properties.                                                             *)

(* Every variable stays in its type; tokens in use were issued.            *)
TypeOK ==
  /\ row \in [Jobs -> Row]
  /\ nextClaim \in Nat \ {0}
  /\ attempts \subseteq Attempt
  /\ inFlight \in [Consumers -> [Jobs -> Nat]]
  /\ mode \in [Consumers -> {"up", "closing", "down"}]
  /\ pc \in [Consumers -> {"recover", "fail", "report", "poll", "start", "exited"}]
  /\ fetched \in [Consumers -> SUBSET Fetched]
  /\ awaited \in [Consumers -> SUBSET (Jobs \X Nat)]
  /\ faults \in 0 .. MaxFaults
  /\ reported \subseteq Jobs \X Nat
  /\ removed \subseteq Jobs \X Nat
  /\ lost \subseteq Jobs \X Nat

(* However leases, crashes and retries interleave, a job is handed to a     *)
(* handler at most once per allowed attempt and once per tolerated stall:   *)
(* every claim is paid for by a counted failure or a counted stall.         *)
ClaimsPaid ==
  \A j \in Jobs : Present(j) =>
    /\ row[j].claims = row[j].made + row[j].stalls
                         + (IF row[j].state = "active" THEN 1 ELSE 0)
    /\ row[j].made < Attempts
    /\ row[j].stalls <= MaxStalled

(* The fence: of all the attempts at a job, in whatever processes, at most  *)
(* one can still settle it.                                                 *)
SingleOwner ==
  \A a, b \in attempts :
    /\ a.job = b.job
    /\ a.phase # "report" /\ b.phase # "report"
    /\ Owns(a) /\ Owns(b)
    => a = b

(* The fence is inductive with what makes it one: tokens are fresh, no two  *)
(* attempts or batches hold the same token on the same job, and whoever may *)
(* still settle a row remembers it as it is.                                *)
Started(c) == IF pc[c] = "start" THEN fetched[c] ELSE {}

FenceInv ==
  /\ \A j \in Jobs : row[j].claim < nextClaim
  /\ \A a \in attempts : a.claim \in 1 .. nextClaim - 1
  /\ \A c \in Consumers : fetched[c] # {} => pc[c] \in {"start", "report"}
  /\ \A c \in Consumers : \A r \in Started(c) : r.claim \in 1 .. nextClaim - 1
  /\ \A a, b \in attempts : a.job = b.job /\ a.claim = b.claim => a = b
  /\ \A a \in attempts, c \in Consumers : \A r \in Started(c) :
       ~(a.job = r.job /\ a.claim = r.claim)
  /\ \A c, d \in Consumers : \A r \in Started(c), s \in Started(d) :
       r.job = s.job /\ r.claim = s.claim => c = d /\ r = s
  /\ \A a \in attempts : a.phase # "report" =>
       /\ ~a.done
       /\ Owns(a) => /\ row[a.job].state = "active"
                     /\ a.made = row[a.job].made /\ a.inc = row[a.job].inc
  /\ \A c \in Consumers : \A r \in Started(c) : Owns(r) =>
       /\ row[r.job].state = "active"
       /\ r.made = row[r.job].made /\ r.inc = row[r.job].inc

(* The table, its attempts and its loops are a delivery transport: a row is *)
(* a job held, queued or taken, whoever claims, recovers or settles it.     *)
Place == [j \in Jobs |-> CASE row[j].state = "absent"  -> "none"
                           [] row[j].state = "waiting" -> "queued"
                           [] OTHER                    -> "taken"]

Delivery == INSTANCE JobDelivery WITH
  place <- Place,
  inc   <- [j \in Jobs |-> row[j].inc],
  owed  <- Owed

(* Every insertion of a job has exactly one fate: it is in the table, or    *)
(* its terminal callback is owed by exactly one actor, or has fired, or a   *)
(* client removed it, or a fault swallowed the callback.  So no terminal    *)
(* callback fires twice, none fires for a job that runs again, and none is  *)
(* lost but to a fault.                                                     *)
OneVerdict ==
  /\ \A a, b \in Verdicts : a.job = b.job /\ a.inc = b.inc => a = b
  /\ \A c, d \in Consumers : \A r \in Stalled(c), s \in Stalled(d) :
       r.job = s.job /\ r.inc = s.inc => c = d /\ r = s
  /\ \A a \in Verdicts, c \in Consumers : \A r \in Stalled(c) :
       ~(a.job = r.job /\ a.inc = r.inc)

OneFate == OneVerdict /\ Delivery!OneFate

(* The transport keeps the delivery contract, step by step.                *)
Delivers == Delivery!Spec

(* A live lease protects its claim: no stall pass, no remove and no late    *)
(* settlement of an earlier attempt takes the row from its claimant before  *)
(* the claimant settles it.                                                 *)
LeaseProtects ==
  [][\A j \in Jobs :
       /\ row[j].state = "active" /\ ~row[j].elapsed
       /\ row'[j].state # "active" \/ row'[j].claim # row[j].claim
       => \E a \in attempts :
            a.job = j /\ a.claim = row[j].claim /\ a.phase = "settle"]_vars

(* Every job that is enqueued leaves the table in the end, whatever fails.  *)
EveryJobEnds == \A j \in Jobs : Present(j) ~> ~Present(j)

(* A graceful close ends.                                                  *)
CloseEnds == \A c \in Consumers : mode[c] = "closing" ~> mode[c] = "down"

(* A settled job's terminal callback fires, unless its process dies first.  *)
VerdictsDelivered ==
  \A j \in Jobs : \A i \in 1 .. MaxEnqueues :
    <<j, i>> \in Owed ~> <<j, i>> \in reported \cup lost

-----------------------------------------------------------------------------
(* What the code's comments say, and the runs refute.                      *)

(* "Heartbeat interval that extends live claims": a handler that still owns *)
(* its row is known to its consumer's heartbeat.                            *)
HeartbeatCovers ==
  \A a \in attempts :
    a.phase = "process" /\ Owns(a) => inFlight[a.cons][a.job] = a.claim

(* "an updateData/progress write only lands while this attempt still owns   *)
(* the row": never on a row that waits for its next attempt.                *)
WritesWhileOwned ==
  [][\A j \in Jobs :
       row'[j].writer # row[j].writer /\ row'[j].inc = row[j].inc /\ Present(j)'
         => row[j].state = "active"]_vars

=============================================================================
