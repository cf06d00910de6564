---------------------------- MODULE ScheduleCache ----------------------------
(***************************************************************************)
(* The schedule store of the BullMQ world (world-bullmq/src/state.ts): a   *)
(* Redis hash of schedules, a hash from deduplication keys to ids, and a   *)
(* flag that says the first is complete.  With a durable store             *)
(* (postgresAdapter, core/src/drizzle.ts) every write goes to that store   *)
(* first and the hash is a cache in front of it; without one the hash is   *)
(* the store.  Each call to Redis or to the database is a step of its own, *)
(* and no lock holds the steps of an operation together.                   *)
(***************************************************************************)
EXTENDS Naturals, FiniteSets

CONSTANTS
  Clients,   \* those who call the store
  Ids,       \* ids of schedules
  Keys,      \* deduplication keys
  None,      \* no row, no key, no schedule
  MaxCalls,  \* bound: calls
  MaxFaults  \* bound: calls that are cut short by an error or a crash

ASSUME CacheAssumption == MaxCalls \in Nat /\ MaxFaults \in Nat

VARIABLES
  durable,  \* whether there is a durable store
  rows,     \* its rows
  cache,    \* the hash `schedules`
  dedupe,   \* the hash `schedules:dedupe`
  complete, \* the flag `schedules:complete`
  calls,    \* calls[c]: the call client c is in
  overlapped, made, faults \* history: two calls at once; calls; faults

scheduleVars == <<durable, rows, cache, dedupe, complete, calls, overlapped, made, faults>>
redis == <<cache, dedupe, complete>>
history == <<overlapped, made, faults>>

(* What the operations tell apart of a schedule: whether it is active, its  *)
(* key, and whether its last occurrence was completed.                     *)
Row == [active : BOOLEAN, key : Keys \cup {None}, ran : BOOLEAN]
ASSUME NoneAssumption == None \notin Row

Table == [Ids -> Row \cup {None}]
Present(table) == {i \in Ids : table[i] # None}

(* A patch of a row: the columns that are given.                           *)
Patch == [active : BOOLEAN \cup {None}, key : Keys \cup {None}, ran : BOOLEAN \cup {None}]
NoPatch == [active |-> None, key |-> None, ran |-> None]
Patched(row, p) ==
  [active |-> IF p.active = None THEN row.active ELSE p.active,
   key    |-> IF p.key = None THEN row.key ELSE p.key,
   ran    |-> IF p.ran = None THEN row.ran ELSE p.ran]
Fresh(key) == [active |-> TRUE, key |-> key, ran |-> FALSE]

(* A call: what it does, its next step, the schedule and the patch, and what *)
(* it has read or been answered: the rows it has still to write to Redis.    *)
Call == [op : {"idle", "create", "patch", "retrieve", "list", "delete"},
         pc : {"store", "find", "read", "row", "fill", "hdel", "unkey", "drop"},
         id : Ids \cup {None}, owner : Ids \cup {None}, patch : Patch, put : Table, keyed : SUBSET Ids, again : BOOLEAN,
         full : BOOLEAN]
Nothing == [i \in Ids |-> None]
Idle == [op |-> "idle", pc |-> "store", id |-> None, owner |-> None, patch |-> NoPatch, put |-> Nothing,
         keyed |-> {}, again |-> FALSE, full |-> FALSE]

(* Redis starts empty, in front of a store that may hold schedules already. *)
SchedulesInit ==
  /\ durable \in BOOLEAN
  /\ rows \in {t \in [Ids -> {None} \cup {Fresh(k) : k \in Keys}] :
       /\ durable \/ t = Nothing
       /\ \A i, j \in Present(t) : t[i] = t[j] => i = j}
  /\ cache = Nothing
  /\ dedupe = [k \in Keys |-> None] /\ complete = FALSE
  /\ calls = [c \in Clients |-> Idle]
  /\ overlapped = FALSE /\ made = 0 /\ faults = 0

Busy == {c \in Clients : calls[c] # Idle}
At(c, op, pc) == calls[c].op = op /\ calls[c].pc = pc
Done(c) == calls' = [calls EXCEPT ![c] = Idle]
Goto(c, pc) == calls' = [calls EXCEPT ![c].pc = pc]

Begin(c, call) ==
  /\ c \notin Busy /\ made < MaxCalls
  /\ calls' = [calls EXCEPT ![c] = call]
  /\ made' = made + 1 /\ overlapped' = (overlapped \/ Busy # {})
  /\ UNCHANGED <<durable, rows, redis, faults>>

(* The row is in the store (or in the hash that stands for it): Redis is to *)
(* be written, its row and then its key, and without a durable store that   *)
(* is done once by the operation and once by its caller.                   *)
Put(c, i, row) ==
  calls' = [calls EXCEPT ![c].pc = "row", ![c].put = [Nothing EXCEPT ![i] = row],
                         ![c].again = ~durable]

-----------------------------------------------------------------------------
(* create.                                                                 *)
Create(c, i, k) ==
  Begin(c, [Idle EXCEPT !.op = "create", !.id = i, !.patch.key = k,
                        !.pc = IF durable THEN "store" ELSE "find"])

(* The durable store inserts, or patches and revives the row with the key;  *)
(* an id that is taken by a row with another key throws.                   *)
StoreCreate(c) ==
  LET o == calls[c]
      owners == {i \in Present(rows) : o.patch.key # None /\ rows[i].key = o.patch.key}
      i == IF owners = {} THEN o.id ELSE CHOOSE j \in owners : TRUE
      row == IF owners = {} THEN Fresh(o.patch.key) ELSE [rows[i] EXCEPT !.active = TRUE]
  IN  /\ At(c, "create", "store")
      /\ IF owners = {} /\ i \in Present(rows)
           THEN Done(c) /\ UNCHANGED rows
           ELSE rows' = [rows EXCEPT ![i] = row] /\ Put(c, i, row)
      /\ UNCHANGED <<durable, redis, history>>

(* createRedisSchedule: the key leads to a schedule that is read and        *)
(* patched next, or there is none (any more).                              *)
FindByKey(c) ==
  LET k == calls[c].patch.key
  IN  /\ At(c, "create", "find")
      /\ IF k # None /\ dedupe[k] # None
           THEN calls' = [calls EXCEPT ![c].pc = "read", ![c].owner = dedupe[k]]
           ELSE Put(c, calls[c].id, Fresh(k))
      /\ UNCHANGED <<durable, rows, redis, history>>

-----------------------------------------------------------------------------
(* update, activate, deactivate and complete: a patch of one schedule.      *)
Change(c, i, p) ==
  Begin(c, [Idle EXCEPT !.op = "patch", !.id = i, !.patch = p,
                        !.pc = IF durable THEN "store" ELSE "read"])

(* Mutant: the cache is not written when the store has answered.            *)
StorePatchOnly(c) ==
  LET o == calls[c]
      row == Patched(rows[o.id], o.patch)
  IN  /\ At(c, "patch", "store")
      /\ IF o.id \in Present(rows) THEN rows' = [rows EXCEPT ![o.id] = row] ELSE UNCHANGED rows
      /\ Done(c) /\ UNCHANGED <<durable, redis, history>>

(* One UPDATE statement; keys are unique in the table, or it throws.        *)
StorePatch(c) ==
  LET o == calls[c]
      row == Patched(rows[o.id], o.patch)
      clash == \E i \in Present(rows) \ {o.id} : row.key # None /\ rows[i].key = row.key
  IN  /\ At(c, "patch", "store")
      /\ IF o.id \notin Present(rows) \/ clash
           THEN Done(c) /\ UNCHANGED rows
           ELSE rows' = [rows EXCEPT ![o.id] = row] /\ Put(c, o.id, row)
      /\ UNCHANGED <<durable, redis, history>>

(* updateRedisSchedule: the row is read here and written in a later step.   *)
(* A create whose key led nowhere inserts instead.                         *)
ReadRow(c) ==
  LET o == calls[c]
      i == IF o.op = "create" THEN o.owner ELSE o.id
  IN  /\ o.op \in {"create", "patch"} /\ o.pc = "read"
      /\ IF i \in Present(cache) THEN Put(c, i, Patched(cache[i], o.patch))
         ELSE IF o.op = "create" THEN Put(c, o.id, Fresh(o.patch.key))
         ELSE Done(c)
      /\ UNCHANGED <<durable, rows, redis, history>>

-----------------------------------------------------------------------------
(* writeSchedule: hset of the row, then hset of its key, for each row that   *)
(* is to be put; and then what the call has left to do.                    *)
WriteRow(c, i) ==
  LET o == calls[c]
  IN  /\ o.pc \in {"row", "fill"} /\ i \in Present(o.put) \ o.keyed
      /\ cache' = [cache EXCEPT ![i] = o.put[i]]
      /\ calls' = [calls EXCEPT ![c].keyed = @ \cup {i}]
      /\ UNCHANGED <<durable, rows, dedupe, complete, history>>

WriteKey(c, i) ==
  LET o == calls[c]
      left == [o EXCEPT !.put[i] = None, !.keyed = @ \ {i}]
      k == o.put[i].key
  IN  /\ o.pc \in {"row", "fill"} /\ i \in o.keyed
      /\ dedupe' = IF k = None THEN dedupe ELSE [dedupe EXCEPT ![k] = i]
      /\ calls' = [calls EXCEPT ![c] =
           IF o.pc = "fill" THEN left
           ELSE IF o.again THEN [o EXCEPT !.again = FALSE, !.keyed = {}] ELSE Idle]
      /\ UNCHANGED <<durable, rows, cache, complete, history>>

-----------------------------------------------------------------------------
(* retrieve: the cache, or the store and then the cache.                    *)
Retrieve(c, i) ==
  /\ durable /\ i \notin Present(cache)
  /\ Begin(c, [Idle EXCEPT !.op = "retrieve", !.id = i])

StoreRetrieve(c) ==
  LET i == calls[c].id
  IN  /\ At(c, "retrieve", "store")
      /\ IF i \in Present(rows) THEN Put(c, i, rows[i]) ELSE Done(c)
      /\ UNCHANGED <<durable, rows, redis, history>>

(* list: of everything, or of what a filter selects.  While the cache is    *)
(* not complete the store answers, and what it answers is cached; only a    *)
(* full list makes it complete.                                            *)
List(c, full) ==
  /\ durable /\ ~complete
  /\ Begin(c, [Idle EXCEPT !.op = "list", !.full = full])

StoreList(c) ==
  /\ At(c, "list", "store")
  /\ \E some \in IF calls[c].full THEN {Present(rows)} ELSE SUBSET Present(rows) :
       calls' = [calls EXCEPT ![c].pc = "fill",
                              ![c].put = [i \in Ids |-> IF i \in some THEN rows[i] ELSE None]]
  /\ UNCHANGED <<durable, rows, redis, history>>

(* Mutant: any list makes the cache complete.                              *)
FilledAny(c) ==
  /\ At(c, "list", "fill") /\ calls[c].put = Nothing
  /\ complete' = TRUE
  /\ Done(c) /\ UNCHANGED <<durable, rows, cache, dedupe, history>>

Filled(c) ==
  /\ At(c, "list", "fill") /\ calls[c].put = Nothing
  /\ complete' = (complete \/ calls[c].full)
  /\ Done(c) /\ UNCHANGED <<durable, rows, cache, dedupe, history>>

-----------------------------------------------------------------------------
(* delete: the row is read for its key and taken out of the hash, then its   *)
(* key, and only then is the durable row deleted.                          *)
Delete(c, i) == Begin(c, [Idle EXCEPT !.op = "delete", !.pc = "read", !.id = i])

ReadKey(c) ==
  LET row == cache[calls[c].id]
  IN  /\ At(c, "delete", "read")
      /\ calls' = [calls EXCEPT ![c].pc = "hdel",
                               ![c].patch.key = IF row = None THEN None ELSE row.key]
      /\ UNCHANGED <<durable, rows, redis, history>>

Unhash(c) ==
  /\ At(c, "delete", "hdel")
  /\ cache' = [cache EXCEPT ![calls[c].id] = None]
  /\ Goto(c, "unkey") /\ UNCHANGED <<durable, rows, dedupe, complete, history>>

Unkey(c) ==
  LET k == calls[c].patch.key
  IN  /\ At(c, "delete", "unkey")
      /\ dedupe' = IF k = None THEN dedupe ELSE [dedupe EXCEPT ![k] = None]
      /\ Goto(c, "drop") /\ UNCHANGED <<durable, rows, cache, complete, history>>

StoreDelete(c) ==
  /\ At(c, "delete", "drop")
  /\ rows' = [rows EXCEPT ![calls[c].id] = None]
  /\ Done(c) /\ UNCHANGED <<durable, redis, history>>

-----------------------------------------------------------------------------
(* A call is cut short: what it has done so far stays.                      *)
Fault(c) ==
  /\ c \in Busy /\ faults < MaxFaults
  /\ faults' = faults + 1
  /\ Done(c) /\ UNCHANGED <<durable, rows, redis, overlapped, made>>

Patches == {[NoPatch EXCEPT !.active = b] : b \in BOOLEAN}
             \cup {[NoPatch EXCEPT !.key = k] : k \in Keys} \cup {[NoPatch EXCEPT !.ran = TRUE]}

-----------------------------------------------------------------------------
(* Properties.                                                             *)
TypeOK ==
  /\ rows \in Table /\ cache \in Table
  /\ dedupe \in [Keys -> Ids \cup {None}]
  /\ calls \in [Clients -> Call]
  /\ {durable, complete, overlapped} \subseteq BOOLEAN
  /\ made \in 0 .. MaxCalls /\ faults \in 0 .. MaxFaults

Quiet == Busy = {} /\ faults = 0

(* However calls overlap: once they have returned, a cache that says it is   *)
(* complete misses no schedule of the store, so none becomes one that ticks *)
(* but that list does not show.                                            *)
NothingMissing ==
  /\ TypeOK
  /\ durable /\ Quiet /\ complete => Present(rows) \subseteq Present(cache)

(* When calls do not overlap the cache cannot be told from the store: what   *)
(* it holds is what the store holds, all of it once it is complete.         *)
Current ==
  Quiet /\ ~overlapped =>
    /\ durable => \A i \in Present(cache) : cache[i] = rows[i]
    /\ durable /\ complete => cache = rows

(* "Drop the previous dedupe mapping when a schedule's key changes so a      *)
(* later create with the old key can't still patch this schedule": a create *)
(* patches the schedule whose row has the key.                             *)
PatchesItsKey ==
  [][\A c \in Clients :
       At(c, "create", "find") /\ calls'[c].pc = "read" /\ cache[calls'[c].owner] # None =>
         cache[calls'[c].owner].key = calls[c].patch.key]_scheduleVars
=============================================================================
