------------------------------ MODULE Schedules ------------------------------
(***************************************************************************)
(* One cron schedule (core/src/schedules.ts): its row in the store, the    *)
(* ticks for it in the transport's schedule queue, and the calls and fires *)
(* that work on both without a lock.                                       *)
(*                                                                         *)
(* The row and the tick queue are in different places, so every operation  *)
(* is several steps: it patches the row in one statement (memory and       *)
(* Postgres stores), then removes the delayed ticks it listed, one by one, *)
(* then enqueues the tick of the row as its own patch returned it.         *)
(***************************************************************************)
EXTENDS Naturals, FiniteSets

CONSTANTS
  Procs,     \* the processes that run calls and fires
  Crons,     \* cron expressions
  Times,     \* Times[c]: the instants cron expression c denotes
  Revives,   \* create makes an existing schedule active (the Postgres store)
  Attempts,  \* attempts of a tick job
  MaxStalled, \* maxStalledCount: crashes a tick job survives
  KeepsFailed, \* the transport keeps a failed tick's id: removeOnFail, which
               \* the world of BullMQ follows and the two others ignore
  MaxTime,   \* bound: the last instant of the clock
  MaxCalls,  \* bound: calls made
  MaxBusy,   \* bound: calls and fires in progress at once
  MaxThrows, \* bound: calls and fires that throw
  MaxCrashes \* bound: fires whose process crashes

Horizon == UNION {Times[c] : c \in Crons}

ASSUME ConstantsAssumption ==
  /\ Times \in [Crons -> SUBSET Nat] /\ "none" \notin Crons
  /\ {Revives, KeepsFailed} \subseteq BOOLEAN
  /\ Attempts \in Nat \ {0}
  /\ {MaxStalled, MaxTime, MaxCalls, MaxBusy, MaxThrows, MaxCrashes} \subseteq Nat
  /\ \A c \in Crons : \E t \in Times[c] : t > MaxTime

VARIABLES
  now,       \* the clock
  store,     \* the schedule's row, or None
  ticks,     \* ticks[t]: the tick job scheduled at t
  ops,       \* ops[p]: the call or fire process p is in
  triggered, \* history: triggered[t], how often the target ran for t
  calls,     \* calls made
  throws, crashes \* calls and fires that threw, fires that crashed

counts == <<calls, throws, crashes>>
vars == <<now, store, ticks, ops, triggered, counts>>

None == [active |-> FALSE, cron |-> "none", next |-> 0]

Row == [active : BOOLEAN, cron : Crons, next : Horizon]
Tick == [state : {"none", "delayed", "waiting", "active", "failed"},
         made : Nat, stalls : Nat]
NoTick == [state |-> "none", made |-> 0, stalls |-> 0]

(* A call or fire.  `row` is the row its patch returned, `listed` the ticks  *)
(* it has still to remove; `tick` the tick a fire serves.                   *)
Op == [op     : {"idle", "create", "update", "activate", "deactivate", "delete", "fire"},
       pc     : {"read", "trigger", "write", "list", "remove", "settle"},
       cron   : Crons \cup {"none"},
       next   : Horizon \cup {0},
       row    : Row \cup {None},
       listed : SUBSET Horizon,
       tick   : Horizon \cup {0},
       failed : BOOLEAN]

Idle == [op |-> "idle", pc |-> "read", cron |-> "none", next |-> 0, row |-> None,
         listed |-> {}, tick |-> 0, failed |-> FALSE]

Init ==
  /\ now = 0 /\ store = None
  /\ ticks = [t \in Horizon |-> NoTick]
  /\ ops = [p \in Procs |-> Idle]
  /\ triggered = [t \in Horizon |-> 0]
  /\ calls = 0 /\ throws = 0 /\ crashes = 0

-----------------------------------------------------------------------------
(* nextCronStep (mutant: the instant itself counts), and                   *)
(* nextScheduledTimestamp, which skips what was missed.                    *)
CronStepFrom(c, from) ==
  CHOOSE t \in Times[c] : t >= from /\ \A s \in Times[c] : s >= from => t <= s
CronStep(c, from) ==
  CHOOSE t \in Times[c] : t > from /\ \A s \in Times[c] : s > from => t <= s

NextRun(c, from) ==
  LET t == CronStep(c, from) IN IF t < now THEN CronStep(c, now) ELSE t

Busy == {p \in Procs : ops[p].op # "idle"}
Starts(p) == p \notin Busy /\ Cardinality(Busy) < MaxBusy

Begin(p, op) ==
  /\ Starts(p)
  /\ calls < MaxCalls
  /\ calls' = calls + 1
  /\ ops' = [ops EXCEPT ![p] = op]
  /\ UNCHANGED <<now, ticks, triggered, throws, crashes>>

(* create and upsertDeclarative: the next run is computed, then the row is  *)
(* inserted, or patched when its deduplication key has one.                *)
Create(p, c) ==
  /\ Begin(p, [Idle EXCEPT !.op = "create", !.pc = "write", !.cron = c,
                           !.next = NextRun(c, now)])
  /\ UNCHANGED store

(* update, with a cron or without: the row read decides the next run.      *)
Update(p, c) ==
  /\ store # None
  /\ LET cron == IF c = "none" THEN store.cron ELSE c
     IN  Begin(p, [Idle EXCEPT !.op = "update", !.pc = "write", !.cron = c,
                               !.next = NextRun(cron, now)])
  /\ UNCHANGED store

(* Mutant: activate only patches the row.                                  *)
ActivateOnly(p) ==
  /\ store # None
  /\ store' = [store EXCEPT !.active = TRUE]
  /\ Begin(p, [Idle EXCEPT !.op = "activate", !.pc = "list"])

Activate(p) ==
  /\ store # None
  /\ store' = [store EXCEPT !.active = TRUE]
  /\ Begin(p, [Idle EXCEPT !.op = "activate", !.pc = "list", !.row = store'])

Deactivate(p) ==
  /\ store # None
  /\ store' = [store EXCEPT !.active = FALSE]
  /\ Begin(p, [Idle EXCEPT !.op = "deactivate", !.pc = "list"])

Delete(p) ==
  /\ Begin(p, [Idle EXCEPT !.op = "delete", !.pc = "list"])
  /\ UNCHANGED store

(* Mutant: a cron that is not given is written too.                        *)
WrittenCron(o) ==
  IF o.op = "create" /\ store = None
    THEN [active |-> TRUE, cron |-> o.cron, next |-> o.next]
    ELSE [active |-> store.active \/ (o.op = "create" /\ Revives),
          cron |-> o.cron, next |-> o.next]

Written(o) ==
  IF o.op = "create" /\ store = None
    THEN [active |-> TRUE, cron |-> o.cron, next |-> o.next]
    ELSE [active |-> store.active \/ (o.op = "create" /\ Revives),
          cron   |-> IF o.cron = "none" THEN store.cron ELSE o.cron,
          next   |-> o.next]

(* The store's statement of create, update and, in a fire, complete.  Only  *)
(* create makes a row.                                                     *)
Write(p) ==
  LET o == ops[p]
  IN  /\ o.op # "idle" /\ o.pc = "write"
      /\ IF store = None /\ o.op # "create"
           THEN /\ ops' = [ops EXCEPT ![p] =
                             IF o.op = "fire" THEN [o EXCEPT !.pc = "settle"] ELSE Idle]
                /\ UNCHANGED store
           ELSE /\ store' = Written(o)
                /\ ops' = [ops EXCEPT ![p] = [o EXCEPT !.pc = "list", !.row = store']]
      /\ UNCHANGED <<now, ticks, triggered, counts>>

-----------------------------------------------------------------------------
(* removeScheduleJob and enqueueNext.  A tick that is due is not listed.    *)
List(p) ==
  /\ ops[p].op # "idle" /\ ops[p].pc = "list"
  /\ ops' = [ops EXCEPT ![p].pc = "remove",
                        ![p].listed = {t \in Horizon : ticks[t].state = "delayed"}]
  /\ UNCHANGED <<now, store, ticks, triggered, counts>>

(* An active tick stays: remove() throws, and the error is dropped.        *)
Remove(p, t) ==
  /\ ops[p].pc = "remove" /\ t \in ops[p].listed
  /\ ops' = [ops EXCEPT ![p].listed = @ \ {t}]
  /\ ticks' = [ticks EXCEPT ![t] = IF @.state = "active" THEN @ ELSE NoTick]
  /\ UNCHANGED <<now, store, triggered, counts>>

(* An id that is in the queue already is not enqueued again: nor is one     *)
(* that failed, while it is kept.                                          *)
Enqueued(row) ==
  IF row.active /\ ticks[row.next].state = "none"
    THEN [ticks EXCEPT ![row.next].state = IF row.next > now THEN "delayed" ELSE "waiting"]
    ELSE ticks

Finish(p) ==
  LET o == ops[p]
  IN  /\ o.op # "idle" /\ o.pc = "remove" /\ o.listed = {}
      /\ ticks' = IF o.row = None THEN ticks ELSE Enqueued(o.row)
      /\ store' = IF o.op = "delete" THEN None ELSE store
      /\ ops' = [ops EXCEPT ![p] =
                   IF o.op = "fire" THEN [o EXCEPT !.pc = "settle"] ELSE Idle]
      /\ UNCHANGED <<now, triggered, counts>>

-----------------------------------------------------------------------------
(* A tick falls due when its delay, or the backoff of its retry, is over;   *)
(* a worker claims it and fire runs.                                       *)
Due(t) ==
  /\ ticks[t].state = "delayed"
  /\ t <= now \/ ticks[t].made > 0
  /\ ticks' = [ticks EXCEPT ![t].state = "waiting"]
  /\ UNCHANGED <<now, store, ops, triggered, counts>>

Claim(p, t) ==
  /\ Starts(p)
  /\ ticks[t].state = "waiting"
  /\ ticks' = [ticks EXCEPT ![t].state = "active"]
  /\ ops' = [ops EXCEPT ![p] = [Idle EXCEPT !.op = "fire", !.tick = t]]
  /\ UNCHANGED <<now, store, triggered, counts>>

(* Mutant: the occurrence is not compared.                                 *)
FiresAnyTick(t) == store # None /\ store.active

(* fire serves an active schedule, and the occurrence it is waiting for.    *)
Fires(t) == store # None /\ store.active /\ store.next = t

Read(p) ==
  LET o == ops[p]
  IN  /\ o.op = "fire" /\ o.pc = "read"
      /\ ops' = [ops EXCEPT ![p] =
           IF Fires(o.tick) THEN [o EXCEPT !.pc = "trigger",
                                           !.next = NextRun(store.cron, o.tick)]
                            ELSE [o EXCEPT !.pc = "settle"]]
      /\ UNCHANGED <<now, store, ticks, triggered, counts>>

(* Mutant: the error ends the fire.                                        *)
TriggerThrows(p) ==
  LET o == ops[p]
  IN  /\ o.op = "fire" /\ o.pc = "trigger"
      /\ \E ok \in BOOLEAN :
           /\ triggered' = [triggered EXCEPT ![o.tick] = IF ok THEN @ + 1 ELSE @]
           /\ ops' = [ops EXCEPT ![p] = [o EXCEPT !.pc = IF ok THEN "write" ELSE "settle",
                                                  !.failed = ~ok]]
      /\ UNCHANGED <<now, store, ticks, counts>>

(* The target is triggered, or that throws: the error is kept for later.    *)
Trigger(p) ==
  LET o == ops[p]
  IN  /\ o.op = "fire" /\ o.pc = "trigger"
      /\ \E ok \in BOOLEAN :
           /\ triggered' = [triggered EXCEPT ![o.tick] = IF ok THEN @ + 1 ELSE @]
           /\ ops' = [ops EXCEPT ![p] = [o EXCEPT !.pc = "write", !.failed = ~ok]]
      /\ UNCHANGED <<now, store, ticks, counts>>

(* A tick that failed for good stays under its id, or is gone.              *)
Over == IF KeepsFailed THEN [NoTick EXCEPT !.state = "failed"] ELSE NoTick

(* The transport settles the tick: gone, back after a backoff, or over.     *)
Settled(k, failed) ==
  IF ~failed THEN NoTick
  ELSE IF k.made + 1 < Attempts
    THEN [k EXCEPT !.state = "delayed", !.made = @ + 1] ELSE Over

(* Retention drops a tick that failed (an age and a count).                 *)
Forget(t) ==
  /\ ticks[t].state = "failed"
  /\ ticks' = [ticks EXCEPT ![t] = NoTick]
  /\ UNCHANGED <<now, store, ops, triggered, counts>>

Settle(p) ==
  LET o == ops[p]
  IN  /\ o.op = "fire" /\ o.pc = "settle"
      /\ ticks' = [ticks EXCEPT ![o.tick] = Settled(@, o.failed)]
      /\ ops' = [ops EXCEPT ![p] = Idle]
      /\ UNCHANGED <<now, store, triggered, counts>>

-----------------------------------------------------------------------------
(* An await of a fire throws, or its process crashes and the tick is        *)
(* delivered again, unless it has stalled too often; a call that throws is  *)
(* over.                                                                   *)
Throw(p) ==
  /\ p \in Busy /\ ops[p].pc # "settle"
  /\ throws < MaxThrows
  /\ throws' = throws + 1
  /\ ops' = [ops EXCEPT ![p] = IF @.op = "fire"
                                 THEN [@ EXCEPT !.pc = "settle", !.failed = TRUE]
                                 ELSE Idle]
  /\ UNCHANGED <<now, store, ticks, triggered, calls, crashes>>

Stalled(k) ==
  IF k.stalls < MaxStalled
    THEN [k EXCEPT !.state = "waiting", !.stalls = @ + 1] ELSE Over

Crash(p) ==
  /\ ops[p].op = "fire"
  /\ crashes < MaxCrashes
  /\ crashes' = crashes + 1
  /\ ops' = [ops EXCEPT ![p] = Idle]
  /\ ticks' = [ticks EXCEPT ![ops[p].tick] = Stalled(@)]
  /\ UNCHANGED <<now, store, triggered, calls, throws>>

Elapse ==
  /\ now < MaxTime
  /\ now' = now + 1
  /\ UNCHANGED <<store, ticks, ops, triggered, counts>>

Step(p) ==
  \/ Write(p) \/ List(p) \/ Finish(p) \/ Read(p) \/ Trigger(p) \/ Settle(p)
  \/ \E t \in Horizon : Remove(p, t)

Next ==
  \/ \E p \in Procs :
       \/ \E c \in Crons : Create(p, c)
       \/ \E c \in Crons \cup {"none"} : Update(p, c)
       \/ Activate(p) \/ Deactivate(p) \/ Delete(p)
       \/ Step(p)
       \/ \E t \in Horizon : Claim(p, t)
       \/ Throw(p) \/ Crash(p)
  \/ \E t \in Horizon : Due(t) \/ Forget(t)
  \/ Elapse

Spec == Init /\ [][Next]_vars

(* Awaits return, timers fire, and some worker serves the tick queue.       *)
Fairness ==
  /\ \A p \in Procs : WF_vars(Step(p))
  /\ \A t \in Horizon : WF_vars(Due(t)) /\ SF_vars(\E p \in Procs : Claim(p, t))
  /\ WF_vars(Elapse)

FairSpec == Spec /\ Fairness

-----------------------------------------------------------------------------
(* Properties.                                                             *)
TypeOK ==
  /\ now \in 0 .. MaxTime
  /\ store \in Row \cup {None}
  /\ ticks \in [Horizon -> Tick]
  /\ ops \in [Procs -> Op]
  /\ triggered \in [Horizon -> Nat]
  /\ calls \in 0 .. MaxCalls
  /\ throws \in 0 .. MaxThrows /\ crashes \in 0 .. MaxCrashes

(* Between operations an active schedule has the tick of its next run: it   *)
(* never becomes one that lists but can never tick.                        *)
Armed ==
  Busy = {} /\ store # None /\ store.active =>
    ticks[store.next].state \in {"delayed", "waiting"}

(* Between operations no delayed tick is left over: update replaced it,     *)
(* deactivate and delete cleared it.  (A retry in its backoff is the        *)
(* occurrence that was just completed.)                                    *)
StaleTicksGone ==
  Busy = {} =>
    \A t \in Horizon : ticks[t].state = "delayed" /\ ticks[t].made = 0 =>
      store # None /\ store.active /\ store.next = t

(* While nothing throws or crashes, an active schedule keeps its one tick   *)
(* through every sequence of calls and fires.                              *)
ScheduleKept == TypeOK /\ (throws + crashes = 0 => Armed /\ StaleTicksGone)

(* An occurrence triggers the target once: only what threw or crashed      *)
(* between the trigger and the patch can make it trigger again.            *)
TriggeredOnce == \A t \in Horizon : triggered[t] <= 1 + throws + crashes

(* Without overlap, what a fire triggers is an instant of the cron the      *)
(* schedule has by now, which has come, of a schedule that is active: a     *)
(* due tick that an update left behind triggers nothing.                    *)
OnCron ==
  [][\A t \in Horizon :
       triggered'[t] # triggered[t] =>
         store # None /\ store.active /\ t <= now /\ t \in Times[store.cron]]_vars

(* A create, update or activate that returns, and did not overlap with      *)
(* another operation, leaves no stale tick and the schedule armed, whatever  *)
(* had failed before.  The exception is an activate: it keeps the row's     *)
(* occurrence, and where the transport still holds the tick of that one,    *)
(* failed for good, its id is taken and nothing is enqueued; an update,     *)
(* which moves on to a later occurrence, is what repairs such a schedule.   *)
SpentTick == store # None /\ ticks[store.next].state = "failed"

Rearms ==
  [][\A p \in Procs :
       ops[p].op \in {"create", "update", "activate"} /\ ops'[p] = Idle /\ throws' = throws =>
         /\ StaleTicksGone'
         /\ Armed' \/ (ops[p].op = "activate" /\ SpentTick)]_vars

(* A finding: so does every activate that returns.                         *)
ActivateArms ==
  [][\A p \in Procs :
       ops[p].op = "activate" /\ ops'[p] = Idle /\ throws' = throws => Armed']_vars

(* Every occurrence an active schedule waits for comes: the schedule moves  *)
(* on to another one, or is paused or deleted, unless something failed.     *)
Waits(t) == store # None /\ store.active /\ store.next = t

Moves ==
  \A t \in 0 .. MaxTime \cap Horizon : Waits(t) ~> ~Waits(t) \/ throws + crashes > 0
==============================================================================
