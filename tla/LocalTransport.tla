--------------------------- MODULE LocalTransport ----------------------------
(***************************************************************************)
(* The in-process delivery transport (core/src/transport/local.ts): a map  *)
(* of job records per queue, timers for delayed jobs and retries, flows of *)
(* parents that wait for their children, and consumers that `pump` fills   *)
(* with waiting jobs.                                                      *)
(*                                                                         *)
(* One synchronous run of JavaScript is one step: everything a call, a     *)
(* timer or the resumption after an await does before it awaits again,     *)
(* the pump at its end included.                                           *)
(***************************************************************************)
EXTENDS Naturals, Sequences, FiniteSets, SequencesExt

CONSTANTS
  Jobs,        \* job ids
  Queues,
  QueueOf,     \* the queue each id is enqueued to
  Consumers,   \* the consumers created over time
  ServedBy,    \* the queue a consumer serves
  Concurrency, \* jobs a consumer runs at once
  Attempts,    \* spec.attempts
  Rank,        \* spec.priority; the smaller is run first
  Delayed,     \* the ids whose spec has a delay
  Children,    \* Children[j]: the child nodes of j in a flow, in order
  OnFailure,   \* what a child's final failure does to its parent
  Handles,     \* the job handles clients hold at once
  MaxEnqueues  \* bound: how often one id is enqueued

ASSUME ConstantsAssumption ==
  /\ IsFiniteSet(Jobs)
  /\ QueueOf \in [Jobs -> Queues]
  /\ ServedBy \in [Consumers -> Queues]
  /\ Concurrency \in Nat \ {0}
  /\ Attempts \in Nat \ {0}
  /\ Rank \in [Jobs -> Nat]
  /\ Delayed \subseteq Jobs
  /\ Children \in [Jobs -> Seq(Jobs)]
  /\ OnFailure \in [Jobs -> {"ignore", "fail", "continue", "block"}]
  /\ MaxEnqueues \in Nat

VARIABLES
  mem,      \* the transport's memory: its maps, records and counters
  phase,    \* phase[c]: "new", "open", "closing" or "closed"
  transport,\* "open", "closing" or "closed"
  handle,   \* handle[h]: the record a client's handle refers to
  reported, \* history: insertions whose terminal callback has returned
  removed,  \* history: insertions deleted by a handle or with a failed flow
  lost      \* history: insertions the transport's close discarded

vars == <<mem, phase, transport, handle, reported, removed, lost>>
fates == <<reported, removed, lost>>

-----------------------------------------------------------------------------
(* A record is named <<id, n>>, n being how many records of the id came     *)
(* before it, itself included: handles and children refer to the object,    *)
(* the queue's map to the id.                                              *)
None == <<>>
Refs == Jobs \X (1 .. MaxEnqueues)

Record == [state   : {"unborn", "delayed", "waiting", "waiting-children", "active"},
           made    : Nat,              \* attemptsMade
           seq     : Nat,
           timer   : BOOLEAN,
           parent  : Refs \cup {None},
           pending : Nat]              \* pendingChildren

(* A runAttempt: its handler runs ("process") or its callback ("callback"). *)
(* `number` tells the attempts at one record apart; `done` says that the    *)
(* record was deleted, so that the callback is its last.                    *)
Attempt == [job : Jobs, inc : Nat, cons : Consumers, number : Nat,
            phase : {"process", "callback"}, ok : BOOLEAN, done : BOOLEAN]

(* The memory m: m.held[j] is the record in the map under id j, 0 if none.  *)
Memory == [held     : [Jobs -> 0 .. MaxEnqueues],
           rec      : [Jobs -> [1 .. MaxEnqueues -> Record]],
           seq      : Nat,
           active   : [Consumers -> Nat],
           attempts : SUBSET Attempt]

Unborn == [state |-> "unborn", made |-> 0, seq |-> 0, timer |-> FALSE,
           parent |-> None, pending |-> 0]

Held(m) == {j \in Jobs : m.held[j] # 0}
The(m, j) == m.rec[j][m.held[j]]
Births(m, j) == Cardinality({i \in 1 .. MaxEnqueues : m.rec[j][i].state # "unborn"})
Current(m, S) == {<<j, m.held[j]>> : j \in S}

Init ==
  /\ mem = [held     |-> [j \in Jobs |-> 0],
            rec      |-> [j \in Jobs |-> [i \in 1 .. MaxEnqueues |-> Unborn]],
            seq      |-> 0,
            active   |-> [c \in Consumers |-> 0],
            attempts |-> {}]
  /\ phase = [c \in Consumers |-> "new"]
  /\ transport = "open"
  /\ handle = [h \in Handles |-> None]
  /\ reported = {} /\ removed = {} /\ lost = {}

-----------------------------------------------------------------------------
(* pump: the open consumer of the queue takes the first waiting jobs, in    *)
(* the order of nextWaiting, until its slots are full.                      *)
Waiting(m, q) == {j \in Held(m) : QueueOf[j] = q /\ The(m, j).state = "waiting"}

Before(m, i, j) ==
  \/ Rank[i] < Rank[j]
  \/ Rank[i] = Rank[j] /\ The(m, i).seq < The(m, j).seq

Free(m, c) == IF m.active[c] < Concurrency THEN Concurrency - m.active[c] ELSE 0

First(m, S, n) ==
  CHOOSE T \in SUBSET S :
    /\ Cardinality(T) = IF n < Cardinality(S) THEN n ELSE Cardinality(S)
    /\ \A i \in T, j \in S \ T : Before(m, i, j)

Started(m, T, c) ==
  [m EXCEPT
     !.rec = [j \in Jobs |-> IF j \in T THEN [m.rec[j] EXCEPT ![m.held[j]].state = "active"]
                                        ELSE m.rec[j]],
     !.active[c] = @ + Cardinality(T),
     !.attempts = @ \cup {[job |-> j, inc |-> m.held[j], cons |-> c,
                           number |-> The(m, j).made, phase |-> "process",
                           ok |-> FALSE, done |-> FALSE] : j \in T}]

Serving(q) == {c \in Consumers : ServedBy[c] = q /\ phase[c] = "open"}

Pump(m, q) ==
  IF Serving(q) = {} THEN m
  ELSE LET c == CHOOSE c \in Serving(q) : TRUE
       IN  Started(m, First(m, Waiting(m, q), Free(m, c)), c)

-----------------------------------------------------------------------------
(* admit, promoteParent and the retry: a record waits, or waits for its     *)
(* timer first.  A closed transport sets no timer.                          *)
Postponed(m, j) ==
  [m EXCEPT !.rec[j][m.held[j]] = [@ EXCEPT !.state = "delayed",
                                            !.timer = (transport = "open")]]

Ready(m, j) ==
  Pump([m EXCEPT !.rec[j][m.held[j]].state = "waiting"], QueueOf[j])

Admitted(m, j) == IF j \in Delayed THEN Postponed(m, j) ELSE Ready(m, j)

Inserted(m, j, state, parent, pending) ==
  LET n == Births(m, j) + 1
  IN  [m EXCEPT !.held[j] = n,
                !.rec[j][n] = [state |-> state, made |-> 0, seq |-> m.seq,
                               timer |-> FALSE, parent |-> parent,
                               pending |-> pending],
                !.seq = @ + 1]

(* buildFlowRecord, node by node in preorder: an id already in the map is   *)
(* left as it is, with what is below it in the flow.                        *)
Preorder[j \in Jobs] ==
  <<j>> \o FlattenSeq([i \in DOMAIN Children[j] |-> Preorder[Children[j][i]]])

(* A flow is a finite tree.                                                *)
ASSUME FlowAssumption == Preorder \in [Jobs -> Seq(Jobs)]

IsChild(j, p) == \E i \in DOMAIN Children[p] : Children[p][i] = j

Built(flow, j) ==
  LET m == flow.mem
      above == {p \in flow.new : IsChild(j, p)}
      parent == IF above = {} THEN None
                ELSE LET p == CHOOSE p \in above : TRUE IN <<p, m.held[p]>>
      n == Len(Children[j])
  IN  IF m.held[j] # 0 \/ (above = {} /\ j # flow.root) THEN flow
      ELSE [flow EXCEPT !.new = @ \cup {j},
              !.mem = IF n > 0
                        THEN Inserted(m, j, "waiting-children", parent, n)
                        ELSE Admitted(Inserted(m, j, "waiting", parent, 0), j)]

FlowBuilt(m, j) ==
  LET nodes == Preorder[j]
      flow[n \in 0 .. Len(nodes)] ==
        IF n = 0 THEN [mem |-> m, new |-> {}, root |-> j] ELSE Built(flow[n - 1], nodes[n])
  IN  flow[Len(nodes)].mem

Enqueue(j) ==
  /\ mem.held[j] = 0
  /\ Births(mem, j) < MaxEnqueues
  /\ mem' = Admitted(Inserted(mem, j, "waiting", None, 0), j)
  /\ UNCHANGED <<phase, transport, handle, fates>>

EnqueueFlow(j) ==
  /\ Children[j] # <<>>
  /\ mem.held[j] = 0
  /\ \A k \in ToSet(Preorder[j]) : mem.held[k] # 0 \/ Births(mem, k) < MaxEnqueues
  /\ mem' = FlowBuilt(mem, j)
  /\ UNCHANGED <<phase, transport, handle, fates>>

(* Mutant: the timer of a retry does not pump.                             *)
TimerUnpumped(j, i) ==
  /\ mem.rec[j][i].timer
  /\ mem' = [mem EXCEPT !.rec[j][i].timer = FALSE, !.rec[j][i].state = "waiting"]
  /\ UNCHANGED <<phase, transport, handle, fates>>

Timer(j, i) ==
  /\ mem.rec[j][i].timer
  /\ mem' = Pump([mem EXCEPT !.rec[j][i].timer = FALSE,
                             !.rec[j][i].state = "waiting"], QueueOf[j])
  /\ UNCHANGED <<phase, transport, handle, fates>>

-----------------------------------------------------------------------------
(* Parents.                                                                *)
ParentPending(m, p) ==
  /\ p # None
  /\ m.held[p[1]] = p[2]
  /\ m.rec[p[1]][p[2]].state = "waiting-children"

(* Mutant: the last child but one releases its parent.                     *)
CountedEarly(m, p) ==
  IF ~ParentPending(m, p) THEN m
  ELSE LET n == m.rec[p[1]][p[2]].pending
           c == [m EXCEPT !.rec[p[1]][p[2]].pending = n - 1]
       IN  IF n <= 2 THEN Admitted(c, p[1]) ELSE c

Counted(m, p) ==
  IF ~ParentPending(m, p) THEN m
  ELSE LET n == m.rec[p[1]][p[2]].pending
           c == [m EXCEPT !.rec[p[1]][p[2]].pending = n - 1]
       IN  IF n <= 1 THEN Admitted(c, p[1]) ELSE c

(* failParent, and upward as long as the failed parent opted its own in.   *)
Doomed(m, p) ==
  LET up[n \in 0 .. Cardinality(Jobs)] ==
        IF n = 0 THEN {p}
        ELSE up[n - 1] \cup
               {m.rec[q[1]][q[2]].parent : q \in
                  {q \in up[n - 1] : /\ OnFailure[q[1]] = "fail"
                                     /\ ParentPending(m, m.rec[q[1]][q[2]].parent)}}
  IN  {q[1] : q \in up[Cardinality(Jobs)]}

Deleted(m, S) == [m EXCEPT !.held = [j \in Jobs |-> IF j \in S THEN 0 ELSE @[j]]]

(* The jobs a child's final failure deletes with it.                       *)
Felled(m, child) ==
  LET p == m.rec[child[1]][child[2]].parent
  IN  IF OnFailure[child[1]] = "fail" /\ ParentPending(m, p) THEN Doomed(m, p) ELSE {}

(* Mutant: an ignored failure is not counted.                              *)
SettledUncounted(m, child) ==
  LET p == m.rec[child[1]][child[2]].parent
  IN  IF OnFailure[child[1]] = "continue" /\ ParentPending(m, p)
        THEN Admitted(m, p[1])
        ELSE Deleted(m, Felled(m, child))

(* settleParentOnFinalFailure.                                             *)
Settled(m, child) ==
  LET p == m.rec[child[1]][child[2]].parent
  IN  CASE OnFailure[child[1]] = "ignore" -> Counted(m, p)
        [] OnFailure[child[1]] = "continue" /\ ParentPending(m, p) -> Admitted(m, p[1])
        [] OTHER -> Deleted(m, Felled(m, child))

-----------------------------------------------------------------------------
(* runAttempt, from the end of the handler to the await of the callback.    *)
Ref(a) == <<a.job, a.inc>>
Called(m, a, ok, done) ==
  [m EXCEPT !.attempts = (@ \ {a}) \cup
              {[a EXCEPT !.phase = "callback", !.ok = ok, !.done = done]},
            !.rec[a.job][a.inc].made = @ + 1]

(* Mutant: a completed record stays in the map.                            *)
SucceedKeeps(a) ==
  /\ a.phase = "process"
  /\ mem' = Called(mem, a, TRUE, TRUE)
  /\ UNCHANGED <<phase, transport, handle, fates>>

Succeed(a) ==
  /\ a.phase = "process"
  /\ mem' = Deleted(Called(mem, a, TRUE, TRUE), {a.job})
  /\ UNCHANGED <<phase, transport, handle, fates>>

(* Mutant: the backoff sets no timer.                                      *)
RetryUntimed(a) ==
  /\ a.phase = "process"
  /\ mem.rec[a.job][a.inc].made + 1 < Attempts
  /\ mem' = [Called(mem, a, FALSE, FALSE) EXCEPT !.rec[a.job][a.inc].state = "delayed"]
  /\ UNCHANGED <<phase, transport, handle, fates>>

Retry(a) ==
  /\ a.phase = "process"
  /\ mem.rec[a.job][a.inc].made + 1 < Attempts
  /\ LET m == Called(mem, a, FALSE, FALSE)
     IN  mem' = [m EXCEPT !.rec[a.job][a.inc].state = "delayed",
                          !.rec[a.job][a.inc].timer = (transport = "open")]
  /\ UNCHANGED <<phase, transport, handle, fates>>

(* The error is final, or it was the last attempt.                         *)
Fail(a) ==
  /\ a.phase = "process"
  /\ LET m == Deleted(Called(mem, a, FALSE, TRUE), {a.job})
     IN  /\ mem' = Settled(m, Ref(a))
         /\ removed' = removed \cup Current(m, Felled(m, Ref(a)))
  /\ UNCHANGED <<phase, transport, handle, reported, lost>>

(* Mutant: the promise of a failure never settles.                         *)
ReturnSuccessOnly(a) ==
  /\ a.phase = "callback" /\ a.ok
  /\ LET m == [mem EXCEPT !.attempts = @ \ {a}]
         n == Counted(m, m.rec[a.job][a.inc].parent)
     IN  mem' = Pump([n EXCEPT !.active[a.cons] = @ - 1], ServedBy[a.cons])
  /\ reported' = reported \cup IF a.done THEN {Ref(a)} ELSE {}
  /\ UNCHANGED <<phase, transport, handle, removed, lost>>

(* The callback returns; a completed child counts for its parent only now.  *)
Return(a) ==
  /\ a.phase = "callback"
  /\ LET m == [mem EXCEPT !.attempts = @ \ {a}]
         n == IF a.ok THEN Counted(m, m.rec[a.job][a.inc].parent) ELSE m
     IN  mem' = Pump([n EXCEPT !.active[a.cons] = @ - 1], ServedBy[a.cons])
  /\ reported' = reported \cup IF a.done THEN {Ref(a)} ELSE {}
  /\ UNCHANGED <<phase, transport, handle, removed, lost>>

-----------------------------------------------------------------------------
(* Handles: getJob or listDelayed, and remove some time later.             *)
GetJob(h, j) ==
  /\ handle[h] = None
  /\ mem.held[j] # 0
  /\ handle' = [handle EXCEPT ![h] = <<j, mem.held[j]>>]
  /\ UNCHANGED <<mem, phase, transport, fates>>

(* removeJob: the record says whether it may go, the id which one does.    *)
Removed(m, r) ==
  Counted(Deleted([m EXCEPT !.rec[r[1]][r[2]].timer = FALSE], {r[1]}),
          m.rec[r[1]][r[2]].parent)

RemoveJob(h) ==
  LET r == handle[h]
  IN  /\ r # None
      /\ IF mem.rec[r[1]][r[2]].state = "active"       \* remove() throws
           THEN UNCHANGED <<mem, removed>>
           ELSE /\ mem' = Removed(mem, r)
                /\ removed' = removed \cup Current(mem, {r[1]} \cap Held(mem))
      /\ handle' = [handle EXCEPT ![h] = None]
      /\ UNCHANGED <<phase, transport, reported, lost>>

-----------------------------------------------------------------------------
(* A queue has one open consumer at a time (createWorkerConsumers makes one *)
(* per queue); a later worker's takes over after the close of the first has *)
(* begun, while its attempts drain.                                        *)
Consume(c) ==
  /\ transport = "open"
  /\ phase[c] = "new"
  /\ Serving(ServedBy[c]) = {}
  /\ phase' = [phase EXCEPT ![c] = "open"]
  /\ mem' = Started(mem, First(mem, Waiting(mem, ServedBy[c]), Free(mem, c)), c)
  /\ UNCHANGED <<transport, handle, fates>>

CloseConsumer(c) ==
  /\ phase[c] = "open"
  /\ phase' = [phase EXCEPT ![c] = "closing"]
  /\ UNCHANGED <<mem, transport, handle, fates>>

Drained(c) == \A a \in mem.attempts : a.cons # c

ConsumerClosed(c) ==
  /\ phase[c] = "closing"
  /\ transport # "closing"
  /\ Drained(c)
  /\ phase' = [phase EXCEPT ![c] = "closed"]
  /\ UNCHANGED <<mem, transport, handle, fates>>

(* The runtime closes the transport once its consumers' closes returned;   *)
(* a transport closed first closes the consumers that are open.            *)
CloseTransport ==
  /\ transport = "open"
  /\ \A c \in Consumers : phase[c] # "closing"
  /\ transport' = "closing"
  /\ phase' = [c \in Consumers |-> IF phase[c] = "open" THEN "closing" ELSE phase[c]]
  /\ mem' = [mem EXCEPT !.rec =
       [j \in Jobs |-> [i \in 1 .. MaxEnqueues |-> [@[j][i] EXCEPT !.timer = FALSE]]]]
  /\ UNCHANGED <<handle, fates>>

TransportClosed ==
  /\ transport = "closing"
  /\ \A c \in Consumers : Drained(c)
  /\ transport' = "closed"
  /\ phase' = [c \in Consumers |-> "closed"]
  /\ mem' = Deleted(mem, Jobs)
  /\ lost' = lost \cup Current(mem, Held(mem))
  /\ UNCHANGED <<handle, reported, removed>>

-----------------------------------------------------------------------------
Advance(a) == Succeed(a) \/ Retry(a) \/ Fail(a) \/ Return(a)

Next ==
  \/ \E j \in Jobs : Enqueue(j) \/ EnqueueFlow(j)
  \/ \E j \in Jobs, i \in 1 .. MaxEnqueues : Timer(j, i)
  \/ \E a \in mem.attempts : Advance(a)
  \/ \E h \in Handles : RemoveJob(h) \/ \E j \in Jobs : GetJob(h, j)
  \/ \E c \in Consumers : Consume(c) \/ CloseConsumer(c) \/ ConsumerClosed(c)
  \/ CloseTransport
  \/ TransportClosed

Spec == Init /\ [][Next]_vars

(* Timers fire, handlers and callbacks return, and some worker consumes     *)
(* every queue.                                                            *)
Fairness ==
  /\ \A j \in Jobs, i \in 1 .. MaxEnqueues : WF_vars(Timer(j, i))
  /\ WF_vars(\E a \in mem.attempts : Advance(a))
  /\ \A c \in Consumers : WF_vars(Consume(c)) /\ WF_vars(ConsumerClosed(c))
  /\ WF_vars(TransportClosed)

FairSpec == Spec /\ Fairness
-----------------------------------------------------------------------------
(* Properties.                                                             *)

(* The maps, the records and the counters stay in their types.             *)
TypeOK ==
  /\ mem.held \in [Jobs -> 0 .. MaxEnqueues]
  /\ mem.rec \in [Jobs -> [1 .. MaxEnqueues -> Record]]
  /\ mem.seq \in Nat
  /\ mem.active \in [Consumers -> 0 .. Concurrency]
  /\ mem.attempts \subseteq Attempt
  /\ phase \in [Consumers -> {"new", "open", "closing", "closed"}]
  /\ transport \in {"open", "closing", "closed"}
  /\ handle \in [Handles -> Refs \cup {None}]
  /\ reported \subseteq Refs /\ removed \subseteq Refs /\ lost \subseteq Refs

(* Whatever made a job waiting or freed a slot also pumped the right queue: *)
(* no job waits while a consumer of its queue has a slot to run it.         *)
NoIdleSlot ==
  \A c \in Consumers :
    phase[c] = "open" => Free(mem, c) = 0 \/ Waiting(mem, ServedBy[c]) = {}

(* A slot is held from the pump to the end of the callback and then given   *)
(* back, once, whatever the attempt's outcome.                             *)
SlotsMatch ==
  \A c \in Consumers :
    mem.active[c] = Cardinality({a \in mem.attempts : a.cons = c})

(* Nothing is forgotten: a slot is given back, a delayed job has its timer,  *)
(* an active job its handler, and no handler runs beside another of the     *)
(* same id, unless a handle removed a record of that id.                    *)
NothingForgotten ==
  /\ TypeOK
  /\ SlotsMatch
  /\ \A j \in Held(mem) :
       /\ The(mem, j).state = "delayed" /\ transport = "open" => The(mem, j).timer
       /\ The(mem, j).state = "active" =>
            \E a \in mem.attempts : Ref(a) = <<j, mem.held[j]>> /\ a.phase = "process"
  /\ \A a, b \in mem.attempts :
       a.phase = "process" /\ b.phase = "process" /\ a.job = b.job =>
         a = b \/ \E i \in 1 .. MaxEnqueues : <<a.job, i>> \in removed

(* "A parent runs after all of its children complete": while a child is in  *)
(* the transport or its completion is being reported, its parent waits.     *)
ParentWaits ==
  \A j \in Held(mem), k \in Jobs, i \in 1 .. MaxEnqueues :
    /\ mem.rec[k][i].parent = <<j, mem.held[j]>>
    /\ \/ mem.held[k] = i
       \/ \E a \in mem.attempts : Ref(a) = <<k, i>> /\ a.phase = "callback" /\ a.ok
    /\ \A q \in Jobs : IsChild(q, j) => OnFailure[q] # "continue"
    => The(mem, j).state = "waiting-children"

(* The transport keeps the delivery contract.                              *)
Place == [j \in Jobs |-> IF mem.held[j] = 0 THEN "none"
                         ELSE IF The(mem, j).state = "active" THEN "taken"
                         ELSE "queued"]

Delivery == INSTANCE JobDelivery WITH
  place <- Place,
  inc   <- [j \in Jobs |-> Births(mem, j)],
  owed  <- {Ref(a) : a \in {a \in mem.attempts : a.done}}

Delivers == Delivery!Spec

(* Every job that is enqueued leaves the transport, flows included, as long *)
(* as it is open, every queue has a consumer, and each flow made all of its *)
(* jobs itself.                                                            *)
Unserved == \E q \in Queues :
  \A c \in Consumers : ServedBy[c] = q => phase[c] \in {"closing", "closed"}

AdoptsChild(j) ==
  \E p \in ToSet(Preorder[j]) \cap Held(mem) :
    /\ The(mem, p).state = "waiting-children"
    /\ \E k \in ToSet(Children[p]) : \A i \in 1 .. MaxEnqueues :
         mem.rec[k][i].parent # <<p, mem.held[p]>>

EveryJobEnds ==
  \A j \in Jobs :
    j \in Held(mem) ~>
      j \notin Held(mem) \/ transport # "open" \/ Unserved \/ AdoptsChild(j)

(* A close of a consumer or of the transport ends.                         *)
ClosesEnd ==
  /\ \A c \in Consumers : phase[c] = "closing" ~> phase[c] = "closed"
  /\ transport = "closing" ~> transport = "closed"

-----------------------------------------------------------------------------
(* What the code says, and the runs refute.                                *)

(* "A parent runs after all of its children complete": a flow's parent      *)
(* leaves the transport in the end.                                        *)
ParentsEnd ==
  \A j \in Jobs :
    j \in Held(mem) ~> j \notin Held(mem) \/ transport # "open" \/ Unserved

(* "job is active and cannot be removed": only its own attempt's end takes  *)
(* an active job out of the map.                                           *)
ActiveStays ==
  [][\A j \in Jobs :
       Place[j] = "taken" /\ Place'[j] # "taken" =>
         \E a \in mem.attempts : a.job = j /\ a \notin mem'.attempts]_vars
=============================================================================
