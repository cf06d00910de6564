------------------------------ MODULE LocalWorld ------------------------------
(***************************************************************************)
(* The in-process world: the local transport under the enqueuer, the       *)
(* worker and cancel, with the run store in memory (core/src/enqueuer.ts,  *)
(* worker.ts, cancel.ts, store/memory.ts).  enqueue and enqueueFlow write  *)
(* a row for every job before they hand them to the transport; an attempt  *)
(* writes its start, its progress and its end; and the transport moves     *)
(* jobs of which no row is written.  The store answers without waiting, so *)
(* that the end of an attempt and its row are one step.                    *)
(***************************************************************************)
EXTENDS LocalTransport

CONSTANTS
  Clients,  \* calls in flight
  Registered, \* Registered[c]: the jobs whose names consumer c has a handler for
  MaxCalls  \* bound: calls made

ASSUME WorldAssumption ==
  /\ Jobs # {} /\ Clients = Handles
  /\ Registered \in [Consumers -> SUBSET Jobs]
  /\ MaxCalls \in Nat /\ MaxCalls <= MaxEnqueues

VARIABLES
  rows,    \* rows[j]: the status in the run store, or "none"
  calls,   \* calls[c]: the enqueue or cancel that client c is in
  started, \* the attempts whose start event is written
  made,    \* calls made so far
  astray   \* history: runs whose job went, or never came, unrecorded

worldVars == <<rows, calls, started, made, astray>>
allVars == <<vars, worldVars>>

Ended == {"completed", "failed", "canceled"}
OnTheWay == {"queued", "delayed", "waiting_children", "executing", "reattempting"}

(* `rowless` are the jobs of an enqueue whose rows are still to be written.  *)
Call == [at : {"idle", "enqueue", "flow", "find", "remove", "cancel"},
         job : Jobs, rowless : SUBSET Jobs]
NoCall == [at |-> "idle", job |-> CHOOSE j \in Jobs : TRUE, rowless |-> {}]

WorldInit ==
  /\ Init
  /\ rows = [j \in Jobs |-> "none"]
  /\ calls = [c \in Clients |-> NoCall]
  /\ started = {} /\ made = 0 /\ astray = {}

(* The jobs a call is about.                                               *)
Covers(call) == IF call.at = "flow" THEN ToSet(Preorder[call.job]) ELSE {call.job}

Makes(c, call) ==
  /\ calls[c] = NoCall /\ made < MaxCalls
  /\ calls' = [calls EXCEPT ![c] = call] /\ made' = made + 1

-----------------------------------------------------------------------------
(* enqueue and enqueueFlow.                                                *)
CallEnqueue(c, j) ==
  /\ Makes(c, [at |-> "enqueue", job |-> j, rowless |-> {j}])
  /\ UNCHANGED <<vars, rows, started, astray>>

CallFlow(c, j) ==
  /\ Children[j] # <<>>
  /\ Makes(c, [at |-> "flow", job |-> j, rowless |-> ToSet(Preorder[j])])
  /\ UNCHANGED <<vars, rows, started, astray>>

(* handle: an enqueue of a run that has ended does not touch its row.       *)
Handled(j, status) == IF rows[j] \in Ended THEN rows[j] ELSE status

enqueueStatus(call, j) ==
  IF call.at = "flow" /\ Children[j] # <<>> THEN "waiting_children"
  ELSE IF j \in Delayed THEN "delayed" ELSE "queued"

(* emitEnqueueHook and emitFlowEnqueueHooks: a parent, then its children.   *)
WriteRow(c, j) ==
  /\ j \in calls[c].rowless
  /\ \A p \in calls[c].rowless : ~IsChild(j, p)
  /\ rows' = [rows EXCEPT ![j] = Handled(j, enqueueStatus(calls[c], j))]
  /\ calls' = [calls EXCEPT ![c].rowless = @ \ {j}]
  /\ UNCHANGED <<vars, started, made, astray>>

(* transport.enqueue and enqueueFlow, which leave an id alone that is there. *)
Insert(c) ==
  LET j == calls[c].job
  IN  /\ calls[c].at \in {"enqueue", "flow"} /\ calls[c].rowless = {}
      /\ IF mem.held[j] # 0 THEN UNCHANGED vars
         ELSE IF calls[c].at = "flow" THEN EnqueueFlow(j) ELSE Enqueue(j)
      /\ astray' = (astray \cup Covers(calls[c])) \ Held(mem')
      /\ calls' = [calls EXCEPT ![c] = NoCall]
      /\ UNCHANGED <<rows, started, made>>

-----------------------------------------------------------------------------
(* cancel: the run is read, the job found, removed, and the run written.    *)
CallCancel(c, j) ==
  /\ rows[j] \in OnTheWay \ {"executing"}
  /\ Makes(c, [at |-> "find", job |-> j, rowless |-> {}])
  /\ UNCHANGED <<vars, rows, started, astray>>

Find(c) ==
  /\ calls[c].at = "find"
  /\ IF mem.held[calls[c].job] = 0
       THEN calls' = [calls EXCEPT ![c].at = "cancel"] /\ UNCHANGED vars
       ELSE calls' = [calls EXCEPT ![c].at = "remove"] /\ GetJob(c, calls[c].job)
  /\ UNCHANGED <<rows, started, made, astray>>

(* remove() throws for an active job, and the run is not cancelable.        *)
RemoveRun(c) ==
  /\ calls[c].at = "remove"
  /\ RemoveJob(c)
  /\ calls' = IF mem.rec[handle[c][1]][handle[c][2]].state = "active"
                THEN [calls EXCEPT ![c] = NoCall]
                ELSE [calls EXCEPT ![c].at = "cancel"]
  /\ UNCHANGED <<rows, started, made, astray>>

CancelRow(c) ==
  /\ calls[c].at = "cancel"
  /\ rows' = [rows EXCEPT ![calls[c].job] = "canceled"]
  /\ calls' = [calls EXCEPT ![c] = NoCall]
  /\ UNCHANGED <<vars, started, made, astray>>

-----------------------------------------------------------------------------
(* The worker: runJob's events around the handler, and the callbacks.  An   *)
(* attempt of a consumer that has no handler for the job's name fails for   *)
(* good before its start event, and its callback writes nothing.            *)
HasHandler(a) == a.job \in Registered[a.cons]

Starts(a) ==
  /\ a \in mem.attempts \ started /\ a.phase = "process" /\ HasHandler(a)
  /\ rows' = [rows EXCEPT ![a.job] = IF a.number > 0 THEN "reattempting" ELSE "executing"]
  /\ started' = started \cup {a}
  /\ UNCHANGED <<vars, calls, made, astray>>

Progresses(a) ==
  /\ a \in started
  /\ rows' = [rows EXCEPT ![a.job] = "executing"]
  /\ UNCHANGED <<vars, calls, started, made, astray>>

(* Mutant: nobody records that the attempt was the last one.                *)
Unrecorded(a, status) ==
  IF HasHandler(a) /\ status # "failed" THEN [rows EXCEPT ![a.job] = status] ELSE rows

Recorded(a, status) == IF HasHandler(a) THEN [rows EXCEPT ![a.job] = status] ELSE rows

Completes(a) ==
  /\ a \in started /\ HasHandler(a)
  /\ Succeed(a)
  /\ rows' = Recorded(a, "completed") /\ started' = started \ {a}
  /\ UNCHANGED <<calls, made, astray>>

(* A retry and a failure may also come before the start event.  A retry of a *)
(* job that is no longer in the map is not tried again.                     *)
Retries(a) ==
  /\ HasHandler(a) /\ Retry(a)
  /\ rows' = Recorded(a, "reattempting") /\ started' = started \ {a}
  /\ astray' = astray \cup ({a.job} \ Held(mem'))
  /\ UNCHANGED <<calls, made>>

(* The jobs that fall with it are not told of, nor is itself if its name is *)
(* not known.                                                              *)
Fails(a) ==
  /\ Fail(a)
  /\ rows' = Recorded(a, "failed") /\ started' = started \ {a}
  /\ astray' = astray \cup {r[1] : r \in removed' \ removed} \cup ({a.job} \ Registered[a.cons])
  /\ UNCHANGED <<calls, made>>

-----------------------------------------------------------------------------
Transporting(A) == A /\ UNCHANGED worldVars

ClientStep(c) ==
  \/ \E j \in Jobs : WriteRow(c, j)
  \/ Insert(c) \/ Find(c) \/ RemoveRun(c) \/ CancelRow(c)

WorkerStep(a) == Starts(a) \/ Completes(a) \/ Retries(a) \/ Fails(a) \/ Transporting(Return(a))

WorldNext ==
  \/ \E c \in Clients, j \in Jobs : CallEnqueue(c, j) \/ CallFlow(c, j) \/ CallCancel(c, j)
  \/ \E c \in Clients : ClientStep(c)
  \/ \E a \in mem.attempts : WorkerStep(a) \/ Progresses(a)
  \/ \E j \in Jobs, i \in 1 .. MaxEnqueues : Transporting(Timer(j, i))
  \/ \E c \in Consumers :
       \/ Transporting(Consume(c))
       \/ Transporting(CloseConsumer(c))
       \/ Transporting(ConsumerClosed(c))
  \/ Transporting(CloseTransport)
  \/ Transporting(TransportClosed)

WorldSpec == WorldInit /\ [][WorldNext]_allVars

(* Awaits return, timers fire, handlers end, and some worker consumes every  *)
(* queue.                                                                  *)
FairWorld ==
  /\ WorldSpec
  /\ \A c \in Clients : WF_allVars(ClientStep(c))
  /\ SF_allVars(\E a \in mem.attempts : WorkerStep(a))
  /\ \A j \in Jobs, i \in 1 .. MaxEnqueues : WF_allVars(Transporting(Timer(j, i)))
  /\ \A c \in Consumers :
       WF_allVars(Transporting(Consume(c))) /\ WF_allVars(Transporting(ConsumerClosed(c)))
  /\ WF_allVars(Transporting(TransportClosed))

-----------------------------------------------------------------------------
(* Properties.                                                             *)
WorldTypeOK ==
  /\ rows \in [Jobs -> {"none"} \cup OnTheWay \cup Ended]
  /\ calls \in [Clients -> Call]
  /\ started \subseteq mem.attempts
  /\ made \in 0 .. MaxCalls
  /\ astray \subseteq Jobs

(* A run that the history shows on its way is: the transport has its job, an *)
(* attempt at it runs, or a call about it is in flight.  Four kinds of runs   *)
(* go astray: a parent that fell with its child, what hung below a flow whose *)
(* root was there already, a job that a stale handle removed while it ran,   *)
(* once its attempt asks for another, and a job that failed at a worker      *)
(* without a handler for its name.  They, and what a close of the transport *)
(* discarded, stay as they were.                                            *)
InGoodHands(j) ==
  \/ mem.held[j] # 0
  \/ \E a \in mem.attempts : a.job = j /\ a.phase = "process"
  \/ \E c \in Clients : calls[c] # NoCall /\ j \in Covers(calls[c])
  \/ j \in astray
  \/ \E n \in 1 .. MaxEnqueues : <<j, n>> \in lost

OnItsWay ==
  /\ WorldTypeOK
  /\ \A j \in Jobs : rows[j] \in OnTheWay => InGoodHands(j)

(* "If a child exhausts its retries, the parent does not run and the flow   *)
(* is marked failed": the history says so, unless the child's failure is to *)
(* be ignored.                                                             *)
Broken(p) ==
  /\ rows[p] = "waiting_children"
  /\ \E k \in Jobs : IsChild(k, p) /\ rows[k] = "failed" /\ OnFailure[k] \in {"fail", "block"}

FlowMarked ==
  \A p \in Jobs : Broken(p) ~> rows[p] \in Ended \/ transport # "open"

(* "A duplicate enqueue of a retained job is a no-op": it leaves no run in   *)
(* the history that nothing will run.                                      *)
NothingAstray ==
  \A j \in Jobs : rows[j] \in OnTheWay => j \notin astray
=============================================================================
