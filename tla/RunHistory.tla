------------------------------ MODULE RunHistory ------------------------------
(***************************************************************************)
(* What the run store says of one run, and what the transport does with    *)
(* the job of the same id.  Three kinds of actor write the store without a *)
(* common lock: enqueue before it inserts the job (core/src/enqueuer.ts),  *)
(* the worker around each attempt (worker.ts), and cancel (cancel.ts).     *)
(* Every one of them is a few awaits long, and the transport moves         *)
(* meanwhile.                                                              *)
(***************************************************************************)
EXTENDS Naturals, FiniteSets

CONSTANTS
  Clients,     \* processes that enqueue and cancel
  Slots,       \* worker slots
  Handlers,    \* slots of workers that have a handler for the job's name
  Attempts,    \* attempts of the job
  MaxStalled,  \* lost leases a job survives
  Atomic,      \* the store handles an event in one statement (memory, Postgres)
  Retains,     \* the transport keeps the id of a job that has ended (BullMQ)
  Prompt,      \* a failure is recorded before its retry is claimed
  MaxEnqueues, MaxCancels, MaxThrows, MaxExpiries, MaxCrashes \* bounds

ASSUME ConstantsAssumption ==
  /\ {Atomic, Retains, Prompt} \subseteq BOOLEAN
  /\ Handlers \subseteq Slots
  /\ Attempts \in Nat \ {0}
  /\ {MaxStalled, MaxEnqueues, MaxCancels, MaxThrows, MaxExpiries, MaxCrashes} \subseteq Nat

VARIABLES
  run,    \* the status in the run store, or "none"
  job,    \* the job in the transport
  calls,  \* calls[c]: where client c's enqueue or cancel is
  work,   \* work[w]: the attempt or the failure slot w is busy with
  ends,   \* history: how the job has ended in the transport
  unreported, \* history: the ends a worker was told of and did not write
  tokens, \* claims made
  enqueues, cancels, throws, expiries, crashes \* how often each happened

counts == <<enqueues, cancels, throws, expiries, crashes>>
vars == <<run, job, calls, work, ends, unreported, tokens, counts>>

Terminal == {"completed", "failed", "canceled"}
Status == {"none", "queued", "executing", "reattempting"} \cup Terminal

Job == [state : {"none", "waiting", "active", "done"}, made : 0 .. Attempts,
        stalls : Nat, token : Nat]
NoJob == [state |-> "none", made |-> 0, stalls |-> 0, token |-> 0]

(* An attempt at the job, and then what is left to report of it: `end` is    *)
(* how it ended, `made` the attempts made before it or, at the report, with it. *)
Slot == [pc : {"idle", "start", "run", "emit", "report"}, made : 0 .. Attempts, token : Nat,
         end : {"none", "ok", "error", "final"}]
Free == [pc |-> "idle", made |-> 0, token |-> 0, end |-> "none"]

Init ==
  /\ run = "none" /\ job = NoJob /\ ends = {} /\ unreported = {} /\ tokens = 0
  /\ calls = [c \in Clients |-> "idle"]
  /\ work = [w \in Slots |-> Free]
  /\ enqueues = 0 /\ cancels = 0 /\ throws = 0 /\ expiries = 0 /\ crashes = 0

-----------------------------------------------------------------------------
(* enqueue.                                                                *)

(* Mutants: the hook overwrites a run that ended; the hook does not write.  *)
HandledAlways(status) == "queued"
HandledNever(status) == status

(* The store's answer to an enqueue event: a run that ended stays.          *)
Handled(status) == IF status \in Terminal THEN status ELSE "queued"

(* The store's handle; Redis reads the run, and writes in a second call.    *)
Hook(c) ==
  /\ calls[c] = "idle" /\ enqueues < MaxEnqueues
  /\ enqueues' = enqueues + 1
  /\ IF Atomic
       THEN run' = Handled(run) /\ calls' = [calls EXCEPT ![c] = "insert"]
       ELSE /\ calls' = [calls EXCEPT ![c] = IF Handled(run) = "queued" THEN "snapshot" ELSE "insert"]
            /\ UNCHANGED run
  /\ UNCHANGED <<job, work, ends, unreported, tokens, cancels, throws, expiries, crashes>>

Snapshot(c) ==
  /\ calls[c] = "snapshot"
  /\ run' = "queued" /\ calls' = [calls EXCEPT ![c] = "insert"]
  /\ UNCHANGED <<job, work, ends, unreported, tokens, counts>>

(* transport.enqueue: an id that is there already is left alone.            *)
Inserted == IF job.state = "none" THEN [NoJob EXCEPT !.state = "waiting"] ELSE job

Insert(c) ==
  /\ calls[c] = "insert"
  /\ job' = Inserted /\ calls' = [calls EXCEPT ![c] = "idle"]
  /\ UNCHANGED <<run, work, ends, unreported, tokens, counts>>

(* It throws, before or after the insertion took effect, and the run is     *)
(* then recorded as failed.                                                *)
InsertThrows(c) ==
  /\ calls[c] = "insert" /\ throws < MaxThrows
  /\ throws' = throws + 1
  /\ job' \in {job, Inserted}
  /\ calls' = [calls EXCEPT ![c] = "failed"]
  /\ UNCHANGED <<run, work, ends, unreported, tokens, enqueues, cancels, expiries, crashes>>

FailHook(c) ==
  /\ calls[c] = "failed"
  /\ run' = "failed" /\ calls' = [calls EXCEPT ![c] = "idle"]
  /\ UNCHANGED <<job, work, ends, unreported, tokens, counts>>

-----------------------------------------------------------------------------
(* The worker.                                                             *)
Claim(w) ==
  /\ work[w] = Free /\ job.state = "waiting"
  /\ Prompt => \A v \in Slots : work[v].pc # "report"
  /\ tokens' = tokens + 1
  /\ job' = [job EXCEPT !.state = "active", !.token = tokens']
  /\ work' = [work EXCEPT ![w] =
                              [pc |-> "start", made |-> job.made, token |-> tokens', end |-> "none"]]
  /\ UNCHANGED <<run, calls, ends, unreported, counts>>

(* runJob's start event, which does not ask who owns the job (a task        *)
(* without a schema).  A worker without a handler for the name throws       *)
(* before it.                                                              *)
Start(w) ==
  /\ work[w].pc = "start" /\ w \in Handlers
  /\ run' = IF work[w].made > 0 THEN "reattempting" ELSE "executing"
  /\ work' = [work EXCEPT ![w].pc = "run"]
  /\ UNCHANGED <<job, calls, ends, unreported, tokens, counts>>

Owns(w) == job.state = "active" /\ job.token = work[w].token

(* ctx.progress: the job's data is written while the claim is owned, or     *)
(* that throws; the event follows in a write of its own.                   *)
Save(w) ==
  /\ work[w].pc = "run" /\ Owns(w)
  /\ work' = [work EXCEPT ![w].pc = "emit"]
  /\ UNCHANGED <<run, job, calls, ends, unreported, tokens, counts>>

Progress(w) ==
  /\ work[w].pc = "emit"
  /\ run' = "executing" /\ work' = [work EXCEPT ![w].pc = "run"]
  /\ UNCHANGED <<job, calls, ends, unreported, tokens, counts>>

Gone == IF Retains THEN [NoJob EXCEPT !.state = "done"] ELSE NoJob

(* The transport's decision to try again.                                  *)
Requeues(s, end) == end = "error" /\ s.made + 1 < Attempts

(* Mutant: an attempt that has lost its claim reports.                     *)
AbandonedReported(s, end) == [s EXCEPT !.pc = "report", !.made = @ + 1, !.end = end]

(* What is left of an attempt that has lost its claim.                     *)
Abandoned(s, end) == Free

(* The handler is over and the transport settles its claim: the job ends or *)
(* is put back.  An attempt that has lost its claim settles nothing.  One   *)
(* without a handler throws, and what it throws is not retried.             *)
Settle(w, end) ==
  /\ work[w].pc \in {"start", "run"}
  /\ end = "ok" => work[w].pc = "run"
  /\ w \notin Handlers => end = "final"
  /\ IF Owns(w)
       THEN LET again == Requeues(work[w], end)
            IN  /\ job' = IF again THEN [job EXCEPT !.state = "waiting", !.made = work[w].made + 1]
                                   ELSE Gone
                /\ ends' = IF again THEN ends
                                    ELSE ends \cup {IF end = "ok" THEN "completed" ELSE "failed"}
                /\ work' = [work EXCEPT ![w].pc = "report", ![w].made = @ + 1, ![w].end = end]
       ELSE /\ work' = [work EXCEPT ![w] = Abandoned(@, end)]
            /\ UNCHANGED <<job, ends>>
  /\ UNCHANGED <<run, calls, unreported, tokens, counts>>

(* Mutant: the attempt that was the last one counts as one to retry.        *)
WillRetryLast(s) == s.end = "error" /\ s.made <= Attempts

WillRetry(s) == s.end = "error" /\ s.made < Attempts

(* onCompleted and onFailed.  A worker without a handler for the name       *)
(* writes nothing: it is only ever told of a failure for good, its own or   *)
(* that of a job whose lease ran out too often.                            *)
Report(w) ==
  /\ work[w].pc = "report"
  /\ IF w \in Handlers
       THEN /\ run' = IF work[w].end = "ok" THEN "completed"
                      ELSE IF WillRetry(work[w]) THEN "reattempting" ELSE "failed"
            /\ UNCHANGED unreported
       ELSE unreported' = unreported \cup {"failed"} /\ UNCHANGED run
  /\ work' = [work EXCEPT ![w] = Free]
  /\ UNCHANGED <<job, calls, ends, tokens, counts>>

(* The lease of an active job runs out: it is put back, or fails and slot w *)
(* has that to report.                                                     *)
Expire(w) ==
  /\ job.state = "active" /\ expiries < MaxExpiries
  /\ expiries' = expiries + 1
  /\ IF job.stalls < MaxStalled
       THEN /\ job' = [job EXCEPT !.state = "waiting", !.token = 0, !.stalls = @ + 1]
            /\ UNCHANGED <<work, ends>>
       ELSE /\ work[w] = Free
            /\ job' = Gone /\ ends' = ends \cup {"failed"}
            /\ work' = [work EXCEPT ![w] =
                                [pc |-> "report", made |-> job.made, token |-> 0, end |-> "final"]]
  /\ UNCHANGED <<run, calls, unreported, tokens, enqueues, cancels, throws, crashes>>

Crash(w) ==
  /\ work[w] # Free /\ crashes < MaxCrashes
  /\ crashes' = crashes + 1
  /\ work' = [work EXCEPT ![w] = Free]
  /\ UNCHANGED <<run, job, calls, ends, unreported, tokens, enqueues, cancels, throws, expiries>>

-----------------------------------------------------------------------------
(* cancel: the run is read, the job removed, the run written.               *)
Read(c) ==
  /\ calls[c] = "idle" /\ cancels < MaxCancels
  /\ cancels' = cancels + 1
  /\ calls' = [calls EXCEPT ![c] = IF run \in Terminal \cup {"none", "executing"}
                                     THEN "idle" ELSE "remove"]
  /\ UNCHANGED <<run, job, work, ends, unreported, tokens, enqueues, throws, expiries, crashes>>

(* getJob and remove().  An active job is not removed, and the cancel is    *)
(* over; a job that is not there is one that is gone.                      *)
Remove(c) ==
  /\ calls[c] = "remove"
  /\ IF job.state = "active"
       THEN calls' = [calls EXCEPT ![c] = "idle"] /\ UNCHANGED <<job, ends>>
       ELSE /\ calls' = [calls EXCEPT ![c] = "cancel"]
            /\ job' = NoJob
            /\ ends' = IF job.state = "waiting" THEN ends \cup {"canceled"} ELSE ends
  /\ UNCHANGED <<run, work, unreported, tokens, counts>>

(* remove() also takes a job whose lease has run out.                       *)
RemoveExpired(c) ==
  /\ calls[c] = "remove" /\ job.state = "active" /\ expiries < MaxExpiries
  /\ expiries' = expiries + 1
  /\ calls' = [calls EXCEPT ![c] = "cancel"]
  /\ job' = NoJob /\ ends' = ends \cup {"canceled"}
  /\ UNCHANGED <<run, work, unreported, tokens, enqueues, cancels, throws, crashes>>

CancelHook(c) ==
  /\ calls[c] = "cancel"
  /\ run' = "canceled" /\ calls' = [calls EXCEPT ![c] = "idle"]
  /\ UNCHANGED <<job, work, ends, unreported, tokens, counts>>

-----------------------------------------------------------------------------
ClientStep(c) ==
  Snapshot(c) \/ Insert(c) \/ FailHook(c) \/ Remove(c) \/ CancelHook(c)

Finish(w) == Report(w) \/ \E end \in {"ok", "error", "final"} : Settle(w, end)

Next ==
  \/ \E c \in Clients : Hook(c) \/ InsertThrows(c) \/ Read(c) \/ RemoveExpired(c) \/ ClientStep(c)
  \/ \E w \in Slots : Claim(w) \/ Start(w) \/ Save(w) \/ Progress(w) \/ Finish(w) \/ Expire(w) \/ Crash(w)

Spec == Init /\ [][Next]_vars

(* Awaits return, handlers end, and a worker takes the job that waits.      *)
FairSpec ==
  /\ Spec
  /\ \A c \in Clients : WF_vars(ClientStep(c))
  /\ \A w \in Slots : WF_vars(Start(w)) /\ WF_vars(Progress(w)) /\ SF_vars(Finish(w))
  /\ WF_vars(\E w \in Slots : Claim(w))

-----------------------------------------------------------------------------
(* Properties.                                                             *)
TypeOK ==
  /\ run \in Status /\ job \in Job
  /\ calls \in [Clients -> {"idle", "snapshot", "insert", "failed", "remove", "cancel"}]
  /\ work \in [Slots -> Slot]
  /\ ends \subseteq Terminal /\ unreported \subseteq {"failed"} /\ tokens \in Nat
  /\ {enqueues, cancels, throws, expiries, crashes} \subseteq Nat

Quiet ==
  /\ job.state \in {"none", "done"}
  /\ \A c \in Clients : calls[c] = "idle"
  /\ \A w \in Slots : work[w] = Free

(* A job the transport has, or a worker works on, has a row in the run      *)
(* store: the row is written before the job is inserted.                   *)
Recorded ==
  job.state \in {"waiting", "active"} \/ (\E w \in Slots : work[w] # Free) => run # "none"

(* When everything is quiet the store says how the job ended.  The one end  *)
(* it does not show is the failure of a job that a worker without a handler *)
(* for its name took: the row still says that an attempt is to come.        *)
Truth ==
  Quiet /\ ends # {} =>
    IF unreported = {} THEN ends = {run} ELSE ends = unreported /\ run \in {"queued", "reattempting"}

(* What the documentation says: every end is in the row.                    *)
EndsShown == Quiet /\ ends # {} => ends = {run}

(* A run is shown as completed only after an attempt that owned the job     *)
(* completed it, and as failed only after one failed it for good or its     *)
(* insertion threw, whatever fails, crashes or is late.                    *)
EndsTrue ==
  /\ run = "completed" => "completed" \in ends
  /\ run = "failed" => "failed" \in ends \/ throws > 0

(* A completed run stays completed.                                         *)
CompletedStays == [][run = "completed" => run' = "completed"]_vars

(* Every run that is enqueued comes to an end in the store, unless a worker *)
(* without a handler for its name fails the job.                            *)
Ends == run = "queued" ~> run \in Terminal \/ unreported # {}
==============================================================================
