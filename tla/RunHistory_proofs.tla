--------------------------- MODULE RunHistory_proofs ---------------------------
(***************************************************************************)
(* What the run history says is true, for any number of clients, worker    *)
(* slots and attempts, any store and transport, and any faults: an end     *)
(* that is shown did happen, and a job that exists is on record.           *)
(***************************************************************************)
EXTENDS RunHistory, TLAPS

(* An attempt under way has not used up the attempts.                      *)
InBudget ==
  /\ job.state \in {"waiting", "active"} => job.made < Attempts
  /\ \A w \in Slots : work[w].pc \in {"start", "run", "emit"} => work[w].made < Attempts

TypeInv == TypeOK /\ InBudget

(* What is about to be reported has happened in the transport, and what is  *)
(* about to be recorded as a failed enqueue threw.                         *)
EndInv ==
  /\ \A w \in Slots : work[w].pc = "report" =>
       /\ work[w].end = "ok" => "completed" \in ends
       /\ work[w].end # "ok" /\ ~WillRetry(work[w]) => "failed" \in ends
  /\ \A c \in Clients : calls[c] = "failed" => throws > 0
  /\ EndsTrue

(* Whoever inserts has recorded the run before.                            *)
RecordInv ==
  /\ \A c \in Clients : calls[c] = "insert" => run # "none"
  /\ Recorded

-----------------------------------------------------------------------------
LEMMA TypeInit == Init => TypeInv
BY ConstantsAssumption
DEF Init, TypeInv, TypeOK, InBudget, Status, Terminal, Job, NoJob, Slot, Free

LEMMA JobTypes == NoJob \in Job /\ Free \in Slot /\ Gone \in Job
BY ConstantsAssumption DEF NoJob, Job, Free, Slot, Gone

LEMMA TypeNext == TypeInv /\ [Next]_vars => TypeInv'
<1>. SUFFICES ASSUME TypeInv, [Next]_vars PROVE TypeInv'
  OBVIOUS
<1>0. TypeOK /\ InBudget
  BY DEF TypeInv
<1>. USE ConstantsAssumption
<1>1. ASSUME NEW c \in Clients, Hook(c) PROVE TypeInv'
  BY <1>0, <1>1 DEF Hook, Handled, TypeInv, TypeOK, InBudget, Status, Terminal
<1>2. ASSUME NEW c \in Clients, Snapshot(c) \/ FailHook(c) \/ CancelHook(c) PROVE TypeInv'
  BY <1>0, <1>2
  DEF Snapshot, FailHook, CancelHook, TypeInv, TypeOK, InBudget, Status, Terminal, counts
<1>3. ASSUME NEW c \in Clients, Read(c) PROVE TypeInv'
  BY <1>0, <1>3 DEF Read, TypeInv, TypeOK, InBudget
<1>4. ASSUME NEW c \in Clients, Insert(c) \/ InsertThrows(c) PROVE TypeInv'
  <2>1. Inserted \in Job /\ (Inserted.state \in {"waiting", "active"} => Inserted.made < Attempts)
    BY <1>0 DEF Inserted, NoJob, Job, TypeOK, InBudget
  <2>2. CASE Insert(c)
    BY <1>0, <2>1, <2>2 DEF Insert, TypeInv, TypeOK, InBudget, counts
  <2>3. CASE InsertThrows(c)
    BY <1>0, <2>1, <2>3 DEF InsertThrows, TypeInv, TypeOK, InBudget
  <2>. QED BY <1>4, <2>2, <2>3
<1>5. ASSUME NEW c \in Clients, Remove(c) \/ RemoveExpired(c) PROVE TypeInv'
  <2>1. job' \in Job /\ (job'.state \in {"waiting", "active"} => job'.made < Attempts)
    BY <1>0, <1>5, JobTypes DEF Remove, RemoveExpired, NoJob, TypeOK, InBudget, counts
  <2>2. calls' \in [Clients -> {"idle", "snapshot", "insert", "failed", "remove", "cancel"}]
    BY <1>0, <1>5 DEF Remove, RemoveExpired, TypeOK
  <2>3. ends' \subseteq Terminal
    BY <1>0, <1>5 DEF Remove, RemoveExpired, TypeOK, Terminal
  <2>4. CASE Remove(c)
    BY <1>0, <2>1, <2>2, <2>3, <2>4 DEF Remove, TypeInv, TypeOK, InBudget, counts
  <2>5. CASE RemoveExpired(c)
    BY <1>0, <2>1, <2>2, <2>3, <2>5 DEF RemoveExpired, TypeInv, TypeOK, InBudget
  <2>. QED BY <1>5, <2>4, <2>5
<1>6. ASSUME NEW w \in Slots, Claim(w) \/ Start(w) \/ Save(w) \/ Progress(w) PROVE TypeInv'
  <2>1. CASE Claim(w)
    <3>1. /\ job.state = "waiting" /\ job.made \in 0 .. Attempts /\ job.made < Attempts
          /\ tokens' = tokens + 1 /\ tokens' \in Nat
      BY <1>0, <2>1 DEF Claim, TypeOK, InBudget, Job
    <3>2. job' = [job EXCEPT !.state = "active", !.token = tokens']
      BY <2>1 DEF Claim
    <3>3. job' \in Job /\ job'.made < Attempts
      BY <1>0, <3>1, <3>2 DEF TypeOK, Job
    <3>4. work' = [work EXCEPT ![w] = [pc |-> "start", made |-> job.made, token |-> tokens',
                                       end |-> "none"]]
      BY <2>1 DEF Claim
    <3>5. work' \in [Slots -> Slot]
      BY <1>0, <3>1, <3>4 DEF TypeOK, Slot
    <3>6. InBudget'
      BY <1>0, <3>1, <3>3, <3>4 DEF TypeOK, InBudget
    <3>. QED BY <1>0, <2>1, <3>1, <3>3, <3>5, <3>6 DEF Claim, TypeInv, TypeOK, counts
  <2>2. CASE Start(w) \/ Save(w) \/ Progress(w)
    <3>1. /\ work[w].pc \in {"start", "run", "emit"}
          /\ \E p \in {"start", "run", "emit"} : work' = [work EXCEPT ![w].pc = p]
      BY <2>2 DEF Start, Save, Progress
    <3>2. PICK p \in {"start", "run", "emit"} : work' = [work EXCEPT ![w].pc = p]
      BY <3>1
    <3>3. work' \in [Slots -> Slot]
      BY <1>0, <3>2 DEF TypeOK, Slot
    <3>4. InBudget'
      BY <1>0, <2>2, <3>1, <3>2 DEF Start, Save, Progress, TypeOK, InBudget, Slot
    <3>. QED BY <1>0, <2>2, <3>3, <3>4 DEF Start, Save, Progress, TypeInv, TypeOK, Status, counts
  <2>. QED BY <1>6, <2>1, <2>2
<1>7. ASSUME NEW w \in Slots, NEW end \in {"ok", "error", "final"}, Settle(w, end)
      PROVE  TypeInv'
  <2>1. CASE Owns(w)
    <3>1. work[w].made + 1 \in 0 .. Attempts
      BY <1>0, <1>7 DEF Settle, TypeOK, InBudget, Slot
    <3>2. work' = [work EXCEPT ![w].pc = "report", ![w].made = @ + 1, ![w].end = end]
      BY <1>7, <2>1 DEF Settle
    <3>3. work' \in [Slots -> Slot]
      BY <1>0, <3>1, <3>2 DEF TypeOK, Slot
    <3>4. job' \in Job /\ (job'.state \in {"waiting", "active"} => job'.made < Attempts)
      <4>1. CASE Requeues(work[w], end)
        <5>1. job' = [job EXCEPT !.state = "waiting", !.made = work[w].made + 1]
          BY <1>7, <2>1, <4>1 DEF Settle
        <5>2. work[w].made + 1 < Attempts
          BY <4>1 DEF Requeues
        <5>. QED BY <1>0, <3>1, <5>1, <5>2 DEF TypeOK, Job
      <4>2. CASE ~Requeues(work[w], end)
        <5>1. job' = Gone
          BY <1>7, <2>1, <4>2 DEF Settle
        <5>. QED BY <5>1, JobTypes DEF Gone, NoJob, Job
      <4>. QED BY <4>1, <4>2
    <3>5. ends' \subseteq Terminal
      BY <1>0, <1>7, <2>1 DEF Settle, TypeOK, Terminal
    <3>6. InBudget'
      BY <1>0, <3>2, <3>4 DEF InBudget, TypeOK, Slot
    <3>. QED BY <1>0, <1>7, <3>3, <3>4, <3>5, <3>6 DEF Settle, TypeInv, TypeOK, counts
  <2>2. CASE ~Owns(w)
    BY <1>0, <1>7, <2>2, JobTypes DEF Settle, Abandoned, Free, TypeInv, TypeOK, InBudget, counts
  <2>. QED BY <2>1, <2>2
<1>8. ASSUME NEW w \in Slots, Report(w) \/ Crash(w) PROVE TypeInv'
  <2>1. work' = [work EXCEPT ![w] = Free]
    BY <1>8 DEF Report, Crash
  <2>2. work' \in [Slots -> Slot] /\ InBudget'
    BY <1>0, <1>8, <2>1, JobTypes DEF Report, Crash, Free, TypeOK, InBudget
  <2>3. run' \in Status
    BY <1>0, <1>8 DEF Report, Crash, TypeOK, Status, Terminal
  <2>4. crashes' \in Nat
    BY <1>0, <1>8 DEF Report, Crash, TypeOK, counts
  <2>. QED BY <1>0, <1>8, <2>2, <2>3, <2>4 DEF Report, Crash, TypeInv, TypeOK, counts
<1>9. ASSUME NEW w \in Slots, Expire(w) PROVE TypeInv'
  <2>0. expiries' \in Nat
    BY <1>0, <1>9 DEF Expire, TypeOK
  <2>1. CASE job.stalls < MaxStalled
    <3>1. job' = [job EXCEPT !.state = "waiting", !.token = 0, !.stalls = @ + 1]
      BY <1>9, <2>1 DEF Expire
    <3>2. job' \in Job /\ job'.made = job.made /\ job.state = "active"
      <4>1. job.stalls + 1 \in Nat /\ 0 \in Nat
        BY <1>0 DEF TypeOK, Job
      <4>2. job' \in Job
        BY <1>0, <3>1, <4>1 DEF TypeOK, Job
      <4>3. job'.made = job.made
        BY <1>0, <3>1 DEF TypeOK, Job
      <4>. QED BY <1>9, <4>2, <4>3 DEF Expire
    <3>3. work' = work
      BY <1>9, <2>1 DEF Expire
    <3>4. InBudget'
      BY <1>0, <3>2, <3>3 DEF InBudget
    <3>. QED BY <1>0, <1>9, <2>0, <2>1, <3>2, <3>4 DEF Expire, TypeInv, TypeOK
  <2>2. CASE ~(job.stalls < MaxStalled)
    <3>1. Gone \in Job /\ Gone.state \notin {"waiting", "active"}
      BY JobTypes DEF Gone, NoJob
    <3>2. work' = [work EXCEPT ![w] = [pc |-> "report", made |-> job.made, token |-> 0,
                                       end |-> "final"]]
      BY <1>9, <2>2 DEF Expire
    <3>3. work' \in [Slots -> Slot] /\ work'[w].pc = "report"
      BY <1>0, <3>2 DEF TypeOK, Slot, Job
    <3>4. job' = Gone /\ ends' \subseteq Terminal
      BY <1>0, <1>9, <2>2 DEF Expire, TypeOK, Terminal
    <3>5. InBudget'
      BY <1>0, <3>1, <3>2, <3>3, <3>4 DEF InBudget, TypeOK
    <3>. QED BY <1>0, <1>9, <2>0, <3>1, <3>3, <3>4, <3>5 DEF Expire, TypeInv, TypeOK
  <2>. QED BY <2>1, <2>2
<1>10. CASE UNCHANGED vars
  BY <1>0, <1>10 DEF vars, counts, TypeInv, TypeOK, InBudget
<1>. QED
  BY <1>1, <1>2, <1>3, <1>4, <1>5, <1>6, <1>7, <1>8, <1>9, <1>10 DEF Next, ClientStep, Finish

(* The run store, the job and everything in progress keep their types.     *)
THEOREM TypeCorrect == Spec => []TypeOK
<1>1. TypeInv => TypeOK
  BY DEF TypeInv
<1>. QED BY <1>1, TypeInit, TypeNext, PTL DEF Spec

-----------------------------------------------------------------------------
LEMMA EndInit == Init => EndInv
BY DEF Init, EndInv, EndsTrue, Free

LEMMA EndNext == TypeInv /\ EndInv /\ [Next]_vars => EndInv'
<1>. SUFFICES ASSUME TypeInv, EndInv, [Next]_vars PROVE EndInv'
  OBVIOUS
<1>0. TypeOK /\ InBudget
  BY DEF TypeInv
<1>1. ASSUME NEW c \in Clients,
             Hook(c) \/ Snapshot(c) \/ Insert(c) \/ InsertThrows(c) \/ FailHook(c)
      PROVE  EndInv'
  BY <1>0, <1>1
  DEF Hook, Snapshot, Insert, InsertThrows, FailHook, Handled, TypeOK, EndInv, EndsTrue,
      WillRetry, Terminal, counts
<1>2. ASSUME NEW c \in Clients,
             Read(c) \/ Remove(c) \/ RemoveExpired(c) \/ CancelHook(c)
      PROVE  EndInv'
  BY <1>0, <1>2
  DEF Read, Remove, RemoveExpired, CancelHook, TypeOK, EndInv, EndsTrue, WillRetry, counts
<1>3. ASSUME NEW w \in Slots, Claim(w) \/ Start(w) \/ Save(w) \/ Progress(w) \/ Crash(w)
      PROVE  EndInv'
  <2>1. work'[w].pc # "report" /\ \A v \in Slots \ {w} : work'[v] = work[v]
    <3>1. CASE Claim(w)
      BY <1>0, <3>1 DEF Claim, TypeOK
    <3>2. CASE Start(w) \/ Save(w) \/ Progress(w)
      BY <1>0, <3>2 DEF Start, Save, Progress, TypeOK, Slot
    <3>3. CASE Crash(w)
      BY <1>0, <3>3 DEF Crash, Free, TypeOK
    <3>. QED BY <1>3, <3>1, <3>2, <3>3
  <2>2. UNCHANGED <<calls, ends, throws>> /\ run' \in {run, "executing", "reattempting"}
    BY <1>3 DEF Claim, Start, Save, Progress, Crash, counts
  <2>. QED BY <2>1, <2>2 DEF EndInv, EndsTrue, WillRetry
<1>4. ASSUME NEW w \in Slots, NEW end \in {"ok", "error", "final"}, Settle(w, end)
      PROVE  EndInv'
  <2>1. CASE Owns(w)
    <3>1. work' = [work EXCEPT ![w].pc = "report", ![w].made = @ + 1, ![w].end = end]
      BY <1>4, <2>1 DEF Settle
    <3>2. work'[w].end = end /\ work'[w].made = work[w].made + 1
      BY <1>0, <3>1 DEF TypeOK, Slot
    <3>3. ends \subseteq ends'
      BY <1>4, <2>1 DEF Settle
    <3>4. CASE Requeues(work[w], end)
      BY <1>0, <1>4, <3>1, <3>2, <3>3, <3>4
      DEF Settle, Requeues, WillRetry, EndInv, EndsTrue, TypeOK, counts
    <3>5. CASE ~Requeues(work[w], end)
      <4>1. IF end = "ok" THEN "completed" \in ends' ELSE "failed" \in ends'
        BY <1>4, <2>1, <3>5 DEF Settle
      <4>. QED BY <1>0, <1>4, <3>1, <3>2, <3>3, <4>1
               DEF Settle, WillRetry, EndInv, EndsTrue, TypeOK, counts
    <3>. QED BY <3>4, <3>5
  <2>2. CASE ~Owns(w)
    BY <1>0, <1>4, <2>2 DEF Settle, Abandoned, Free, TypeOK, EndInv, EndsTrue, WillRetry, counts
  <2>. QED BY <2>1, <2>2
<1>5. ASSUME NEW w \in Slots, Report(w) PROVE EndInv'
  BY <1>0, <1>5 DEF Report, Free, TypeOK, EndInv, EndsTrue, WillRetry, counts
<1>6. ASSUME NEW w \in Slots, Expire(w) PROVE EndInv'
  BY <1>0, <1>6 DEF Expire, Free, TypeOK, EndInv, EndsTrue, WillRetry
<1>7. CASE UNCHANGED vars
  BY <1>7 DEF vars, counts, EndInv, EndsTrue, WillRetry
<1>. QED
  BY <1>1, <1>2, <1>3, <1>4, <1>5, <1>6, <1>7 DEF Next, ClientStep, Finish

(* A run is shown as completed only if an attempt that owned the job        *)
(* completed it, and as failed only if one failed it for good or its        *)
(* insertion threw: crashes, lost leases, late reports and a store that      *)
(* overwrites can hide an end, never invent one.                           *)
THEOREM EndsAreTrue == Spec => []EndsTrue
<1>1. EndInv => EndsTrue
  BY DEF EndInv
<1>. QED BY <1>1, TypeInit, TypeNext, EndInit, EndNext, PTL DEF Spec

-----------------------------------------------------------------------------
LEMMA RecordInit == Init => RecordInv
BY DEF Init, RecordInv, Recorded, NoJob

LEMMA RecordNext == TypeInv /\ RecordInv /\ [Next]_vars => RecordInv'
<1>. SUFFICES ASSUME TypeInv, RecordInv, [Next]_vars PROVE RecordInv'
  OBVIOUS
<1>0. TypeOK
  BY DEF TypeInv
<1>1. ASSUME NEW c \in Clients,
             Hook(c) \/ Snapshot(c) \/ Insert(c) \/ InsertThrows(c) \/ FailHook(c)
      PROVE  RecordInv'
  BY <1>0, <1>1
  DEF Hook, Snapshot, Insert, InsertThrows, FailHook, Handled, Inserted, TypeOK, RecordInv,
      Recorded, Terminal
<1>2. ASSUME NEW c \in Clients,
             Read(c) \/ Remove(c) \/ RemoveExpired(c) \/ CancelHook(c)
      PROVE  RecordInv'
  BY <1>0, <1>2 DEF Read, Remove, RemoveExpired, CancelHook, NoJob, TypeOK, RecordInv, Recorded
<1>3. ASSUME NEW w \in Slots, Claim(w) \/ Start(w) \/ Save(w) \/ Progress(w) PROVE RecordInv'
  BY <1>0, <1>3 DEF Claim, Start, Save, Progress, TypeOK, Job, RecordInv, Recorded, Free, Slot
<1>4. ASSUME NEW w \in Slots, NEW end \in {"ok", "error", "final"}, Settle(w, end)
      PROVE  RecordInv'
  <2>1. work[w] # Free
    BY <1>4 DEF Settle, Free
  <2>2. run # "none"
    BY <2>1 DEF RecordInv, Recorded
  <2>. QED BY <1>4, <2>2 DEF Settle, RecordInv, Recorded
<1>5. ASSUME NEW w \in Slots, Report(w) PROVE RecordInv'
  BY <1>0, <1>5 DEF Report, RecordInv, Recorded
<1>6. ASSUME NEW w \in Slots, Expire(w) \/ Crash(w) PROVE RecordInv'
  BY <1>0, <1>6 DEF Expire, Crash, TypeOK, RecordInv, Recorded
<1>7. CASE UNCHANGED vars
  BY <1>7 DEF vars, RecordInv, Recorded
<1>. QED
  BY <1>1, <1>2, <1>3, <1>4, <1>5, <1>6, <1>7 DEF Next, ClientStep, Finish

(* A job the transport has, or a worker works on, is on record.             *)
THEOREM JobsRecorded == Spec => []Recorded
<1>1. RecordInv => Recorded
  BY DEF RecordInv
<1>. QED BY <1>1, TypeInit, TypeNext, RecordInit, RecordNext, PTL DEF Spec
-----------------------------------------------------------------------------
(* A store that answers in one statement, a transport that keeps its ids,    *)
(* neither cancels nor failing enqueues, and no lease that expires: only    *)
(* duplicates and crashes.                                                 *)
Undisturbed ==
  /\ Atomic /\ Retains /\ Prompt
  /\ MaxCancels = 0 /\ MaxThrows = 0 /\ MaxExpiries = 0

(* There is one slot at most at work.  It owns the job, or has to report     *)
(* what the job's state shows; when it has, the store says how the job      *)
(* ended, and before that it says nothing of an end.                        *)
InSlot(s) ==
  /\ s.pc = "idle" => s = Free
  /\ s.pc \in {"start", "run", "emit"} => job.state = "active" /\ job.token = s.token
  /\ s.pc = "report" =>
       \/ job.state = "waiting" /\ WillRetry(s)
       \/ job.state = "done" /\ ends = {IF s.end = "ok" THEN "completed" ELSE "failed"} /\ ~WillRetry(s)
AllFree == \A w \in Slots : work[w] = Free

(* The row shows the end, or a slot without a handler was told of a failure *)
(* and the row shows an attempt to come.                                   *)
Told == IF unreported = {} THEN ends = {run} ELSE ends = unreported /\ run \in {"queued", "reattempting"}

(* A slot without a handler has only a failure for good to report, and a row *)
(* that shows an attempt under way has one, unless its worker crashed.      *)
Untried == \A w \in Slots \ Handlers :
  \/ work[w].pc \in {"idle", "start"}
  \/ work[w].pc = "report" /\ work[w].end = "final"
Shown == run = "executing" /\ crashes = 0 =>
  \E w \in Handlers : work[w].pc \in {"run", "emit", "report"}

TruthInv ==
  /\ \A c \in Clients : calls[c] \in {"idle", "insert"}
  /\ \A v, w \in Slots : work[v] # Free /\ work[w] # Free => v = w
  /\ \A w \in Slots : InSlot(work[w])
  /\ job.state # "done" => ends = {} /\ unreported = {}
  /\ ~AllFree => unreported = {}
  /\ job.state = "done" /\ AllFree => Told \/ crashes > 0
  /\ run \in Terminal => job.state = "done" /\ AllFree
  /\ Untried /\ Shown

LEMMA TruthInit == Init => TruthInv
<1>. SUFFICES ASSUME Init PROVE TruthInv
  OBVIOUS
<1>1. /\ \A w \in Slots : work[w] = Free
      /\ run = "none" /\ ends = {} /\ unreported = {} /\ job.state = "none"
      /\ \A c \in Clients : calls[c] = "idle"
  BY DEF Init, NoJob
<1>2. Untried /\ Shown
  BY <1>1 DEF Untried, Shown, Free
<1>. QED BY <1>1, <1>2 DEF TruthInv, InSlot, Free, Terminal, AllFree

(* A step of the slot that works leaves the others free.                    *)
LEMMA OneSlot ==
  ASSUME TypeInv, TruthInv, NEW w \in Slots, NEW s \in Slot,
         \A v \in Slots : v # w => work[v] = Free, work' = [work EXCEPT ![w] = s]
  PROVE  /\ work'[w] = s /\ \A v \in Slots : v # w => work'[v] = Free
         /\ AllFree' <=> s = Free
BY DEF TypeInv, TypeOK, AllFree

LEMMA TruthNext == TypeInv /\ RecordInv /\ TruthInv /\ Undisturbed /\ [Next]_vars => TruthInv'
<1>. SUFFICES ASSUME TypeInv, RecordInv, TruthInv, Undisturbed, [Next]_vars PROVE TruthInv'
  OBVIOUS
<1>0. TypeOK /\ InBudget
  BY DEF TypeInv
<1>u. /\ Free.pc = "idle" /\ \A w \in Slots : work[w] # Free => \A v \in Slots : v # w => work[v] = Free
  BY DEF TruthInv, Free
<1>n. /\ ~(cancels < MaxCancels) /\ ~(throws < MaxThrows) /\ ~(expiries < MaxExpiries)
      /\ Prompt = TRUE /\ Atomic = TRUE /\ Retains = TRUE
  BY <1>0, ConstantsAssumption DEF Undisturbed, TypeOK
<1>1. ASSUME NEW c \in Clients, Hook(c) PROVE TruthInv'
  <2>1. /\ UNCHANGED <<job, work, ends, unreported, crashes>>
        /\ run' = Handled(run) /\ calls' = [calls EXCEPT ![c] = "insert"]
    BY <1>1, <1>n DEF Hook
  <2>2. \A d \in Clients : calls'[d] \in {"idle", "insert"}
    BY <1>0, <2>1 DEF TruthInv, TypeOK
  <2>3. (run \in Terminal => run' = run) /\ (run \notin Terminal => run' = "queued" /\ run' \notin Terminal)
    BY <2>1 DEF Handled, Terminal
  <2>4. Told => Told'
    <3>1. unreported = {} /\ ends = {run} => run \in Terminal
      BY <1>0 DEF TypeOK
    <3>2. unreported # {} /\ Told => run \notin Terminal
      BY DEF Told, Terminal
    <3>. QED BY <2>1, <2>3, <3>1, <3>2 DEF Told
  <2>5. Untried' /\ Shown'
    BY <2>1, <2>3 DEF TruthInv, Untried, Shown, Terminal
  <2>. QED BY <2>1, <2>2, <2>3, <2>4, <2>5 DEF TruthInv, InSlot, AllFree, WillRetry
<1>2. ASSUME NEW c \in Clients, Insert(c) PROVE TruthInv'
  <2>1. /\ UNCHANGED <<run, work, ends, unreported, crashes>>
        /\ job' = Inserted /\ calls' = [calls EXCEPT ![c] = "idle"]
    BY <1>2 DEF Insert, counts
  <2>u. Untried' /\ Shown' /\ (Told => Told')
    BY <2>1 DEF TruthInv, Untried, Shown, Told
  <2>2. \A d \in Clients : calls'[d] \in {"idle", "insert"}
    BY <1>0, <2>1 DEF TruthInv, TypeOK
  <2>3. CASE job.state = "none"
    <3>1. job'.state = "waiting"
      BY <2>1, <2>3 DEF Inserted, NoJob
    <3>2. \A w \in Slots : work[w] = Free
      BY <1>0, <2>3 DEF TruthInv, InSlot, TypeOK, Slot
    <3>. QED BY <2>1, <2>2, <2>3, <2>u, <3>1, <3>2, <1>u DEF TruthInv, InSlot, AllFree
  <2>4. CASE job.state # "none"
    <3>1. UNCHANGED job
      BY <2>1, <2>4 DEF Inserted
    <3>. QED BY <2>1, <2>2, <2>u, <3>1 DEF TruthInv, InSlot, AllFree, WillRetry
  <2>. QED BY <2>3, <2>4
<1>3. ASSUME NEW c \in Clients,
             \/ InsertThrows(c) \/ Read(c) \/ RemoveExpired(c)
             \/ Snapshot(c) \/ FailHook(c) \/ Remove(c) \/ CancelHook(c)
      PROVE  FALSE
  BY <1>3, <1>n DEF InsertThrows, Read, RemoveExpired, Snapshot, FailHook, Remove, CancelHook, TruthInv
<1>4. ASSUME NEW w \in Slots, Claim(w) PROVE TruthInv'
  <2>. DEFINE s == [pc |-> "start", made |-> job.made, token |-> tokens', end |-> "none"]
  <2>1. /\ job.state = "waiting" /\ job' = [job EXCEPT !.state = "active", !.token = tokens']
        /\ work' = [work EXCEPT ![w] = s] /\ UNCHANGED <<run, calls, ends, unreported, crashes>>
        /\ \A v \in Slots : work[v].pc # "report"
    BY <1>4, <1>n DEF Claim, counts
  <2>2. job'.state = "active" /\ job'.token = tokens' /\ tokens' \in Nat
    BY <1>0, <1>4, <2>1 DEF TypeOK, Job, Claim
  <2>3. \A v \in Slots : work[v] = Free
    BY <1>0, <2>1 DEF TruthInv, InSlot, TypeOK, Slot
  <2>4. s \in Slot /\ s.pc = "start" /\ s.token = tokens' /\ s # Free
    BY <1>0, <2>2 DEF TypeOK, Job, Slot, Free
  <2>. HIDE DEF s
  <2>5. work'[w] = s /\ \A v \in Slots : v # w => work'[v] = Free
    BY <2>1, <2>3, <2>4, OneSlot
  <2>6. Untried' /\ Shown'
    <3>1. \A v \in Slots : work[v].pc = "idle"
      BY <1>u, <2>3
    <3>2. Shown'
      BY <2>1, <3>1, ConstantsAssumption DEF TruthInv, Shown
    <3>3. \A v \in Slots : work'[v].pc \in {"idle", "start"}
      BY <1>u, <2>4, <2>5
    <3>. QED BY <3>2, <3>3 DEF Untried
  <2>7. ~AllFree'
    BY <2>4, <2>5 DEF AllFree
  <2>8. \A v \in Slots : InSlot(work[v])'
    BY <1>u, <2>2, <2>4, <2>5 DEF InSlot
  <2>9. run \notin Terminal /\ unreported = {} /\ ends = {}
    BY <2>1 DEF TruthInv
  <2>. QED BY <1>u, <2>1, <2>2, <2>4, <2>5, <2>6, <2>7, <2>8, <2>9 DEF TruthInv
<1>5. ASSUME NEW w \in Slots, Start(w) \/ Save(w) \/ Progress(w) PROVE TruthInv'
  <2>1. /\ work[w].pc \in {"start", "run", "emit"} /\ UNCHANGED <<job, calls, ends, unreported, crashes>>
        /\ run' \in {run, "executing", "reattempting"}
        /\ \E pc \in {"run", "emit"} : work' = [work EXCEPT ![w].pc = pc]
    BY <1>5 DEF Start, Save, Progress, counts
  <2>h. w \in Handlers
    BY <1>5 DEF Start, Save, Progress, TruthInv, Untried
  <2>2. PICK pc \in {"run", "emit"} : work' = [work EXCEPT ![w].pc = pc]
    BY <2>1
  <2>. DEFINE s == [work[w] EXCEPT !.pc = pc]
  <2>3. s \in Slot /\ s.pc = pc /\ s.token = work[w].token /\ s # Free /\ work' = [work EXCEPT ![w] = s]
    BY <1>0, <2>2 DEF TypeOK, Slot, Free
  <2>4. work[w] # Free /\ job.state = "active" /\ job.token = work[w].token /\ run \notin Terminal
    BY <2>1, <1>u DEF TruthInv, InSlot
  <2>. HIDE DEF s
  <2>5. work'[w] = s /\ \A v \in Slots : v # w => work'[v] = Free
    BY <1>u, <2>3, <2>4, OneSlot
  <2>6. run' \notin Terminal
    BY <2>1, <2>4 DEF Terminal
  <2>7. Untried' /\ Shown'
    BY <1>u, <2>h, <2>3, <2>5, ConstantsAssumption DEF Untried, Shown
  <2>8. ~AllFree /\ ~AllFree'
    BY <2>3, <2>4, <2>5 DEF AllFree
  <2>9. \A v \in Slots : InSlot(work[v])'
    BY <1>u, <2>1, <2>3, <2>4, <2>5 DEF InSlot
  <2>. QED BY <1>u, <2>1, <2>5, <2>6, <2>7, <2>8, <2>9 DEF TruthInv
<1>6. ASSUME NEW w \in Slots, NEW end \in {"ok", "error", "final"}, Settle(w, end) PROVE TruthInv'
  <2>1. work[w].pc \in {"start", "run"} /\ UNCHANGED <<run, calls, unreported, crashes>>
        /\ (w \notin Handlers => end = "final")
    BY <1>6 DEF Settle, counts
  <2>2. /\ Owns(w) /\ work[w] # Free /\ job.state = "active" /\ ends = {} /\ unreported = {} /\ run \notin Terminal
    BY <1>u, <2>1 DEF TruthInv, InSlot, Owns
  <2>. DEFINE s == [work[w] EXCEPT !.pc = "report", !.made = work[w].made + 1, !.end = end]
              again == Requeues(work[w], end)
  <2>3. /\ job' = IF again THEN [job EXCEPT !.state = "waiting", !.made = work[w].made + 1] ELSE Gone
        /\ ends' = IF again THEN ends ELSE ends \cup {IF end = "ok" THEN "completed" ELSE "failed"}
        /\ work' = [work EXCEPT ![w] = s]
    BY <1>0, <1>6, <2>2 DEF Settle, TypeOK
  <2>4. work[w].made \in Nat /\ work[w].made < Attempts /\ Attempts \in Nat
    BY <1>0, <2>1, ConstantsAssumption DEF InBudget, TypeOK, Slot
  <2>5. /\ s \in Slot /\ s.pc = "report" /\ s.end = end /\ s # Free
        /\ s.made = work[w].made + 1
    <3>1. work[w].made + 1 \in 0 .. Attempts
      BY <2>4
    <3>. QED BY <1>0, <3>1 DEF TypeOK, Slot, Free
  <2>6. WillRetry(s) <=> again
    BY <2>5 DEF WillRetry, Requeues
  <2>. HIDE DEF s, again
  <2>7. /\ again => job'.state = "waiting" /\ ends' = {}
        /\ ~again => job'.state = "done" /\ ends' = {IF end = "ok" THEN "completed" ELSE "failed"}
    <3>1. Gone.state = "done"
      BY <1>n DEF Gone, NoJob
    <3>. QED BY <1>0, <2>2, <2>3, <3>1 DEF TypeOK, Job
  <2>8. work'[w] = s /\ \A v \in Slots : v # w => work'[v] = Free
    BY <1>u, <2>2, <2>3, <2>5, OneSlot
  <2>9. ~AllFree'
    BY <2>5, <2>8 DEF AllFree
  <2>10. \A v \in Slots : InSlot(work[v])'
    <3>1. /\ WillRetry(work[w])' => job'.state = "waiting"
          /\ ~WillRetry(work[w])' =>
               job'.state = "done" /\ ends' = {IF end = "ok" THEN "completed" ELSE "failed"}
      BY <2>6, <2>7, <2>8 DEF WillRetry
    <3>2. InSlot(work[w])'
      BY <2>5, <2>8, <3>1 DEF InSlot
    <3>. QED BY <1>u, <2>8, <3>2 DEF InSlot
  <2>11. Untried'
    BY <1>u, <2>1, <2>5, <2>8 DEF Untried
  <2>12. Shown'
    <3>. SUFFICES ASSUME run' = "executing" /\ crashes' = 0
                  PROVE  \E v \in Handlers : work'[v].pc \in {"run", "emit", "report"}
      BY DEF Shown
    <3>1. PICK v \in Handlers : work[v].pc \in {"run", "emit", "report"}
      BY <2>1 DEF TruthInv, Shown
    <3>2. v = w
      BY <1>u, <2>2, <3>1, ConstantsAssumption
    <3>. QED BY <2>5, <2>8, <3>1, <3>2
  <2>. QED BY <1>u, <2>1, <2>2, <2>5, <2>7, <2>8, <2>9, <2>10, <2>11, <2>12 DEF TruthInv
<1>7. ASSUME NEW w \in Slots, Report(w) PROVE TruthInv'
  <2>1. /\ work[w].pc = "report" /\ work' = [work EXCEPT ![w] = Free] /\ UNCHANGED <<job, calls, ends, crashes>>
        /\ w \in Handlers =>
             /\ run' = IF work[w].end = "ok" THEN "completed" ELSE IF WillRetry(work[w]) THEN "reattempting" ELSE "failed"
             /\ unreported' = unreported
        /\ w \notin Handlers => run' = run /\ unreported' = unreported \cup {"failed"}
    BY <1>7 DEF Report, counts
  <2>2. work[w] # Free /\ ~AllFree /\ unreported = {} /\ run \notin Terminal
    BY <1>u, <2>1 DEF TruthInv, AllFree
  <2>3. AllFree' /\ \A v \in Slots : work'[v] = Free
    BY <1>u, <2>1, <2>2, JobTypes, OneSlot DEF AllFree
  <2>4. Untried' /\ \A v \in Slots : InSlot(work[v])'
    BY <1>u, <2>3 DEF Untried, InSlot
  <2>5. CASE w \in Handlers
    <3>1. \/ job.state = "waiting" /\ run' = "reattempting"
          \/ job.state = "done" /\ ends = {run'}
      BY <2>1, <2>5 DEF TruthInv, InSlot, WillRetry
    <3>2. run' # "executing" /\ unreported' = {} /\ (run' \in Terminal => job.state = "done")
      BY <2>1, <2>2, <2>5, <3>1 DEF Terminal
    <3>3. (job.state = "done" => Told') /\ Shown'
      BY <2>1, <3>1, <3>2 DEF Told, Shown
    <3>. QED BY <1>u, <2>1, <2>3, <2>4, <3>1, <3>2, <3>3 DEF TruthInv
  <2>6. CASE w \notin Handlers
    <3>1. work[w].end = "final"
      BY <2>1, <2>6 DEF TruthInv, Untried
    <3>2. job.state = "done" /\ ends = {"failed"} /\ unreported' = {"failed"} /\ run' = run
      BY <2>1, <2>2, <2>6, <3>1 DEF TruthInv, InSlot, WillRetry
    <3>3. run # "executing" \/ crashes # 0
      BY <1>u, <2>2, <2>6, ConstantsAssumption DEF TruthInv, Shown
    <3>4. run # "none" /\ run \in Status
      BY <1>0, <2>2 DEF RecordInv, Recorded, TypeOK
    <3>5. Told' \/ crashes > 0
      BY <1>0, <2>1, <2>2, <3>2, <3>3, <3>4 DEF Told, Status, Terminal, TypeOK
    <3>6. Shown'
      BY <2>1, <3>2, <3>3 DEF Shown
    <3>. QED BY <1>u, <2>1, <2>2, <2>3, <2>4, <3>2, <3>5, <3>6 DEF TruthInv
  <2>. QED BY <2>5, <2>6
<1>8. ASSUME NEW w \in Slots, Expire(w) PROVE FALSE
  BY <1>8, <1>n DEF Expire
<1>9. ASSUME NEW w \in Slots, Crash(w) PROVE TruthInv'
  <2>1. /\ work[w] # Free /\ work' = [work EXCEPT ![w] = Free] /\ UNCHANGED <<run, job, calls, ends, unreported>>
        /\ crashes' > 0
    BY <1>0, <1>9 DEF Crash, TypeOK
  <2>2. AllFree' /\ \A v \in Slots : work'[v] = Free
    BY <1>u, <2>1, JobTypes, OneSlot DEF AllFree
  <2>3. crashes' # 0
    BY <1>0, <1>9 DEF Crash, TypeOK
  <2>4. Untried' /\ Shown'
    BY <1>u, <2>2, <2>3 DEF Untried, Shown
  <2>5. ~AllFree /\ run \notin Terminal /\ unreported = {}
    BY <2>1 DEF TruthInv, AllFree
  <2>6. \A v \in Slots : InSlot(work[v])'
    BY <1>u, <2>2 DEF InSlot
  <2>. QED BY <1>u, <2>1, <2>2, <2>4, <2>5, <2>6 DEF TruthInv
<1>10. CASE UNCHANGED vars
  BY <1>10 DEF vars, counts, TruthInv, InSlot, AllFree, WillRetry, Untried, Shown, Told
<1>. QED BY <1>1, <1>2, <1>3, <1>4, <1>5, <1>6, <1>7, <1>8, <1>9, <1>10 DEF Next, ClientStep, Finish

(* However often a run is enqueued again, while it runs or after, the store  *)
(* says in the end how its job ended, but for the failure of a job that a   *)
(* worker without a handler for its name took: that leaves the row with an  *)
(* attempt to come.  (A worker that crashes before it reports leaves the    *)
(* run as executing.)                                                       *)
THEOREM TruthCorrect ==
  ASSUME Undisturbed, MaxCrashes = 0
  PROVE  Spec => []Truth
<1>1. TypeInv /\ RecordInv /\ TruthInv /\ [Next]_vars => TruthInv'
  BY TruthNext
<1>2. crashes = 0 /\ [Next]_vars => (crashes = 0)'
  <2>1. \A w \in Slots : crashes = 0 => ~Crash(w)
    BY DEF Crash
  <2>2. \A w \in Slots : Claim(w) \/ Start(w) \/ Save(w) \/ Progress(w) \/ Finish(w) \/ Report(w) \/ Expire(w)
          => crashes' = crashes
    BY DEF Claim, Start, Save, Progress, Finish, Settle, Report, Expire, counts
  <2>3. \A c \in Clients : Hook(c) \/ InsertThrows(c) \/ Read(c) \/ RemoveExpired(c) \/ ClientStep(c)
          => crashes' = crashes
    BY DEF ClientStep, Hook, InsertThrows, Read, RemoveExpired, Snapshot, Insert, FailHook, Remove, CancelHook, counts
  <2>. QED BY <2>1, <2>2, <2>3 DEF Next, vars, counts
<1>3. TypeInv /\ TruthInv /\ crashes = 0 => Truth
  BY DEF TypeInv, TypeOK, Job, TruthInv, Truth, Told, Quiet, AllFree
<1>4. Init => crashes = 0
  BY DEF Init
<1>. QED BY <1>1, <1>2, <1>3, <1>4, TypeInit, TypeNext, RecordInit, RecordNext, TruthInit, PTL DEF Spec

(* ... and a run that is shown as completed stays so, although workers crash. *)
THEOREM CompletedStaysCorrect ==
  ASSUME Undisturbed
  PROVE  Spec => CompletedStays
<1>1. TypeInv /\ RecordInv /\ TruthInv /\ [Next]_vars => TruthInv'
  BY TruthNext
<1>2. TypeInv /\ TruthInv /\ TruthInv' /\ [Next]_vars => [run = "completed" => run' = "completed"]_vars
  <2>. SUFFICES ASSUME TypeInv, TruthInv, Next, run = "completed" PROVE run' = "completed"
    OBVIOUS
  <2>1. \A w \in Slots : work[w] = Free /\ work[w].pc = "idle"
    BY DEF TruthInv, AllFree, Terminal, Free
  <2>2. \A c \in Clients : calls[c] \in {"idle", "insert"}
    BY DEF TruthInv
  <2>3. Atomic = TRUE
    BY ConstantsAssumption DEF Undisturbed
  <2>4. Handled(run) = run
    BY DEF Handled, Terminal
  <2>. QED BY <2>1, <2>2, <2>3, <2>4
           DEF Next, ClientStep, Finish, Hook, InsertThrows, Read, RemoveExpired, Snapshot, Insert, FailHook, Remove,
               CancelHook, Claim, Start, Save, Progress, Settle, Report, Expire, Crash
<1>. QED BY <1>1, <1>2, TypeInit, TypeNext, RecordInit, RecordNext, TruthInit, PTL DEF Spec, CompletedStays

==============================================================================
