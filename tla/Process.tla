------------------------------- MODULE Process -------------------------------
(***************************************************************************)
(* The worker process, from the command that spawns it to its exit: how    *)
(* several boot against one database, how one serves and stops, and how    *)
(* the CLI supervises one.  They share no state, so that their             *)
(* interleavings show nothing that each does not show alone: a behaviour   *)
(* is one of the three, with the others at rest.                           *)
(***************************************************************************)
EXTENDS Boot, WorkerLife, Supervisor

VARIABLE part

vars == <<part, bootVars, lifeVars, supervisorVars>>

Init ==
  /\ part \in {"boot", "life", "supervisor"}
  /\ BootInit /\ LifeInit /\ SupervisorInit
  /\ part # "supervisor" => command = "dev"

BootsBy(A) == part = "boot" /\ A /\ UNCHANGED <<part, lifeVars, supervisorVars>>
Lives(A) == part = "life" /\ A /\ UNCHANGED <<part, bootVars, supervisorVars>>
Supervises(A) == part = "supervisor" /\ A /\ UNCHANGED <<part, bootVars, lifeVars>>

Next ==
  \/ \E p \in Workers :
       \/ BootsBy(Start(p))
       \/ BootsBy(Probe(p))
       \/ BootsBy(Lock(p))
       \/ BootsBy(Migrate(p))
       \/ BootsBy(Unlock(p))
       \/ BootsBy(Publish(p))
       \/ BootsBy(Insert(p))
       \/ BootsBy(List(p))
       \/ BootsBy(Ready(p))
       \/ BootsBy(Fault(p))
  \/ \E p \in Workers, t \in AllTasks :
       \/ BootsBy(Create(p, t))
       \/ BootsBy(Clear(p, t))
       \/ BootsBy(Arm(p, t))
       \/ BootsBy(Fire(p, t))
       \/ BootsBy(Complete(p, t))
       \/ BootsBy(Untick(p, t))
       \/ BootsBy(Delete(p, t))
  \/ BootsBy(Elapse)
  \/ \E a \in Attempts :
       \/ Lives(Take(a))
       \/ Lives(Wait(a))
       \/ Lives(Resume(a))
       \/ Lives(Release(a))
       \/ Lives(Log(a))
       \/ Lives(Send(a))
       \/ Lives(Return(a))
       \/ Lives(EndOwnSpan(a))
       \/ Lives(EndSpan(a))
  \/ Lives(Tick)
  \/ Lives(Flush)
  \/ Lives(Inserted)
  \/ Lives(Signal)
  \/ Lives(Again)
  \/ Lives(HookEnds)
  \/ Lives(HookExpires)
  \/ Lives(ConsumersClose)
  \/ Lives(WorldCloses)
  \/ \E w \in DOMAIN workers :
       \/ Supervises(Load(w))
       \/ Supervises(Crash(w))
       \/ Supervises(Gone(w))
  \/ Supervises(Watch)
  \/ Supervises(Edit)
  \/ Supervises(Restart)
  \/ Supervises(Close)
  \/ Supervises(Healthy)
  \/ Supervises(GiveUp)
  \/ Supervises(Forward)
  \/ Supervises(Exit)

(* Of a worker that serves: handlers return, the transport and the store     *)
(* answer, timers fire; the hook may never end.                            *)
Fairness ==
  /\ \A a \in Attempts :
       WF_vars(Lives(Resume(a) \/ Release(a) \/ Send(a) \/ Return(a) \/ EndSpan(a)))
  /\ WF_vars(Lives(Flush)) /\ WF_vars(Lives(Inserted))
  /\ WF_vars(Lives(HookExpires)) /\ WF_vars(Lives(ConsumersClose)) /\ WF_vars(Lives(WorldCloses))

Spec == Init /\ [][Next]_vars
FairSpec == Spec /\ Fairness
==============================================================================
