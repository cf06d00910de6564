---------------------------- MODULE Process_proofs ----------------------------
(***************************************************************************)
(* Of any number of workers with any builds that boot against one          *)
(* database: migrations take effect once, and the ticks of the tasks they   *)
(* share are armed.  Of any number of attempts of one worker: the limiter   *)
(* never loses count, and what they logged is out when they settle.  Of any *)
(* changes and crashes: what dev runs has read them.                        *)
(***************************************************************************)
EXTENDS Process, FiniteSetTheorems, SequenceTheorems, TLAPS

-----------------------------------------------------------------------------
(* A step is one of a boot, of a worker that serves or of the CLI, and each  *)
(* leaves the others alone.                                                *)
BootStep ==
  \/ \E p \in Workers : \/ Start(p) \/ Probe(p) \/ Lock(p) \/ Migrate(p) \/ Unlock(p)
                        \/ Publish(p) \/ Insert(p) \/ List(p) \/ Ready(p) \/ Fault(p)
  \/ \E p \in Workers, t \in AllTasks :
       \/ Create(p, t) \/ Clear(p, t) \/ Arm(p, t) \/ Fire(p, t) \/ Complete(p, t)
       \/ Untick(p, t) \/ Delete(p, t)
  \/ Elapse

LifeStep ==
  \/ \E a \in Attempts : \/ Take(a) \/ Wait(a) \/ Resume(a) \/ Release(a) \/ Log(a)
                         \/ Send(a) \/ Return(a) \/ EndOwnSpan(a) \/ EndSpan(a)
  \/ Tick \/ Flush \/ Inserted \/ Signal \/ Again \/ HookEnds \/ HookExpires
  \/ ConsumersClose \/ WorldCloses

SupervisorStep ==
  \/ \E w \in DOMAIN workers : Load(w) \/ Crash(w) \/ Gone(w)
  \/ Watch \/ Edit \/ Restart \/ Close \/ Healthy \/ GiveUp \/ Forward \/ Exit

LEMMA BootSteps == [Next]_vars => BootStep \/ UNCHANGED bootVars
BY DEF Next, vars, BootsBy, Lives, Supervises, BootStep

LEMMA LifeSteps == [Next]_vars => LifeStep \/ UNCHANGED lifeVars
BY DEF Next, vars, BootsBy, Lives, Supervises, LifeStep

LEMMA SupervisorSteps == [Next]_vars => SupervisorStep \/ UNCHANGED supervisorVars
BY DEF Next, vars, BootsBy, Lives, Supervises, SupervisorStep

-----------------------------------------------------------------------------
(* The migrations.                                                         *)
Kinds == ArmingKinds \cup {"untick", "delete"}

BootState == [pc : {"off", "probe", "lock", "migrate", "publish", "insert", "sync", "prune", "up",
                    "failed"},
              step : Nat \ {0}, seen : [StepIds -> Checksums \cup {Pending}],
              calls : SUBSET (Kinds \X AllTasks \X Nat)]

(* One worker at most is in its migrations, and it is under the lock; what   *)
(* it read of the steps that are left is still true, and the steps before   *)
(* are as its build has them.                                              *)
LockInv ==
  /\ \A p, q \in lock : p = q
  /\ \A p \in Workers : At(p, "migrate") =>
       /\ p \in lock
       /\ \A s \in DOMAIN Build[p] :
            IF s < boot[p].step THEN applied[s] = Build[p][s] ELSE boot[p].seen[s] = applied[s]
  /\ \A p \in Workers : At(p, "lock") => boot[p].step = 1

LEMMA BuildFacts ==
  ASSUME NEW p \in Workers
  PROVE  /\ DOMAIN Build[p] = 1 .. Len(Build[p]) /\ Len(Build[p]) \in Nat
         /\ DOMAIN Build[p] \subseteq StepIds
         /\ \A s \in DOMAIN Build[p] : Build[p][s] \in Checksums /\ Build[p][s] # Pending
         /\ Tasks[p] \subseteq AllTasks
<1>1. Build[p] \in Seq(STRING \ {Pending})
  BY BootAssumption
<1>2. DOMAIN Build[p] = 1 .. Len(Build[p]) /\ Len(Build[p]) \in Nat
  BY <1>1
<1>3. \A s \in DOMAIN Build[p] : Build[p][s] \in Checksums /\ Build[p][s] # Pending
  BY <1>1, <1>2 DEF Checksums
<1>. QED BY <1>2, <1>3 DEF StepIds, AllTasks

LEMMA BootTypeNext ==
  ASSUME BootTypeOK,
         BootStep
  PROVE  BootTypeOK'
<1>0. boot \in [Workers -> BootState]
  BY DEF BootTypeOK, BootState, Kinds
<1>1. Off \in BootState /\ \A pc \in {"off", "lock", "probe", "failed", "publish"} :
        [Off EXCEPT !.pc = pc] \in BootState
  BY DEF Off, BootState
<1>2. ASSUME NEW p \in Workers, Start(p) \/ Fault(p) \/ Probe(p) \/ Publish(p) \/ Ready(p)
      PROVE  BootTypeOK'
  <2>1. boot' \in [Workers -> BootState]
    <3>1. ASSUME NEW pc \in {"failed", "publish", "insert", "up"}, boot' = [boot EXCEPT ![p].pc = pc]
          PROVE  boot' \in [Workers -> BootState]
      BY <1>0, <3>1, SMTT(30) DEF BootState
    <3>2. ASSUME NEW pc \in {"off", "lock", "probe", "failed"},
                 boot' = [boot EXCEPT ![p] = [Off EXCEPT !.pc = pc]]
          PROVE  boot' \in [Workers -> BootState]
      BY <1>0, <1>1, <3>2
    <3>3. CASE Start(p) \/ Fault(p)
      BY <3>2, <3>3 DEF Start, Fault
    <3>4. CASE Probe(p) \/ Publish(p) \/ Ready(p)
      BY <3>1, <3>4 DEF Probe, Publish, Ready, Goto
    <3>. QED BY <1>2, <3>3, <3>4
  <2>2. UNCHANGED <<applied, ddl, last, cron>> /\ catalog' \subseteq catalog
        /\ lock' \subseteq lock
    BY <1>2 DEF Start, Fault, Probe, Publish, Ready, db, store, cron, bounds
  <2>. QED BY <2>1, <2>2 DEF BootTypeOK, BootState, Kinds, cron
<1>3. ASSUME NEW p \in Workers, Lock(p) \/ Unlock(p) PROVE BootTypeOK'
  <2>1. boot' \in [Workers -> BootState]
    <3>1. CASE Lock(p)
      <4>1. applied \in [StepIds -> Checksums \cup {Pending}]
        BY DEF BootTypeOK
      <4>2. boot' = [boot EXCEPT ![p] = [boot[p] EXCEPT !.pc = "migrate", !.seen = applied]]
        BY <3>1 DEF Lock
      <4>3. [boot[p] EXCEPT !.pc = "migrate", !.seen = applied] \in BootState
        BY <1>0, <4>1, ZenonT(40) DEF BootState
      <4>. QED BY <1>0, <4>2, <4>3
    <3>2. CASE Unlock(p)
      BY <1>0, <1>1, <3>2 DEF Unlock
    <3>. QED BY <1>3, <3>1, <3>2
  <2>2. lock' \subseteq Workers /\ UNCHANGED <<applied, ddl, catalog, last, cron>>
    BY <1>3 DEF Lock, Unlock, BootTypeOK, store, cron, bounds
  <2>. QED BY <2>1, <2>2 DEF BootTypeOK, BootState, Kinds, cron
<1>4. ASSUME NEW p \in Workers, Migrate(p) PROVE BootTypeOK'
  <2>. DEFINE s == boot[p].step
  <2>1. boot[p] \in BootState /\ s \in DOMAIN Build[p] /\ s \in StepIds /\ Build[p][s] \in Checksums
    BY <1>0, <1>4, BuildFacts DEF Migrate, BootState
  <2>2. boot' \in [Workers -> BootState]
    <3>1. CASE boot' = [boot EXCEPT ![p].step = s + 1]
      BY <1>0, <2>1, <3>1, SMTT(30) DEF BootState
    <3>2. CASE boot' = [boot EXCEPT ![p].pc = "failed"]
      BY <1>0, <3>2 DEF BootState
    <3>. QED BY <1>4, <3>1, <3>2 DEF Migrate, Goto
  <2>3. applied' \in [StepIds -> Checksums \cup {Pending}] /\ ddl' \in [StepIds -> Nat]
    <3>1. applied \in [StepIds -> Checksums \cup {Pending}] /\ ddl \in [StepIds -> Nat]
      BY DEF BootTypeOK
    <3>2. \/ applied' = [applied EXCEPT ![s] = Build[p][s]] /\ ddl' = [ddl EXCEPT ![s] = @ + 1]
          \/ UNCHANGED <<applied, ddl>>
      BY <1>4 DEF Migrate
    <3>. QED BY <2>1, <3>1, <3>2
  <2>4. lock' \subseteq Workers /\ UNCHANGED <<catalog, last, cron>>
    BY <1>4 DEF Migrate, BootTypeOK, store, cron, bounds
  <2>. QED BY <2>2, <2>3, <2>4 DEF BootTypeOK, BootState, Kinds, cron
<1>5. ASSUME NEW p \in Workers, Insert(p) PROVE BootTypeOK'
  <2>1. Tasks[p] \subseteq AllTasks /\ clock + 1 \in Nat
    BY BuildFacts, BootAssumption DEF BootTypeOK
  <2>2. boot' \in [Workers -> BootState]
    <3>1. {"create"} \X Tasks[p] \X {clock + 1} \subseteq Kinds \X AllTasks \X Nat
      BY <2>1 DEF Kinds, ArmingKinds
    <3>. DEFINE made == {"create"} \X Tasks[p] \X {clock + 1}
    <3>2. \/ boot' = [boot EXCEPT ![p].pc = "sync", ![p].calls = made]
          \/ boot' = [boot EXCEPT ![p].pc = "failed"]
      BY <1>5 DEF Insert, Goto
    <3>3. made \in SUBSET (Kinds \X AllTasks \X Nat)
      BY <3>1
    <3>. HIDE DEF made
    <3>. QED BY <1>0, <3>2, <3>3 DEF BootState
  <2>3. catalog' \subseteq [task : AllTasks, by : Workers] /\ last' \subseteq Workers
    BY <1>5, <2>1 DEF Insert, BootTypeOK, store
  <2>4. /\ UNCHANGED <<lock, applied, ddl, nextRun, ticks, clock>>
        /\ mixed' \subseteq mixed \cup Tasks[p]
    BY <1>5 DEF Insert, db, bounds, store
  <2>. QED BY <2>1, <2>2, <2>3, <2>4 DEF BootTypeOK, BootState, Kinds
<1>6. ASSUME NEW p \in Workers, List(p) PROVE BootTypeOK'
  <2>. DEFINE listed == {"untick"} \X Doomed(p) \X {0}
  <2>1. listed \in SUBSET (Kinds \X AllTasks \X Nat)
    BY DEF Doomed, rows, Kinds
  <2>2. boot' \in [Workers -> BootState]
    <3>1. boot' = [boot EXCEPT ![p].pc = "prune", ![p].calls = listed]
      BY <1>6 DEF List
    <3>. HIDE DEF listed
    <3>. QED BY <1>0, <2>1, <3>1 DEF BootState
  <2>. QED BY <1>6, <2>2 DEF List, BootTypeOK, BootState, Kinds, db, store, cron, bounds
<1>7. ASSUME NEW p \in Workers, NEW t \in AllTasks,
             \/ Create(p, t) \/ Clear(p, t) \/ Arm(p, t) \/ Complete(p, t)
             \/ Untick(p, t) \/ Delete(p, t)
      PROVE  BootTypeOK'
  <2>1. PICK call, next : next \in SUBSET (Kinds \X AllTasks \X Nat) /\ Turn(p, call, next)
    <3>1. Instants \subseteq Nat
      BY BootAssumption DEF Instants
    <3>2. \A k \in {"create", "complete", "clear", "arm", "untick", "delete"}, n \in Nat :
            <<k, t, n>> \in Kinds \X AllTasks \X Nat
      BY DEF Kinds, ArmingKinds
    <3>3. CASE Create(p, t) \/ Clear(p, t) \/ Arm(p, t)
      BY <3>1, <3>2, <3>3 DEF Create, Clear, Arm
    <3>4. CASE Complete(p, t)
      <4>1. PICK n \in Instants :
              Turn(p, <<"complete", t, n>>, IF t \in rows THEN {<<"clear", t, n>>} ELSE {})
        BY <3>4 DEF Complete
      <4>. QED BY <3>1, <3>2, <4>1
    <3>5. CASE Untick(p, t) \/ Delete(p, t)
      BY <3>2, <3>5 DEF Untick, Delete
    <3>. QED BY <1>7, <3>3, <3>4, <3>5
  <2>2. boot' \in [Workers -> BootState] /\ UNCHANGED <<lock, applied, ddl, catalog, last, clock, mixed>>
    BY <1>0, <2>1, SMTT(30) DEF Turn, BootState, db, store, bounds
  <2>3. nextRun' \in [AllTasks -> Nat] /\ ticks' \subseteq AllTasks \X Nat
    <3>1. Instants \subseteq Nat
      BY BootAssumption DEF Instants
    <3>2. nextRun' = nextRun \/ \E n \in Nat : nextRun' = [nextRun EXCEPT ![t] = n]
      BY <1>7, <3>1 DEF Create, Clear, Arm, Complete, Untick, Delete
    <3>3. ticks' \subseteq ticks \/ \E n \in Nat : ticks' = ticks \cup {<<t, n>>}
      BY <1>7, <3>1 DEF Create, Clear, Arm, Complete, Untick, Delete, Unticked
    <3>. QED BY <3>2, <3>3 DEF BootTypeOK
  <2>. QED BY <2>2, <2>3 DEF BootTypeOK, BootState, Kinds
<1>8. ASSUME NEW p \in Workers, NEW t \in AllTasks, Fire(p, t) PROVE BootTypeOK'
  <2>1. PICK n \in 1 .. clock :
          /\ ticks' = ticks \ {<<t, n>>}
          /\ \/ /\ boot' = [boot EXCEPT ![p].calls = @ \cup {<<"complete", t, NextRun(n)>>}]
                /\ mixed' \subseteq mixed \cup {t}
             \/ UNCHANGED <<boot, mixed>>
          /\ UNCHANGED <<db, store, nextRun, clock>>
    BY <1>8 DEF Fire
  <2>2. <<"complete", t, NextRun(n)>> \in Kinds \X AllTasks \X Nat
    BY <2>1 DEF NextRun, BootTypeOK, Kinds, ArmingKinds
  <2>3. boot' \in [Workers -> BootState]
    BY <1>0, <2>1, <2>2, SMTT(30) DEF BootState
  <2>. QED BY <2>1, <2>3 DEF BootTypeOK, BootState, Kinds, db, store
<1>9. ASSUME Elapse PROVE BootTypeOK'
  BY <1>9, BootAssumption DEF Elapse, BootTypeOK, db, store
<1>. QED BY <1>2, <1>3, <1>4, <1>5, <1>6, <1>7, <1>8, <1>9 DEF BootStep

(* What the database holds of the steps, and whoever is past them.         *)
Steps ==
  /\ \A s \in StepIds : ddl[s] = IF applied[s] = Pending THEN 0 ELSE 1
  /\ \A p \in Workers : boot[p].pc \in {"publish", "insert", "sync", "prune", "up"} =>
       \A s \in DOMAIN Build[p] : applied[s] = Build[p][s]

LEMMA StepsNext ==
  ASSUME BootTypeOK, Steps, LockInv,
         BootStep
  PROVE  Steps' /\ LockInv'
<1>0. boot \in [Workers -> BootState]
  BY DEF BootTypeOK, BootState, Kinds
<1>. DEFINE Past == {"publish", "insert", "sync", "prune", "up"}
<1>1. ASSUME NEW p \in Workers, UNCHANGED <<applied, ddl>>, lock' = lock \ {p} \/ lock' = lock,
             \A q \in Workers \ {p} : boot'[q] = boot[q], boot'[p].pc # "migrate",
             lock' # lock \/ ~At(p, "migrate") \/ boot'[p].pc \notin Past,
             boot'[p].pc \in Past => \A s \in DOMAIN Build[p] : applied[s] = Build[p][s],
             boot'[p].pc = "lock" => boot'[p].step = 1
      PROVE  Steps' /\ LockInv'
  BY <1>0, <1>1 DEF Steps, LockInv, At
<1>2. ASSUME NEW p \in Workers,
             Start(p) \/ Fault(p) \/ Probe(p) \/ Publish(p) \/ Insert(p) \/ List(p) \/ Ready(p)
      PROVE  Steps' /\ LockInv'
  <2>1. UNCHANGED <<applied, ddl>> /\ (lock' = lock \ {p} \/ lock' = lock)
        /\ \A q \in Workers \ {p} : boot'[q] = boot[q]
    BY <1>0, <1>2
    DEF Start, Fault, Probe, Publish, Insert, List, Ready, Goto, db, store, cron, bounds
  <2>2. boot'[p].pc # "migrate" /\ (~At(p, "migrate") \/ boot'[p].pc \notin Past)
    BY <1>0, <1>2
    DEF Start, Fault, Probe, Publish, Insert, List, Ready, Goto, At, Off, BootState
  <2>3. boot'[p].pc \in Past => \A s \in DOMAIN Build[p] : applied[s] = Build[p][s]
    BY <1>0, <1>2
    DEF Start, Fault, Probe, Publish, Insert, List, Ready, Goto, At, Off, BootState, Steps
  <2>4. boot'[p].pc = "lock" => boot'[p].step = 1
    BY <1>0, <1>2
    DEF Start, Fault, Probe, Publish, Insert, List, Ready, Goto, At, Off, BootState
  <2>. QED BY <1>1, <2>1, <2>2, <2>3, <2>4
<1>3. ASSUME NEW p \in Workers, Lock(p) PROVE Steps' /\ LockInv'
  <2>1. boot' = [boot EXCEPT ![p].pc = "migrate", ![p].seen = applied] /\ lock' = {p} /\ lock = {}
        /\ UNCHANGED <<applied, ddl>>
    BY <1>3 DEF Lock
  <2>2. Steps'
    BY <1>0, <2>1 DEF Steps, BootState
  <2>3. \A q \in Workers : At(q, "migrate")' => q = p
    BY <1>0, <2>1 DEF LockInv, At
  <2>4. boot'[p].step = boot[p].step /\ boot'[p].seen = applied
    BY <1>0, <2>1 DEF BootState
  <2>6. boot[p].step = 1 /\ ~At(p, "lock")'
    BY <1>0, <1>3, <2>1 DEF Lock, LockInv, At, BootState
  <2>7. \A q \in Workers \ {p} : boot'[q] = boot[q]
    BY <1>0, <2>1
  <2>8. \A s \in DOMAIN Build[p] : ~(s < boot'[p].step) /\ boot'[p].seen[s] = applied'[s]
    BY <2>1, <2>4, <2>6, BuildFacts
  <2>9. \A q \in Workers : At(q, "lock")' => boot'[q].step = 1
    BY <2>6, <2>7 DEF LockInv, At
  <2>. QED BY <2>1, <2>2, <2>3, <2>8, <2>9 DEF LockInv
<1>4. ASSUME NEW p \in Workers, Migrate(p) PROVE Steps' /\ LockInv'
  <2>. DEFINE s == boot[p].step
  <2>1. /\ s \in Nat /\ s \in DOMAIN Build[p] /\ s \in StepIds
        /\ Build[p][s] \in Checksums /\ Build[p][s] # Pending
        /\ boot[p].pc = "migrate"
    BY <1>0, <1>4, BuildFacts DEF Migrate, BootState, At
  <2>2. /\ p \in lock /\ \A q \in Workers : At(q, "migrate") => q = p
        /\ boot[p].seen[s] = applied[s]
        /\ \A i \in DOMAIN Build[p] :
             IF i < s THEN applied[i] = Build[p][i] ELSE boot[p].seen[i] = applied[i]
    BY <2>1 DEF LockInv, At
  <2>3. CASE boot[p].seen[s] \notin {Pending, Build[p][s]}
    <3>1. boot' = [boot EXCEPT ![p].pc = "failed"] /\ lock' = lock \ {p}
          /\ UNCHANGED <<applied, ddl>>
      BY <1>4, <2>3 DEF Migrate, Goto
    <3>2. boot'[p].pc = "failed" /\ \A q \in Workers \ {p} : boot'[q] = boot[q]
      BY <1>0, <3>1 DEF BootState
    <3>. QED BY <1>1, <3>1, <3>2
  <2>4. CASE boot[p].seen[s] \in {Pending, Build[p][s]}
    <3>1. boot' = [boot EXCEPT ![p].step = s + 1] /\ UNCHANGED lock
      BY <1>4, <2>4 DEF Migrate
    <3>2. /\ \A q \in Workers \ {p} : boot'[q] = boot[q]
          /\ boot'[p].pc = "migrate" /\ boot'[p].step = s + 1 /\ boot'[p].seen = boot[p].seen
      BY <1>0, <2>1, <3>1 DEF BootState
    <3>3. /\ applied \in [StepIds -> Checksums \cup {Pending}] /\ ddl \in [StepIds -> Nat]
          /\ applied[s] = Pending => applied' = [applied EXCEPT ![s] = Build[p][s]]
                                     /\ ddl' = [ddl EXCEPT ![s] = @ + 1]
          /\ applied[s] # Pending => UNCHANGED <<applied, ddl>>
      BY <1>4, <2>2 DEF Migrate, BootTypeOK
    <3>4. /\ applied'[s] = Build[p][s]
          /\ \A i \in StepIds : applied[i] # Pending \/ i # s => applied'[i] = applied[i]
      BY <2>1, <2>2, <2>4, <3>3
    <3>5. \A i \in StepIds : ddl'[i] = IF applied'[i] = Pending THEN 0 ELSE 1
      BY <2>1, <3>3, <3>4 DEF Steps
    <3>6. ASSUME NEW q \in Workers, boot'[q].pc \in Past, NEW i \in DOMAIN Build[q]
          PROVE  applied'[i] = Build[q][i]
      <4>1. q # p /\ boot[q].pc \in Past
        BY <3>2, <3>6
      <4>2. applied[i] = Build[q][i] /\ Build[q][i] # Pending /\ i \in StepIds
        BY <4>1, BuildFacts DEF Steps
      <4>. QED BY <3>4, <4>2
    <3>7. \A i \in DOMAIN Build[p] : IF i < boot'[p].step THEN applied'[i] = Build[p][i]
                                    ELSE boot'[p].seen[i] = applied'[i]
      <4>. SUFFICES ASSUME NEW i \in DOMAIN Build[p]
                    PROVE  IF i < s + 1 THEN applied'[i] = Build[p][i]
                                        ELSE boot[p].seen[i] = applied'[i]
        BY <3>2
      <4>1. i \in Nat /\ i \in StepIds /\ Build[p][i] # Pending
        BY BuildFacts
      <4>2. CASE i < s
        BY <2>1, <2>2, <3>4, <4>1, <4>2
      <4>3. CASE i = s
        BY <2>1, <3>4, <4>3
      <4>4. CASE i > s
        BY <2>1, <2>2, <3>4, <4>1, <4>4
      <4>. QED BY <2>1, <4>1, <4>2, <4>3, <4>4
    <3>8. /\ \A q \in Workers : At(q, "migrate")' => q = p
          /\ \A q \in Workers : At(q, "lock")' => boot'[q].step = 1
      BY <2>2, <3>2 DEF At, LockInv
    <3>9. LockInv'
      BY <2>2, <3>1, <3>7, <3>8 DEF LockInv
    <3>. QED BY <3>5, <3>6, <3>9 DEF Steps
  <2>. QED BY <2>3, <2>4
<1>5. ASSUME NEW p \in Workers, Unlock(p) PROVE Steps' /\ LockInv'
  <2>1. \A s \in DOMAIN Build[p] : applied[s] = Build[p][s]
    BY <1>0, <1>5, BuildFacts DEF Unlock, LockInv, At, BootState
  <2>2. UNCHANGED <<applied, ddl>> /\ lock' = lock \ {p}
        /\ \A q \in Workers : boot'[q] = IF q = p THEN [Off EXCEPT !.pc = "publish"] ELSE boot[q]
    BY <1>0, <1>5 DEF Unlock
  <2>3. boot'[p].pc = "publish"
    BY <2>2 DEF Off
  <2>4. Steps'
    BY <2>1, <2>2, <2>3 DEF Steps
  <2>5. \A q \in Workers : At(q, "migrate")' \/ At(q, "lock")' => q # p /\ boot'[q] = boot[q]
    BY <2>2, <2>3 DEF At
  <2>. QED BY <2>2, <2>4, <2>5 DEF LockInv, At
<1>6. ASSUME NEW p \in Workers, NEW t \in AllTasks,
             \/ Create(p, t) \/ Clear(p, t) \/ Arm(p, t) \/ Fire(p, t) \/ Complete(p, t)
             \/ Untick(p, t) \/ Delete(p, t)
      PROVE  Steps' /\ LockInv'
  <2>1. \/ \E call, next : Turn(p, call, next)
        \/ /\ \/ \E m : boot' = [boot EXCEPT ![p].calls = @ \cup m]
              \/ UNCHANGED boot
           /\ UNCHANGED db
    BY <1>6 DEF Create, Clear, Arm, Fire, Complete, Untick, Delete
  <2>2. UNCHANGED <<lock, applied, ddl>>
        /\ \A q \in Workers : /\ boot'[q].pc = boot[q].pc /\ boot'[q].step = boot[q].step
                              /\ boot'[q].seen = boot[q].seen
    BY <1>0, <2>1 DEF Turn, BootState, db, store, bounds
  <2>. QED BY <2>2 DEF Steps, LockInv, At
<1>7. ASSUME Elapse PROVE Steps' /\ LockInv'
  BY <1>7 DEF Elapse, db, Steps, LockInv, At
<1>. QED BY <1>2, <1>3, <1>4, <1>5, <1>6, <1>7 DEF BootStep

(* No two boots apply a step twice, none applies it over another text, and   *)
(* a worker that is past its migrations has found or made each of them.     *)
THEOREM MigratedCorrect == Spec => []Migrated
<1>1. Init => Migrated /\ LockInv
  <2>. SUFFICES ASSUME BootInit PROVE Migrated /\ LockInv
    BY DEF Init
  <2>1. BootTypeOK
    BY BootAssumption DEF BootInit, BootTypeOK, Off
  <2>. QED BY <2>1 DEF BootInit, Migrated, LockInv, At, Off
<1>2. Migrated /\ LockInv /\ [Next]_vars => (Migrated /\ LockInv)'
  <2>. SUFFICES ASSUME Migrated, LockInv, [Next]_vars PROVE (Migrated /\ LockInv)'
    OBVIOUS
  <2>1. BootTypeOK /\ Steps
    BY DEF Migrated, Steps
  <2>2. CASE UNCHANGED bootVars
    BY <2>2 DEF bootVars, Migrated, BootTypeOK, LockInv, At
  <2>3. CASE BootStep
    BY <2>1, <2>3, BootTypeNext, StepsNext DEF Migrated, Steps
  <2>. QED BY <2>2, <2>3, BootSteps
<1>. QED BY <1>1, <1>2, PTL DEF Spec

-----------------------------------------------------------------------------
(* The schedules of a rollout.                                             *)

(* Some worker has a call in flight that will arm t for the instant n.       *)
InFlight(k, t, n) == \E q \in Workers : <<k, t, n>> \in boot[q].calls

(* The calls a boot has in flight belong to the part of it that makes them,  *)
(* and what it takes away is no task of its own.                           *)
CallsInv ==
  \A p \in Workers :
    /\ \A k \in ArmingKinds, t \in AllTasks, n \in Nat :
         <<k, t, n>> \in boot[p].calls =>
           /\ boot[p].pc \in {"sync", "up"}
           /\ k = "create" => boot[p].pc = "sync"
    /\ \A t \in Tasks[p], n \in Nat :
         <<"untick", t, n>> \notin boot[p].calls /\ <<"delete", t, n>> \notin boot[p].calls

(* A task that all carry keeps its row from the first boot that made it.    *)
Rowed(t) ==
  \A p \in Workers : boot[p].pc \in {"sync", "prune", "up"} =>
    t \in rows \/ \E n \in Nat : <<"create", t, n>> \in boot[p].calls

(* Unless calls with two instants met, all have the same; those that wrote  *)
(* the row arm the tick that the row waits for.                            *)
Agreed(t) ==
  t \notin mixed =>
    /\ \A k, l \in ArmingKinds, n, m \in Nat : InFlight(k, t, n) /\ InFlight(l, t, m) => n = m
    /\ \A n \in Nat : InFlight("clear", t, n) \/ InFlight("arm", t, n) => nextRun[t] = n

(* Its tick is missing only while some call is to put one there.            *)
Ticked(t) ==
  t \notin mixed /\ faults = 0 /\ t \in rows =>
    Ticks(t) \/ \E k \in ArmingKinds, n \in Nat : InFlight(k, t, n)

ArmInv == \A t \in Common : Rowed(t) /\ Agreed(t) /\ Ticked(t)

LEMMA ArmNext ==
  ASSUME BootTypeOK, CallsInv, ArmInv, faults \in Nat, BootStep
  PROVE  CallsInv' /\ ArmInv' /\ faults' \in Nat
<1>0. boot \in [Workers -> BootState] /\ nextRun \in [AllTasks -> Nat] /\ clock \in Nat
  BY BootAssumption DEF BootTypeOK, BootState, Kinds
<1>1. \A t \in Common : t \in AllTasks /\ \A p \in Workers : t \in Tasks[p]
  BY DEF Common
<1>2. \A p \in Workers : Tasks[p] \subseteq AllTasks
  BY DEF AllTasks
(* A step of p that touches no schedule, and leaves no call that would arm   *)
(* one.                                                                    *)
<1>3. ASSUME NEW p \in Workers, UNCHANGED <<nextRun, ticks, mixed>>,
             \A q \in Workers \ {p} : boot'[q] = boot[q],
             \A k \in ArmingKinds, t \in AllTasks, n \in Nat : <<k, t, n>> \notin boot'[p].calls,
             \A t \in Tasks[p], n \in Nat :
               <<"untick", t, n>> \notin boot'[p].calls /\ <<"delete", t, n>> \notin boot'[p].calls,
             boot'[p].pc \in {"sync", "prune", "up"} =>
               /\ boot[p].pc \in {"sync", "prune", "up"}
               /\ \A t \in AllTasks, n \in Nat : <<"create", t, n>> \notin boot[p].calls,
             faults' = 0 =>
               /\ faults = 0
               /\ \A k \in ArmingKinds, t \in AllTasks, n \in Nat : <<k, t, n>> \notin boot[p].calls
      PROVE  CallsInv' /\ ArmInv'
  <2>1. CallsInv'
    BY <1>3 DEF CallsInv
  <2>. SUFFICES ASSUME NEW t \in Common PROVE (Rowed(t) /\ Agreed(t) /\ Ticked(t))'
    BY <2>1 DEF ArmInv
  <2>2. t \in AllTasks /\ Rowed(t) /\ Agreed(t) /\ Ticked(t)
    BY <1>1 DEF ArmInv
  <2>3. \A k \in ArmingKinds, n \in Nat : InFlight(k, t, n)' => InFlight(k, t, n)
    BY <1>3, <2>2 DEF InFlight
  <2>4. faults' = 0 => \A k \in ArmingKinds, n \in Nat : InFlight(k, t, n) => InFlight(k, t, n)'
    BY <1>3, <2>2 DEF InFlight
  <2>5. rows' = rows /\ Ticks(t)' = Ticks(t)
    BY <1>3 DEF rows, Ticks
  <2>6. Rowed(t)'
    <3>. SUFFICES ASSUME NEW q \in Workers, boot'[q].pc \in {"sync", "prune", "up"}, t \notin rows
                  PROVE  \E n \in Nat : <<"create", t, n>> \in boot'[q].calls
      BY <2>5 DEF Rowed
    <3>1. CASE q # p
      BY <1>3, <2>2, <3>1 DEF Rowed
    <3>2. CASE q = p
      BY <1>3, <2>2, <3>2 DEF Rowed
    <3>. QED BY <3>1, <3>2
  <2>7. Agreed(t)'
    BY <1>3, <2>2, <2>3 DEF Agreed, ArmingKinds
  <2>8. Ticked(t)'
    BY <1>3, <2>2, <2>4, <2>5 DEF Ticked
  <2>. QED BY <2>6, <2>7, <2>8
<1>4. ASSUME NEW p \in Workers, boot[p].pc \notin {"sync", "up"}
      PROVE  \A k \in ArmingKinds, t \in AllTasks, n \in Nat : <<k, t, n>> \notin boot[p].calls
  BY <1>4 DEF CallsInv
<1>5. ASSUME NEW p \in Workers, Start(p) \/ Fault(p) \/ Unlock(p)
      PROVE  CallsInv' /\ ArmInv' /\ faults' \in Nat
  <2>1. /\ \A q \in Workers \ {p} : boot'[q] = boot[q]
        /\ boot'[p].calls = {} /\ boot'[p].pc \notin {"sync", "prune", "up"}
        /\ UNCHANGED cron
    BY <1>0, <1>5 DEF Start, Fault, Unlock, Off
  <2>2. faults' \in Nat /\ (faults' = faults \/ faults' # 0)
    BY <1>5 DEF Start, Fault, Unlock, bounds
  <2>3. faults' = 0 => faults = 0 /\ boot[p].pc \notin {"sync", "up"}
    BY <1>5, <2>2 DEF Start, Fault, Unlock, At, bounds
  <2>. QED BY <1>3, <1>4, <2>1, <2>2, <2>3 DEF cron
<1>6. ASSUME NEW p \in Workers,
             Probe(p) \/ Lock(p) \/ Migrate(p) \/ Publish(p) \/ Ready(p)
             \/ (Insert(p) /\ boot'[p].pc = "failed")
      PROVE  CallsInv' /\ ArmInv' /\ faults' \in Nat
  <2>1. /\ \A q \in Workers \ {p} : boot'[q] = boot[q]
        /\ boot'[p].calls = boot[p].calls /\ boot[p].pc \notin {"sync", "up"}
        /\ boot'[p].pc \in {"sync", "prune", "up"} => boot[p].pc = "prune"
        /\ UNCHANGED <<nextRun, ticks, mixed, faults>>
    <3>1. CASE Probe(p) \/ Publish(p) \/ Ready(p)
      BY <1>0, <3>1 DEF Probe, Publish, Ready, Goto, At, bounds, cron, BootState
    <3>2. CASE Lock(p)
      BY <1>0, <3>2 DEF Lock, At, bounds, cron, BootState
    <3>3. CASE Migrate(p)
      <4>1. boot' = [boot EXCEPT ![p].step = boot[p].step + 1] \/ boot' = [boot EXCEPT ![p].pc = "failed"]
        BY <3>3 DEF Migrate, Goto
      <4>2. /\ \A q \in Workers \ {p} : boot'[q] = boot[q]
            /\ boot'[p].calls = boot[p].calls /\ boot'[p].pc \in {boot[p].pc, "failed"}
        BY <1>0, <4>1 DEF BootState
      <4>. QED BY <3>3, <4>2 DEF Migrate, At, bounds, cron
    <3>4. CASE Insert(p) /\ boot'[p].pc = "failed"
      BY <1>0, <3>4 DEF Insert, Goto, At, bounds, BootState
    <3>. QED BY <1>6, <3>1, <3>2, <3>3, <3>4
  <2>2. \A k \in ArmingKinds, t \in AllTasks, n \in Nat : <<k, t, n>> \notin boot[p].calls
    BY <1>4, <2>1
  <2>3. \A t \in Tasks[p], n \in Nat :
          <<"untick", t, n>> \notin boot[p].calls /\ <<"delete", t, n>> \notin boot[p].calls
    BY DEF CallsInv
  <2>. QED BY <1>3, <2>1, <2>2, <2>3 DEF ArmingKinds
<1>7. ASSUME NEW p \in Workers, Insert(p), boot'[p].pc # "failed"
      PROVE  CallsInv' /\ ArmInv' /\ faults' \in Nat
  <2>0. PICK next \in Nat : next = clock + 1
    BY <1>0
  <2>. DEFINE made == {"create"} \X Tasks[p] \X {next}
  <2>1. /\ boot' = [boot EXCEPT ![p].pc = "sync", ![p].calls = made]
        /\ mixed' = mixed \cup {t \in Tasks[p] : Clashes(t, next)}
        /\ boot[p].pc = "insert" /\ UNCHANGED <<nextRun, ticks, faults>>
    BY <1>0, <1>7, <2>0 DEF Insert, Goto, At, bounds, BootState
  <2>2. /\ \A q \in Workers \ {p} : boot'[q] = boot[q]
        /\ boot'[p].pc = "sync" /\ boot'[p].calls = made
    <3>. HIDE DEF made
    <3>. QED BY <1>0, <2>1 DEF BootState
  <2>3. CallsInv'
    BY <2>2 DEF CallsInv
  <2>. SUFFICES ASSUME NEW t \in Common PROVE (Rowed(t) /\ Agreed(t) /\ Ticked(t))'
    BY <2>1, <2>3 DEF ArmInv
  <2>4. t \in AllTasks /\ t \in Tasks[p] /\ Rowed(t) /\ Agreed(t) /\ Ticked(t)
    BY <1>1 DEF ArmInv
  <2>5. <<"create", t, next>> \in boot'[p].calls /\ InFlight("create", t, next)'
    <3>1. <<"create", t, next>> \in made
      BY <2>4
    <3>. QED BY <2>2, <3>1 DEF InFlight
  <2>6. Rowed(t)'
    <3>. SUFFICES ASSUME NEW q \in Workers, boot'[q].pc \in {"sync", "prune", "up"}
                  PROVE  t \in rows' \/ \E n \in Nat : <<"create", t, n>> \in boot'[q].calls
      BY DEF Rowed
    <3>1. CASE q # p
      BY <2>1, <2>2, <2>4, <3>1 DEF Rowed, rows
    <3>2. CASE q = p
      BY <2>5, <3>2
    <3>. QED BY <3>1, <3>2
  <2>7. Agreed(t)'
    <3>. SUFFICES ASSUME t \notin mixed'
                  PROVE  /\ \A k, l \in ArmingKinds, n, m \in Nat :
                              InFlight(k, t, n)' /\ InFlight(l, t, m)' => n = m
                         /\ \A n \in Nat : InFlight("clear", t, n)' \/ InFlight("arm", t, n)' =>
                              nextRun'[t] = n
      BY DEF Agreed
    <3>1. t \notin mixed /\ ~Clashes(t, next)
      BY <2>1, <2>4
    <3>2. \A k \in ArmingKinds, n \in Nat : InFlight(k, t, n) => n = next
      BY <3>1 DEF Clashes, InFlight
    <3>3. \A k \in ArmingKinds, n \in Nat :
            InFlight(k, t, n)' => n = next /\ (k # "create" => InFlight(k, t, n))
      BY <2>2, <3>2 DEF InFlight
    <3>4. \A n \in Nat : InFlight("clear", t, n) \/ InFlight("arm", t, n) => nextRun[t] = n
      BY <2>4, <3>1 DEF Agreed
    <3>. QED BY <2>1, <3>3, <3>4 DEF ArmingKinds
  <2>8. Ticked(t)'
    BY <2>5 DEF Ticked, ArmingKinds
  <2>. QED BY <2>6, <2>7, <2>8
<1>8. ASSUME NEW p \in Workers, List(p) PROVE CallsInv' /\ ArmInv' /\ faults' \in Nat
  <2>. DEFINE listed == {"untick"} \X Doomed(p) \X {0}
  <2>1. /\ boot' = [boot EXCEPT ![p].pc = "prune", ![p].calls = listed]
        /\ At(p, "sync") /\ boot[p].calls = {} /\ UNCHANGED <<nextRun, ticks, mixed, faults>>
    BY <1>8 DEF List, bounds, cron
  <2>2. /\ \A q \in Workers \ {p} : boot'[q] = boot[q]
        /\ boot'[p].calls = listed
    <3>. HIDE DEF listed
    <3>. QED BY <1>0, <2>1 DEF BootState
  <2>3. \A t \in Tasks[p], n \in Nat :
          <<"untick", t, n>> \notin boot'[p].calls /\ <<"delete", t, n>> \notin boot'[p].calls
    BY <2>2 DEF Doomed
  <2>4. \A k \in ArmingKinds, t \in AllTasks, n \in Nat : <<k, t, n>> \notin boot'[p].calls
    BY <2>2 DEF ArmingKinds
  <2>. QED BY <1>3, <2>1, <2>2, <2>3, <2>4 DEF At
(* One call of p goes on.                                                  *)
<1>9. ASSUME NEW p \in Workers, NEW call, NEW next, Turn(p, call, next)
      PROVE  /\ \A q \in Workers \ {p} : boot'[q] = boot[q]
             /\ boot'[p].pc = boot[p].pc /\ call \in boot[p].calls
             /\ boot'[p].calls = (boot[p].calls \ {call}) \cup next
             /\ faults' = faults /\ mixed' = mixed
  BY <1>0, <1>9 DEF Turn, BootState, bounds
(* A step that leaves t alone.                                             *)
<1>10. ASSUME NEW t \in Common, faults' = faults, nextRun'[t] = nextRun[t],
              Ticks(t) => Ticks(t)', t \in mixed => t \in mixed',
              \A q \in Workers :
                /\ boot'[q].pc = boot[q].pc
                /\ \A k \in ArmingKinds, n \in Nat :
                     <<k, t, n>> \in boot'[q].calls <=> <<k, t, n>> \in boot[q].calls
       PROVE  (Rowed(t) /\ Agreed(t) /\ Ticked(t))'
  <2>1. t \in AllTasks /\ Rowed(t) /\ Agreed(t) /\ Ticked(t)
    BY <1>1 DEF ArmInv
  <2>2. \A k \in ArmingKinds, n \in Nat : InFlight(k, t, n)' <=> InFlight(k, t, n)
    BY <1>10 DEF InFlight
  <2>3. t \in rows' <=> t \in rows
    BY <1>10 DEF rows
  <2>4. Rowed(t)'
    BY <1>10, <2>1, <2>3 DEF Rowed, ArmingKinds
  <2>5. Agreed(t)'
    BY <1>10, <2>1, <2>2 DEF Agreed, ArmingKinds
  <2>6. Ticked(t)'
    BY <1>10, <2>1, <2>2, <2>3 DEF Ticked
  <2>. QED BY <2>4, <2>5, <2>6
<1>11. ASSUME NEW p \in Workers, NEW u \in AllTasks,
              Create(p, u) \/ Clear(p, u) \/ Arm(p, u) \/ Complete(p, u)
       PROVE  CallsInv' /\ ArmInv' /\ faults' \in Nat
  <2>. DEFINE Calls == SUBSET (ArmingKinds \X AllTasks \X Nat)
  <2>a. /\ {} \in Calls
        /\ \A n \in Nat : {<<"clear", u, n>>} \in Calls /\ {<<"arm", u, n>>} \in Calls
    BY <1>11 DEF ArmingKinds
  <2>. HIDE DEF Calls
  <2>1. PICK k \in ArmingKinds, n \in Nat, next \in Calls :
          /\ n > 0 /\ Turn(p, <<k, u, n>>, next)
          /\ \/ /\ k = "create" /\ next = {<<"clear", u, n>>}
                /\ nextRun' = [nextRun EXCEPT ![u] = n] /\ ticks' = ticks
             \/ /\ k = "complete" /\ u \in rows /\ next = {<<"clear", u, n>>}
                /\ nextRun' = [nextRun EXCEPT ![u] = n] /\ ticks' = ticks
             \/ /\ k = "complete" /\ u \notin rows /\ next = {}
                /\ nextRun' = nextRun /\ ticks' = ticks
             \/ /\ k = "clear" /\ next = {<<"arm", u, n>>}
                /\ nextRun' = nextRun /\ ticks' = Unticked(u)
             \/ /\ k = "arm" /\ next = {}
                /\ nextRun' = nextRun /\ ticks' = ticks \cup {<<u, n>>}
    <3>1. Instants \subseteq Nat /\ \A n \in Instants : n > 0
      BY BootAssumption DEF Instants
    <3>2. CASE Create(p, u)
      BY <3>1, <2>a, <3>2 DEF Create, ArmingKinds
    <3>3. CASE Clear(p, u)
      BY <3>1, <2>a, <3>3 DEF Clear, ArmingKinds
    <3>4. CASE Arm(p, u)
      BY <3>1, <2>a, <3>4 DEF Arm, ArmingKinds
    <3>5. CASE Complete(p, u)
      BY <3>1, <2>a, <3>5 DEF Complete, ArmingKinds
    <3>. QED BY <1>11, <3>2, <3>3, <3>4, <3>5
  <2>2. /\ \A q \in Workers \ {p} : boot'[q] = boot[q]
        /\ boot'[p].pc = boot[p].pc /\ <<k, u, n>> \in boot[p].calls
        /\ boot'[p].calls = (boot[p].calls \ {<<k, u, n>>}) \cup next
        /\ faults' = faults /\ mixed' = mixed
    BY <1>9, <2>1
  <2>3. /\ boot[p].pc \in {"sync", "up"} /\ next \subseteq {<<"clear", u, n>>, <<"arm", u, n>>}
    BY <2>1, <2>2 DEF CallsInv
  <2>4. CallsInv'
    <3>. SUFFICES ASSUME NEW q \in Workers
                  PROVE  /\ \A j \in ArmingKinds, t \in AllTasks, i \in Nat :
                              <<j, t, i>> \in boot'[q].calls =>
                                /\ boot'[q].pc \in {"sync", "up"}
                                /\ j = "create" => boot'[q].pc = "sync"
                         /\ \A t \in Tasks[q], i \in Nat :
                              <<"untick", t, i>> \notin boot'[q].calls
                              /\ <<"delete", t, i>> \notin boot'[q].calls
      BY DEF CallsInv
    <3>1. CASE q # p
      BY <2>2, <3>1 DEF CallsInv
    <3>2. CASE q = p
      BY <2>2, <2>3, <3>2 DEF CallsInv
    <3>. QED BY <3>1, <3>2
  <2>. SUFFICES ASSUME NEW t \in Common PROVE (Rowed(t) /\ Agreed(t) /\ Ticked(t))'
    BY <2>2, <2>4 DEF ArmInv
  <2>5. CASE t # u
    <3>1. nextRun'[t] = nextRun[t] /\ (Ticks(t) => Ticks(t)')
      <4>1. nextRun'[t] = nextRun[t]
        <5>1. nextRun' = nextRun \/ nextRun' = [nextRun EXCEPT ![u] = n]
          BY <2>1
        <5>. QED BY <1>0, <1>1, <2>5, <5>1
      <4>2. \A i : <<t, i>> \in ticks => <<t, i>> \in ticks'
        BY <2>1, <2>5 DEF Unticked
      <4>. QED BY <4>1, <4>2 DEF Ticks
    <3>2. \A q \in Workers :
            /\ boot'[q].pc = boot[q].pc
            /\ \A j \in ArmingKinds, i \in Nat :
                 <<j, t, i>> \in boot'[q].calls <=> <<j, t, i>> \in boot[q].calls
      BY <2>2, <2>3, <2>5
    <3>. QED BY <1>10, <2>2, <3>1, <3>2
  <2>6. CASE t = u
    <3>1. t \in AllTasks /\ Rowed(t) /\ Agreed(t) /\ Ticked(t)
      BY <1>1 DEF ArmInv
    <3>2. InFlight(k, t, n)
      BY <2>2, <2>6 DEF InFlight
    <3>3. ASSUME NEW j \in ArmingKinds, NEW i \in Nat, InFlight(j, t, i)'
          PROVE  InFlight(j, t, i) \/ i = n
      BY <2>2, <2>3, <2>6, <3>3 DEF InFlight
    <3>4. nextRun'[t] \in {nextRun[t], n} /\ (t \in rows => t \in rows')
      BY <1>0, <2>1, <2>6, <3>1 DEF rows
    <3>5. Rowed(t)'
      <4>. SUFFICES ASSUME NEW q \in Workers, boot'[q].pc \in {"sync", "prune", "up"}, t \notin rows'
                    PROVE  \E i \in Nat : <<"create", t, i>> \in boot'[q].calls
        BY DEF Rowed
      <4>1. t \notin rows
        BY <3>4
      <4>2. boot[q].pc \in {"sync", "prune", "up"}
        BY <2>2
      <4>3. PICK i \in Nat : <<"create", t, i>> \in boot[q].calls
        BY <3>1, <4>1, <4>2 DEF Rowed
      <4>4. k # "create"
        BY <1>0, <2>1, <2>6, <3>1 DEF rows
      <4>. QED BY <2>2, <4>3, <4>4
    <3>6. Agreed(t)'
      <4>. SUFFICES ASSUME t \notin mixed
                    PROVE  /\ \A j, l \in ArmingKinds, i, m \in Nat :
                                InFlight(j, t, i)' /\ InFlight(l, t, m)' => i = m
                           /\ \A i \in Nat : InFlight("clear", t, i)' \/ InFlight("arm", t, i)' =>
                                nextRun'[t] = i
        BY <2>2 DEF Agreed
      <4>1. \A j \in ArmingKinds, i \in Nat : InFlight(j, t, i) => i = n
        BY <3>1, <3>2 DEF Agreed
      <4>2. \A j \in ArmingKinds, i \in Nat : InFlight(j, t, i)' => i = n
        BY <3>3, <4>1
      <4>3. ASSUME NEW i \in Nat, InFlight("clear", t, i)' \/ InFlight("arm", t, i)'
            PROVE  nextRun'[t] = i
        <5>1. i = n
          BY <4>2, <4>3 DEF ArmingKinds
        <5>2. CASE nextRun' = [nextRun EXCEPT ![u] = n]
          BY <1>0, <2>6, <3>1, <5>1, <5>2
        <5>3. CASE k \in {"clear", "arm"}
          <6>1. nextRun[t] = n
            BY <3>1, <3>2, <5>3 DEF Agreed
          <6>. QED BY <3>4, <5>1, <6>1
        <5>4. CASE k = "complete" /\ next = {} /\ nextRun' = nextRun
          <6>1. InFlight("clear", t, i) \/ InFlight("arm", t, i)
            BY <2>2, <4>3, <5>4 DEF InFlight
          <6>. QED BY <3>1, <5>4, <6>1 DEF Agreed
        <5>. QED BY <2>1, <5>2, <5>3, <5>4
      <4>. QED BY <4>2, <4>3
    <3>7. Ticked(t)'
      <4>. SUFFICES ASSUME t \notin mixed, faults = 0, t \in rows'
                    PROVE  Ticks(t)' \/ \E j \in ArmingKinds, i \in Nat : InFlight(j, t, i)'
        BY <2>2 DEF Ticked
      <4>1. CASE next = {<<"clear", u, n>>}
        <5>1. InFlight("clear", t, n)'
          BY <2>2, <2>6, <4>1 DEF InFlight
        <5>. QED BY <5>1 DEF ArmingKinds
      <4>2. CASE next = {<<"arm", u, n>>}
        <5>1. InFlight("arm", t, n)'
          BY <2>2, <2>6, <4>2 DEF InFlight
        <5>. QED BY <5>1 DEF ArmingKinds
      <4>3. CASE k = "arm" /\ nextRun' = nextRun /\ ticks' = ticks \cup {<<u, n>>}
        <5>1. nextRun[t] = n
          BY <3>1, <3>2, <4>3 DEF Agreed
        <5>. QED BY <2>6, <4>3, <5>1 DEF Ticks
      <4>4. CASE u \notin rows /\ nextRun' = nextRun
        BY <2>6, <4>4 DEF rows
      <4>. QED BY <2>1, <4>1, <4>2, <4>3, <4>4
    <3>. QED BY <3>5, <3>6, <3>7
  <2>. QED BY <2>5, <2>6
<1>12. ASSUME NEW p \in Workers, NEW u \in AllTasks, Fire(p, u)
       PROVE  CallsInv' /\ ArmInv' /\ faults' \in Nat
  <2>0. PICK n \in 1 .. clock :
          /\ At(p, "up") /\ ticks' = ticks \ {<<u, n>>}
          /\ IF nextRun[u] = n
               THEN /\ boot' = [boot EXCEPT ![p].calls = @ \cup {<<"complete", u, NextRun(n)>>}]
                    /\ mixed' = IF Clashes(u, NextRun(n)) THEN mixed \cup {u} ELSE mixed
               ELSE UNCHANGED <<boot, mixed>>
          /\ UNCHANGED <<nextRun, faults>>
    BY <1>12 DEF Fire, bounds
  <2>2. PICK m \in Nat : m = NextRun(n)
    BY <1>0, <2>0 DEF NextRun
  <2>1. /\ At(p, "up") /\ ticks' = ticks \ {<<u, n>>}
        /\ IF nextRun[u] = n
             THEN /\ boot' = [boot EXCEPT ![p].calls = @ \cup {<<"complete", u, m>>}]
                  /\ mixed' = IF Clashes(u, m) THEN mixed \cup {u} ELSE mixed
             ELSE UNCHANGED <<boot, mixed>>
        /\ UNCHANGED <<nextRun, faults>>
    BY <2>0, <2>2
  <2>. DEFINE new == IF nextRun[u] = n THEN {<<"complete", u, m>>} ELSE {}
  <2>3. /\ \A q \in Workers : boot'[q].pc = boot[q].pc
        /\ \A q \in Workers \ {p} : boot'[q].calls = boot[q].calls
        /\ boot'[p].calls = boot[p].calls \cup new
    <3>. DEFINE call == <<"complete", u, m>>
    <3>1. CASE nextRun[u] = n
      <4>1. boot' = [boot EXCEPT ![p].calls = @ \cup {call}]
        BY <2>1, <3>1
      <4>. HIDE DEF call
      <4>2. /\ \A q \in Workers : boot'[q].pc = boot[q].pc
            /\ \A q \in Workers \ {p} : boot'[q].calls = boot[q].calls
            /\ boot'[p].calls = boot[p].calls \cup {call}
        BY <1>0, <4>1 DEF BootState
      <4>. QED BY <3>1, <4>2 DEF call
    <3>2. CASE nextRun[u] # n
      BY <2>1, <3>2
    <3>. QED BY <3>1, <3>2
  <2>4. CallsInv'
    <3>. SUFFICES ASSUME NEW q \in Workers
                  PROVE  /\ \A j \in ArmingKinds, t \in AllTasks, i \in Nat :
                              <<j, t, i>> \in boot'[q].calls =>
                                /\ boot'[q].pc \in {"sync", "up"}
                                /\ j = "create" => boot'[q].pc = "sync"
                         /\ \A t \in Tasks[q], i \in Nat :
                              <<"untick", t, i>> \notin boot'[q].calls
                              /\ <<"delete", t, i>> \notin boot'[q].calls
      BY DEF CallsInv
    <3>1. CASE q # p
      BY <2>3, <3>1 DEF CallsInv
    <3>2. CASE q = p
      BY <2>1, <2>3, <3>2 DEF CallsInv, At
    <3>. QED BY <3>1, <3>2
  <2>. SUFFICES ASSUME NEW t \in Common PROVE (Rowed(t) /\ Agreed(t) /\ Ticked(t))'
    BY <2>1, <2>4 DEF ArmInv
  <2>5. CASE t # u \/ nextRun[u] # n
    <3>1. Ticks(t) => Ticks(t)'
      BY <2>1, <2>5 DEF Ticks
    <3>2. \A q \in Workers, j \in ArmingKinds, i \in Nat :
            <<j, t, i>> \in boot'[q].calls <=> <<j, t, i>> \in boot[q].calls
      BY <2>3, <2>5
    <3>3. nextRun'[t] = nextRun[t] /\ faults' = faults /\ (t \in mixed => t \in mixed')
      BY <2>1
    <3>. QED BY <1>10, <2>3, <3>1, <3>2, <3>3
  <2>6. CASE t = u /\ nextRun[u] = n
    <3>1. t \in AllTasks /\ Rowed(t) /\ Agreed(t) /\ Ticked(t)
      BY <1>1 DEF ArmInv
    <3>2. InFlight("complete", t, m)'
      BY <2>3, <2>6 DEF InFlight
    <3>3. Rowed(t)'
      BY <2>1, <2>3, <3>1 DEF Rowed, rows
    <3>4. Agreed(t)'
      <4>. SUFFICES ASSUME t \notin mixed'
                    PROVE  /\ \A j, l \in ArmingKinds, i, h \in Nat :
                                InFlight(j, t, i)' /\ InFlight(l, t, h)' => i = h
                           /\ \A i \in Nat : InFlight("clear", t, i)' \/ InFlight("arm", t, i)' =>
                                nextRun'[t] = i
        BY DEF Agreed
      <4>1. t \notin mixed /\ ~Clashes(t, m)
        BY <2>1, <2>6
      <4>2. \A j \in ArmingKinds, i \in Nat : InFlight(j, t, i) => i = m
        BY <4>1 DEF Clashes, InFlight
      <4>3. \A j \in ArmingKinds, i \in Nat :
              InFlight(j, t, i)' => i = m /\ (j # "complete" => InFlight(j, t, i))
        BY <2>3, <4>2 DEF InFlight
      <4>4. \A i \in Nat : InFlight("clear", t, i) \/ InFlight("arm", t, i) => nextRun[t] = i
        BY <3>1, <4>1 DEF Agreed
      <4>. QED BY <2>1, <4>3, <4>4 DEF ArmingKinds
    <3>5. Ticked(t)'
      BY <2>2, <3>2 DEF Ticked, ArmingKinds
    <3>. QED BY <3>3, <3>4, <3>5
  <2>. QED BY <2>5, <2>6
<1>13. ASSUME NEW p \in Workers, NEW u \in AllTasks, Untick(p, u) \/ Delete(p, u)
       PROVE  CallsInv' /\ ArmInv' /\ faults' \in Nat
  <2>1. PICK k \in {"untick", "delete"}, next \in {{}, {<<"delete", u, 0>>}} :
          /\ Turn(p, <<k, u, 0>>, next)
          /\ \A t \in AllTasks \ {u} : nextRun'[t] = nextRun[t]
          /\ ticks' = ticks \/ ticks' = Unticked(u)
    BY <1>0, <1>13 DEF Untick, Delete
  <2>2. /\ \A q \in Workers \ {p} : boot'[q] = boot[q]
        /\ boot'[p].pc = boot[p].pc /\ <<k, u, 0>> \in boot[p].calls
        /\ boot'[p].calls = (boot[p].calls \ {<<k, u, 0>>}) \cup next
        /\ faults' = faults /\ mixed' = mixed
    BY <1>9, <2>1
  <2>3. u \notin Tasks[p] /\ u \notin Common
    BY <1>1, <2>1, <2>2 DEF CallsInv
  <2>4. \A q \in Workers :
          /\ boot'[q].pc = boot[q].pc
          /\ \A j \in ArmingKinds, t \in AllTasks, i \in Nat :
               <<j, t, i>> \in boot'[q].calls <=> <<j, t, i>> \in boot[q].calls
    BY <2>1, <2>2 DEF ArmingKinds
  <2>5. CallsInv'
    <3>. SUFFICES ASSUME NEW q \in Workers, NEW t \in Tasks[q], NEW i \in Nat
                  PROVE  <<"untick", t, i>> \notin boot'[q].calls /\ <<"delete", t, i>> \notin boot'[q].calls
      BY <2>4 DEF CallsInv
    <3>1. CASE q # p
      BY <2>2, <3>1 DEF CallsInv
    <3>2. CASE q = p
      BY <2>1, <2>2, <2>3, <3>2 DEF CallsInv
    <3>. QED BY <3>1, <3>2
  <2>. SUFFICES ASSUME NEW t \in Common PROVE (Rowed(t) /\ Agreed(t) /\ Ticked(t))'
    BY <2>2, <2>5 DEF ArmInv
  <2>6. t \in AllTasks /\ t # u
    BY <1>1, <2>3
  <2>7. nextRun'[t] = nextRun[t] /\ (Ticks(t) => Ticks(t)')
    BY <2>1, <2>6 DEF Ticks, Unticked
  <2>. QED BY <1>10, <2>2, <2>4, <2>6, <2>7
<1>14. ASSUME Elapse PROVE CallsInv' /\ ArmInv' /\ faults' \in Nat
  <2>1. UNCHANGED <<boot, nextRun, ticks, mixed, faults>>
    BY <1>14 DEF Elapse, bounds
  <2>. QED BY <2>1 DEF CallsInv, ArmInv, Rowed, Agreed, Ticked, InFlight, Ticks, rows
<1>. QED BY <1>5, <1>6, <1>7, <1>8, <1>11, <1>12, <1>13, <1>14 DEF BootStep

(* Whatever boots at once, and with whatever tasks of their own, beside any  *)
(* workers that fire what falls due: a task that all workers carry keeps its *)
(* row once one is up, and the tick of the row's instant is there whenever   *)
(* no boot and no fire is in progress and no boot was cut short, unless two  *)
(* of them were arming it at once for different instants.                   *)
THEOREM CommonArmedCorrect == Spec => []CommonArmed
<1>1. Init => CallsInv /\ ArmInv /\ faults \in Nat
  <2>. SUFFICES ASSUME BootInit PROVE CallsInv /\ ArmInv /\ faults \in Nat
    BY DEF Init
  <2>1. \A p \in Workers : boot[p].pc = "off" /\ boot[p].calls = {}
    BY DEF BootInit, Off
  <2>2. rows = {}
    BY DEF BootInit, rows
  <2>. QED BY <2>1, <2>2 DEF BootInit, CallsInv, ArmInv, Rowed, Agreed, Ticked, InFlight
<1>2. BootTypeOK /\ CallsInv /\ ArmInv /\ faults \in Nat /\ [Next]_vars
      => (CallsInv /\ ArmInv /\ faults \in Nat)'
  <2>. SUFFICES ASSUME BootTypeOK, CallsInv, ArmInv, faults \in Nat, [Next]_vars
                PROVE  CallsInv' /\ ArmInv' /\ faults' \in Nat
    OBVIOUS
  <2>1. CASE UNCHANGED bootVars
    <3>1. UNCHANGED <<boot, nextRun, ticks, mixed, faults>>
      BY <2>1 DEF bootVars
    <3>. QED BY <3>1 DEF CallsInv, ArmInv, Rowed, Agreed, Ticked, InFlight, Ticks, rows
  <2>2. CASE BootStep
    BY <2>2, ArmNext
  <2>. QED BY <2>1, <2>2, BootSteps
<1>3. BootTypeOK /\ CallsInv /\ ArmInv => CommonArmed
  <2>. SUFFICES ASSUME CallsInv, ArmInv, NEW p \in Up, NEW t \in Common
                PROVE  /\ t \in rows
                       /\ (\A q \in Workers : boot[q].calls = {}) /\ faults = 0 /\ t \notin mixed => Ticks(t)
    BY DEF CommonArmed
  <2>1. p \in Workers /\ boot[p].pc = "up" /\ t \in AllTasks
    BY DEF Up, At, Common
  <2>2. t \in rows
    BY <2>1 DEF CallsInv, ArmInv, Rowed, ArmingKinds
  <2>3. (\A q \in Workers : boot[q].calls = {}) => \A k \in ArmingKinds, n \in Nat : ~InFlight(k, t, n)
    BY DEF InFlight
  <2>. QED BY <2>2, <2>3 DEF ArmInv, Ticked
<1>4. Migrated => BootTypeOK
  BY DEF Migrated
<1>. QED BY <1>1, <1>2, <1>3, <1>4, MigratedCorrect, PTL DEF Spec

-----------------------------------------------------------------------------
(* The limiter.                                                            *)

(* A line is sent once; whoever waits for a flush is in the chain, once, and *)
(* nothing is inserted for nobody.                                         *)
ChainInv ==
  /\ \A a \in Attempts : unsent[a] <= written[a]
  /\ \A i \in DOMAIN chain : chain[i] \in Attempts => at[chain[i]] = "flushing"
  /\ \A i, j \in DOMAIN chain : chain[i] = chain[j] /\ chain[i] \in Attempts => i = j
  /\ flight # {} => chain # <<>>

(* What Counted says of the counter and the queue, and nobody waits twice.   *)
LimiterInv ==
  /\ active = Cardinality(Holding)
  /\ In("waiting") = {waiting[i] : i \in DOMAIN waiting}
  /\ \A i, j \in DOMAIN waiting : waiting[i] = waiting[j] => i = j
  /\ Len(waiting) = Cardinality(In("waiting"))
  /\ waiting # <<>> => active + Cardinality(In("woken")) >= MaxActive

Rows == Attempts \X (0 .. MaxLines + 1)

LEMMA LifeTypeNext ==
  ASSUME LifeTypeOK, ChainInv, LimiterInv,
         LifeStep,
         active' \in Nat
  PROVE  LifeTypeOK' /\ ChainInv'
<1>. USE LifeAssumption
<1>1. /\ at \in [Attempts -> {"idle", "waiting", "woken", "running", "draining", "flushing",
                              "ending", "done"}]
      /\ waiting \in Seq(Attempts) /\ chain \in Seq(Attempts \cup {"timer"})
      /\ written \in [Attempts -> 0 .. MaxLines] /\ unsent \in [Attempts -> 0 .. MaxLines]
      /\ buffer \subseteq Rows /\ flight \subseteq Rows /\ saved \subseteq Rows
      /\ owed \in [Attempts -> SUBSET Rows]
  BY DEF LifeTypeOK, Rows
<1>2. ASSUME NEW a \in Attempts, Take(a) \/ Wait(a) \/ Resume(a) \/ Release(a)
      PROVE  LifeTypeOK' /\ ChainInv'
  <2>1. UNCHANGED <<written, unsent, spans, shutdown, losses>>
    BY <1>2 DEF Take, Wait, Resume, Release
  <2>2. waiting # <<>> => Head(waiting) \in In("waiting") /\ Tail(waiting) \in Seq(Attempts)
    <3>. SUFFICES ASSUME waiting # <<>>
                  PROVE  Head(waiting) \in In("waiting") /\ Tail(waiting) \in Seq(Attempts)
      OBVIOUS
    <3>1. 1 \in DOMAIN waiting /\ Head(waiting) = waiting[1] /\ Tail(waiting) \in Seq(Attempts)
      BY <1>1
    <3>. QED BY <3>1 DEF LimiterInv
  <2>3. /\ at' \in [Attempts -> {"idle", "waiting", "woken", "running", "draining", "flushing",
                                 "ending", "done"}]
        /\ \A b \in Attempts : at[b] = "flushing" => at'[b] = "flushing"
        /\ waiting' \in Seq(Attempts)
    <3>0. CASE Take(a) \/ Resume(a)
      BY <1>1, <3>0 DEF Take, Resume, Move
    <3>1. CASE Wait(a)
      <4>1. waiting' = Append(waiting, a) /\ at[a] = "idle" /\ at' = [at EXCEPT ![a] = "waiting"]
        BY <3>1 DEF Wait, Move
      <4>2. waiting' \in Seq(Attempts)
        BY <1>1, <4>1
      <4>. QED BY <1>1, <4>1, <4>2
    <3>2. CASE Release(a) /\ waiting = <<>>
      BY <1>1, <3>2 DEF Release
    <3>3. CASE Release(a) /\ waiting # <<>>
      BY <1>1, <2>2, <3>3 DEF Release, In
    <3>. QED BY <1>2, <3>0, <3>1, <3>2, <3>3
  <2>4. LifeTypeOK'
    BY <2>1, <2>3 DEF LifeTypeOK, spans, shutdown
  <2>. QED BY <2>1, <2>3, <2>4 DEF ChainInv, spans
<1>3. ASSUME NEW a \in Attempts, Log(a) \/ Send(a) PROVE LifeTypeOK' /\ ChainInv'
  <2>1. UNCHANGED <<at, limiter, spans, shutdown, losses>>
    BY <1>3 DEF Log, Send
  <2>2. /\ written' \in [Attempts -> 0 .. MaxLines] /\ unsent' \in [Attempts -> 0 .. MaxLines]
        /\ \A b \in Attempts : unsent'[b] <= written'[b]
    <3>1. \A b \in Attempts : /\ unsent[b] \in Nat /\ written[b] \in Nat /\ unsent[b] <= written[b]
                              /\ written[b] <= MaxLines
      BY <1>1 DEF ChainInv
    <3>2. CASE Log(a)
      BY <1>1, <3>1, <3>2 DEF Log
    <3>3. CASE Send(a)
      BY <1>1, <3>1, <3>3 DEF Send
    <3>. QED BY <1>3, <3>2, <3>3
  <2>. QED BY <2>1, <2>2 DEF LifeTypeOK, ChainInv, limiter, spans, shutdown
<1>4. ASSUME NEW a \in Attempts, Return(a) PROVE LifeTypeOK' /\ ChainInv'
  <2>1. /\ at' \in [Attempts -> {"idle", "waiting", "woken", "running", "draining", "flushing",
                                 "ending", "done"}]
        /\ \A b \in Attempts : at[b] = "flushing" => at'[b] = "flushing"
    BY <1>1, <1>4 DEF Return, Move
  <2>. QED BY <1>4, <2>1 DEF Return, LifeTypeOK, ChainInv, limiter, spans, shutdown
<1>5. ASSUME NEW a \in Attempts, EndOwnSpan(a) PROVE LifeTypeOK' /\ ChainInv'
  <2>1. buffer' \subseteq Rows
    BY <1>1, <1>5 DEF EndOwnSpan, Buffered, Rows
  <2>2. UNCHANGED <<at, limiter, written, unsent, chain, flight, saved, owed, shutdown, losses>>
        /\ ended' \subseteq Attempts
    BY <1>5 DEF EndOwnSpan, LifeTypeOK
  <2>3. LifeTypeOK'
    BY <2>1, <2>2 DEF LifeTypeOK, Rows, limiter, shutdown
  <2>. QED BY <2>2, <2>3 DEF ChainInv
<1>6. ASSUME NEW a \in Attempts, EndSpan(a) PROVE LifeTypeOK' /\ ChainInv'
  <2>1. buffer' \subseteq Rows /\ owed' \in [Attempts -> SUBSET Rows]
    <3>1. {a} \X (0 .. written[a]) \subseteq Rows
      <4>1. 0 .. written[a] \subseteq 0 .. MaxLines + 1
        BY <1>1
      <4>. QED BY <4>1 DEF Rows
    <3>2. buffer' \subseteq Rows
      BY <1>1, <1>6, <3>1 DEF EndSpan, Buffered
    <3>3. Of(a, buffer' \cup flight) \subseteq Rows
      BY <1>1, <3>2 DEF Of
    <3>. QED BY <1>1, <1>6, <3>2, <3>3 DEF EndSpan
  <2>2. /\ at' \in [Attempts -> {"idle", "waiting", "woken", "running", "draining", "flushing",
                                 "ending", "done"}]
        /\ at[a] = "draining" /\ at' = [at EXCEPT ![a] = "flushing"] /\ chain' = Append(chain, a)
    BY <1>1, <1>6 DEF EndSpan, Move
  <2>3. UNCHANGED <<limiter, written, unsent, ended, flight, saved, shutdown, losses>>
    BY <1>6 DEF EndSpan
  <2>. DEFINE Askers == Attempts \cup {"timer"}
  <2>a. chain \in Seq(Askers) /\ a \in Askers
    BY <1>1
  <2>. HIDE DEF Askers
  <2>b. /\ chain' \in Seq(Askers) /\ chain' # <<>> /\ Len(chain') = Len(chain) + 1
        /\ \A i \in 1 .. Len(chain) : chain'[i] = chain[i]
        /\ chain'[Len(chain) + 1] = a
    BY <2>a, <2>2, AppendProperties
  <2>4. chain' \in Seq(Attempts \cup {"timer"}) /\ chain' # <<>>
    BY <2>b DEF Askers
  <2>5. LifeTypeOK'
    BY <2>1, <2>2, <2>3, <2>4, ZenonT(40) DEF LifeTypeOK, Rows, limiter, shutdown
  <2>6. \A i \in DOMAIN chain' : \/ i \in DOMAIN chain /\ chain'[i] = chain[i]
                                 \/ i = Len(chain) + 1 /\ chain'[i] = a
    <3>1. /\ Len(chain) \in Nat /\ DOMAIN chain = 1 .. Len(chain)
          /\ DOMAIN chain' = 1 .. Len(chain) + 1 /\ chain'[Len(chain) + 1] = a
          /\ \A i \in 1 .. Len(chain) : chain'[i] = chain[i]
      BY <2>a, <2>b
    <3>. QED BY <3>1
  <2>7. \A i \in DOMAIN chain : chain[i] # a
    BY <2>2 DEF ChainInv
  <2>8. \A i \in DOMAIN chain' : chain'[i] \in Attempts => at'[chain'[i]] = "flushing"
    BY <1>1, <2>2, <2>6 DEF ChainInv
  <2>9. \A i, j \in DOMAIN chain' : chain'[i] = chain'[j] /\ chain'[i] \in Attempts => i = j
    BY <2>6, <2>7 DEF ChainInv
  <2>. QED BY <2>3, <2>4, <2>5, <2>8, <2>9 DEF ChainInv
<1>7. ASSUME Tick PROVE LifeTypeOK' /\ ChainInv'
  <2>1. chain' = Append(chain, "timer") /\ chain' \in Seq(Attempts \cup {"timer"}) /\ chain' # <<>>
    BY <1>1, <1>7, SMTT(30) DEF Tick
  <2>2. UNCHANGED <<at, limiter, written, unsent, ended, buffer, flight, saved, owed, shutdown,
                    losses>>
    BY <1>7 DEF Tick
  <2>3. \A i \in DOMAIN chain' : \/ i \in DOMAIN chain /\ chain'[i] = chain[i]
                                 \/ chain'[i] \notin Attempts
    BY <1>1, <2>1
  <2>. QED BY <2>1, <2>2, <2>3 DEF LifeTypeOK, ChainInv, limiter, shutdown
<1>8. ASSUME Flushed, chain # <<>>
      PROVE  /\ chain' \in Seq(Attempts \cup {"timer"})
             /\ at' \in [Attempts -> {"idle", "waiting", "woken", "running", "draining", "flushing",
                                     "ending", "done"}]
             /\ \A i \in DOMAIN chain' : chain'[i] \in Attempts => at'[chain'[i]] = "flushing"
             /\ \A i, j \in DOMAIN chain' : chain'[i] = chain'[j] /\ chain'[i] \in Attempts => i = j
  <2>1. chain' = Tail(chain) /\ chain' \in Seq(Attempts \cup {"timer"}) /\ Head(chain) = chain[1]
        /\ 1 \in DOMAIN chain
    BY <1>1, <1>8 DEF Flushed
  <2>2. \A i \in DOMAIN chain' : i + 1 \in DOMAIN chain /\ chain'[i] = chain[i + 1] /\ i + 1 # 1
                                /\ i \in Nat
    BY <1>1, <1>8, <2>1
  <2>3. at' = [a \in Attempts |-> IF a = chain[1] THEN "ending" ELSE at[a]]
    BY <1>8, <2>1 DEF Flushed
  <2>4. \A i \in DOMAIN chain' : chain'[i] \in Attempts => at'[chain'[i]] = "flushing"
    BY <2>1, <2>2, <2>3 DEF ChainInv
  <2>5. \A i, j \in DOMAIN chain' : chain'[i] = chain'[j] /\ chain'[i] \in Attempts => i = j
    BY <2>2 DEF ChainInv
  <2>. QED BY <1>1, <2>1, <2>3, <2>4, <2>5
<1>9. ASSUME Flush PROVE LifeTypeOK' /\ ChainInv'
  <2>1. /\ flight' = buffer /\ buffer' = {} /\ chain # <<>>
        /\ UNCHANGED <<limiter, written, unsent, ended, saved, owed, shutdown, losses>>
    BY <1>9 DEF Flush
  <2>2. CASE buffer = {}
    <3>1. Flushed
      BY <1>9, <2>2 DEF Flush
    <3>2. /\ chain' \in Seq(Attempts \cup {"timer"})
          /\ at' \in [Attempts -> {"idle", "waiting", "woken", "running", "draining", "flushing",
                                  "ending", "done"}]
          /\ \A i \in DOMAIN chain' : chain'[i] \in Attempts => at'[chain'[i]] = "flushing"
          /\ \A i, j \in DOMAIN chain' : chain'[i] = chain'[j] /\ chain'[i] \in Attempts => i = j
      BY <1>8, <2>1, <3>1
    <3>3. LifeTypeOK'
      BY <2>1, <2>2, <3>2, SMTT(30) DEF LifeTypeOK, limiter, shutdown
    <3>4. ChainInv'
      BY <2>1, <2>2, <3>2 DEF ChainInv
    <3>. QED BY <3>3, <3>4
  <2>3. CASE buffer # {}
    BY <1>9, <2>1, <2>3, ZenonT(40) DEF Flush, LifeTypeOK, ChainInv, limiter, shutdown
  <2>. QED BY <2>2, <2>3
<1>10. ASSUME Inserted PROVE LifeTypeOK' /\ ChainInv'
  <2>1. /\ chain # <<>> /\ Flushed /\ flight' = {} /\ saved' \subseteq saved \cup flight
        /\ losses' \in 0 .. MaxLosses
        /\ UNCHANGED <<limiter, written, unsent, ended, buffer, owed, shutdown>>
    BY <1>10, SMTT(30) DEF Inserted, LifeTypeOK, ChainInv
  <2>2. saved' \subseteq Rows /\ flight' \subseteq Rows
    BY <1>1, <2>1
  <2>3. at' \in [Attempts -> {"idle", "waiting", "woken", "running", "draining", "flushing",
                              "ending", "done"}]
        /\ chain' \in Seq(Attempts \cup {"timer"})
    BY <1>8, <2>1
  <2>4. LifeTypeOK'
    BY <2>1, <2>2, <2>3 DEF LifeTypeOK, Rows, limiter, shutdown
  <2>5. ChainInv'
    <3>1. \A i \in DOMAIN chain' : chain'[i] \in Attempts => at'[chain'[i]] = "flushing"
      BY <1>8, <2>1
    <3>2. \A i, j \in DOMAIN chain' : chain'[i] = chain'[j] /\ chain'[i] \in Attempts => i = j
      BY <1>8, <2>1
    <3>. QED BY <2>1, <3>1, <3>2 DEF ChainInv
  <2>. QED BY <2>4, <2>5
<1>11. ASSUME Signal \/ Again \/ HookEnds \/ HookExpires \/ ConsumersClose \/ WorldCloses
       PROVE  LifeTypeOK' /\ ChainInv'
  <2>1. /\ stage' \in {"serving", "hook", "consumers", "world", "exited"}
        /\ hook' \in {"none", "running", "abandoned", "done"}
        /\ failed' \in BOOLEAN /\ exit' \in {"none", "clean", "error", "forced"}
        /\ losses' \in 0 .. MaxLosses
    <3>1. CASE Signal \/ Again
      BY <3>1 DEF Signal, Again, LifeTypeOK
    <3>2. CASE HookEnds \/ HookExpires
      BY <3>2 DEF HookEnds, HookExpires, LifeTypeOK
    <3>3. CASE ConsumersClose
      <4>1. losses \in Nat /\ MaxLosses \in Nat /\ losses <= MaxLosses
        BY DEF LifeTypeOK
      <4>2. losses' \in 0 .. MaxLosses
        BY <3>3, <4>1 DEF ConsumersClose
      <4>3. failed' \in BOOLEAN
        BY <3>3 DEF ConsumersClose, LifeTypeOK
      <4>4. stage' = "world" /\ UNCHANGED <<hook, exit>>
        BY <3>3 DEF ConsumersClose
      <4>. QED BY <4>2, <4>3, <4>4 DEF LifeTypeOK
    <3>4. CASE WorldCloses
      BY <3>4 DEF WorldCloses, LifeTypeOK
    <3>. QED BY <1>11, <3>1, <3>2, <3>3, <3>4
  <2>2. UNCHANGED <<at, limiter, written, unsent, spans>>
    BY <1>11 DEF Signal, Again, HookEnds, HookExpires, ConsumersClose, WorldCloses
  <2>. QED BY <2>1, <2>2 DEF LifeTypeOK, ChainInv, limiter, spans
<1>. QED BY <1>2, <1>3, <1>4, <1>5, <1>6, <1>7, <1>9, <1>10, <1>11 DEF LifeStep

LEMMA LimiterNext ==
  ASSUME LifeTypeOK, ChainInv, LimiterInv,
         LifeStep
  PROVE  LimiterInv' /\ active' \in Nat
<1>. DEFINE Slots == {"running", "draining", "flushing", "ending"}
            Woken == In("woken")
            Waits == In("waiting")
<1>1. /\ at \in [Attempts -> {"idle", "waiting", "woken", "running", "draining", "flushing",
                              "ending", "done"}]
      /\ waiting \in Seq(Attempts) /\ active \in Nat
  BY DEF LifeTypeOK
<1>2. /\ IsFiniteSet(Holding) /\ IsFiniteSet(Woken) /\ IsFiniteSet(Waits)
      /\ Cardinality(Holding) \in Nat /\ Cardinality(Woken) \in Nat /\ Cardinality(Waits) \in Nat
      /\ MaxActive \in Nat
  <2>1. Holding \in SUBSET Attempts /\ Woken \in SUBSET Attempts /\ Waits \in SUBSET Attempts
    BY DEF Holding, In
  <2>2. IsFiniteSet(Holding) /\ IsFiniteSet(Woken) /\ IsFiniteSet(Waits)
    BY <2>1, LifeAssumption, FS_Subset
  <2>. QED BY <2>2, FS_CardinalityType, LifeAssumption
<1>3. /\ active = Cardinality(Holding)
      /\ Waits = {waiting[i] : i \in DOMAIN waiting}
      /\ \A i, j \in DOMAIN waiting : waiting[i] = waiting[j] => i = j
      /\ Len(waiting) = Cardinality(Waits)
      /\ waiting # <<>> => active + Cardinality(Woken) >= MaxActive
  BY DEF LimiterInv
<1>4. ASSUME UNCHANGED limiter,
             \A b \in Attempts : at'[b] = at[b] \/ (at[b] \in Slots /\ at'[b] \in Slots)
      PROVE  LimiterInv' /\ active' \in Nat
  <2>1. Holding' = Holding /\ In("woken")' = Woken /\ In("waiting")' = Waits
    BY <1>4 DEF Holding, In
  <2>2. waiting' = waiting /\ active' = active
    BY <1>4 DEF limiter
  <2>. QED BY <1>1, <1>3, <2>1, <2>2 DEF LimiterInv
<1>5. ASSUME NEW a \in Attempts, Take(a) PROVE LimiterInv' /\ active' \in Nat
  <2>1. at[a] = "idle" /\ at' = [at EXCEPT ![a] = "running"] /\ active' = active + 1
        /\ waiting' = waiting
    BY <1>5 DEF Take, Move
  <2>2. Holding' = Holding \cup {a} /\ a \notin Holding /\ In("woken")' = Woken
        /\ In("waiting")' = Waits
    BY <1>1, <2>1 DEF Holding, In
  <2>3. Cardinality(Holding') = Cardinality(Holding) + 1
    BY <1>2, <2>2, FS_AddElement
  <2>. QED BY <1>1, <1>2, <1>3, <2>1, <2>2, <2>3 DEF LimiterInv
<1>6. ASSUME NEW a \in Attempts, Wait(a) PROVE LimiterInv' /\ active' \in Nat
  <2>1. at[a] = "idle" /\ at' = [at EXCEPT ![a] = "waiting"] /\ active' = active
        /\ waiting' = Append(waiting, a) /\ active >= MaxActive
    BY <1>6 DEF Wait, Move
  <2>2. Holding' = Holding /\ In("woken")' = Woken /\ In("waiting")' = Waits \cup {a} /\ a \notin Waits
    BY <1>1, <2>1 DEF Holding, In
  <2>3. Cardinality(In("waiting")') = Cardinality(Waits) + 1
    BY <1>2, <2>2, FS_AddElement
  <2>4. /\ Len(waiting) \in Nat /\ DOMAIN waiting = 1 .. Len(waiting)
        /\ DOMAIN waiting' = 1 .. Len(waiting) + 1 /\ waiting'[Len(waiting) + 1] = a
        /\ Len(waiting') = Len(waiting) + 1
        /\ \A i \in 1 .. Len(waiting) : waiting'[i] = waiting[i]
    BY <1>1, <2>1
  <2>5. In("waiting")' = {waiting'[i] : i \in DOMAIN waiting'}
    BY <1>3, <2>2, <2>4
  <2>6. \A i, j \in DOMAIN waiting' : waiting'[i] = waiting'[j] => i = j
    BY <1>3, <2>2, <2>4
  <2>7. active' + Cardinality(In("woken")') >= MaxActive
    BY <1>1, <1>2, <2>1, <2>2
  <2>. QED BY <1>1, <1>3, <2>1, <2>2, <2>3, <2>4, <2>5, <2>6, <2>7 DEF LimiterInv
<1>7. ASSUME NEW a \in Attempts, Resume(a) PROVE LimiterInv' /\ active' \in Nat
  <2>1. at[a] = "woken" /\ at' = [at EXCEPT ![a] = "running"] /\ active' = active + 1
        /\ waiting' = waiting
    BY <1>7 DEF Resume, Move
  <2>2. /\ Holding' = Holding \cup {a} /\ a \notin Holding
        /\ In("woken")' = Woken \ {a} /\ a \in Woken /\ In("waiting")' = Waits
    BY <1>1, <2>1 DEF Holding, In
  <2>3. Cardinality(Holding') = Cardinality(Holding) + 1
        /\ Cardinality(In("woken")') = Cardinality(Woken) - 1
    BY <1>2, <2>2, FS_AddElement, FS_RemoveElement, ZenonT(40)
  <2>. QED BY <1>1, <1>2, <1>3, <2>1, <2>2, <2>3 DEF LimiterInv
<1>8. ASSUME NEW a \in Attempts, Release(a) PROVE LimiterInv' /\ active' \in Nat
  <2>1. at[a] = "ending" /\ a \in Holding /\ active' = active - 1
    BY <1>8 DEF Release, Holding
  <2>2. Cardinality(Holding \ {a}) = Cardinality(Holding) - 1 /\ IsFiniteSet(Holding \ {a})
    BY <1>2, <2>1, FS_RemoveElement
  <2>3. active' \in Nat /\ active' = Cardinality(Holding \ {a})
    BY <1>3, <2>1, <2>2, FS_CardinalityType
  <2>4. CASE waiting = <<>>
    <3>1. at' = [at EXCEPT ![a] = "done"] /\ waiting' = waiting
      BY <1>8, <2>4 DEF Release
    <3>2. Holding' = Holding \ {a} /\ In("waiting")' = Waits
      BY <1>1, <2>1, <3>1 DEF Holding, In
    <3>. QED BY <1>3, <2>3, <2>4, <3>1, <3>2 DEF LimiterInv
  <2>5. CASE waiting # <<>>
    <3>. DEFINE h == waiting[1]
    <3>1. /\ Head(waiting) = h /\ Len(waiting) \in Nat /\ DOMAIN waiting = 1 .. Len(waiting)
          /\ 1 \in DOMAIN waiting
      BY <1>1, <2>5
    <3>2. /\ at' = [at EXCEPT ![a] = "done", ![h] = "woken"]
          /\ waiting' = Tail(waiting)
      BY <1>8, <2>5, <3>1 DEF Release
    <3>3. h \in Waits /\ h \in Attempts /\ at[h] = "waiting" /\ h # a
      <4>1. h \in Waits
        BY <1>3, <3>1
      <4>. QED BY <2>1, <4>1 DEF In
    <3>4. /\ Holding' = Holding \ {a} /\ In("waiting")' = Waits \ {h}
          /\ In("woken")' = Woken \cup {h} /\ h \notin Woken
      BY <1>1, <2>1, <3>2, <3>3 DEF Holding, In
    <3>5. /\ Cardinality(In("waiting")') = Cardinality(Waits) - 1
          /\ Cardinality(In("woken")') = Cardinality(Woken) + 1
      <4>1. Cardinality(Waits \ {h}) = Cardinality(Waits) - 1
        BY <1>2, <3>3, FS_RemoveElement
      <4>2. Cardinality(Woken \cup {h}) = Cardinality(Woken) + 1
        BY <1>2, <3>4, FS_AddElement
      <4>. QED BY <3>4, <4>1, <4>2
    <3>6. /\ Len(waiting') = Len(waiting) - 1 /\ DOMAIN waiting' = 1 .. Len(waiting) - 1
          /\ \A i \in 1 .. Len(waiting) - 1 : waiting'[i] = waiting[i + 1]
      BY <1>1, <2>5, <3>1, <3>2
    <3>7. \A i, j \in DOMAIN waiting' : waiting'[i] = waiting'[j] => i = j
      <4>. SUFFICES ASSUME NEW i \in DOMAIN waiting', NEW j \in DOMAIN waiting',
                           waiting'[i] = waiting'[j]
                    PROVE  i = j
        OBVIOUS
      <4>1. i + 1 \in DOMAIN waiting /\ j + 1 \in DOMAIN waiting /\ i \in Nat /\ j \in Nat
            /\ waiting[i + 1] = waiting[j + 1]
        BY <3>1, <3>6
      <4>2. i + 1 = j + 1
        BY <1>3, <4>1
      <4>. QED BY <4>1, <4>2
    <3>8. In("waiting")' = {waiting'[i] : i \in DOMAIN waiting'}
      <4>1. ASSUME NEW i \in DOMAIN waiting' PROVE waiting'[i] \in Waits \ {h}
        <5>1. i + 1 \in DOMAIN waiting /\ i + 1 # 1 /\ waiting'[i] = waiting[i + 1]
          BY <3>1, <3>6, <4>1
        <5>. QED BY <1>3, <3>1, <5>1
      <4>2. ASSUME NEW w \in Waits \ {h} PROVE \E i \in DOMAIN waiting' : waiting'[i] = w
        <5>1. PICK k \in DOMAIN waiting : waiting[k] = w
          BY <1>3, <4>2
        <5>2. k # 1
          BY <4>2, <5>1
        <5>3. k - 1 \in DOMAIN waiting' /\ waiting'[k - 1] = w
          BY <3>1, <3>6, <5>1, <5>2
        <5>. QED BY <5>3
      <4>. QED BY <3>4, <4>1, <4>2
    <3>9. active' + Cardinality(In("woken")') >= MaxActive
      BY <1>1, <1>2, <1>3, <2>1, <2>5, <3>5
    <3>. QED BY <1>3, <2>3, <3>1, <3>4, <3>5, <3>6, <3>7, <3>8, <3>9 DEF LimiterInv
  <2>. QED BY <2>4, <2>5
<1>9. ASSUME NEW a \in Attempts, Log(a) \/ Send(a) \/ EndOwnSpan(a)
      PROVE  LimiterInv' /\ active' \in Nat
  BY <1>4, <1>9 DEF Log, Send, EndOwnSpan
<1>10. ASSUME NEW a \in Attempts, Return(a) \/ EndSpan(a) PROVE LimiterInv' /\ active' \in Nat
  <2>1. UNCHANGED limiter
    BY <1>10 DEF Return, EndSpan
  <2>2. \A b \in Attempts : at'[b] = at[b] \/ (at[b] \in Slots /\ at'[b] \in Slots)
    BY <1>1, <1>10 DEF Return, EndSpan, Move
  <2>. QED BY <1>4, <2>1, <2>2
<1>11. ASSUME Flush \/ Inserted PROVE LimiterInv' /\ active' \in Nat
  <2>1. UNCHANGED limiter /\ chain # <<>> /\ (Flushed \/ at' = at)
    BY <1>11 DEF Flush, Inserted, ChainInv
  <2>2. chain \in Seq(Attempts \cup {"timer"})
    BY DEF LifeTypeOK
  <2>3. Head(chain) = chain[1] /\ 1 \in DOMAIN chain
    BY <2>1, <2>2
  <2>4. \A b \in Attempts : at'[b] = at[b] \/ (at[b] \in Slots /\ at'[b] \in Slots)
    BY <1>1, <2>1, <2>3 DEF Flushed, ChainInv
  <2>. QED BY <1>4, <2>1, <2>4
<1>12. ASSUME Tick \/ Signal \/ Again \/ HookEnds \/ HookExpires \/ ConsumersClose \/ WorldCloses
       PROVE  LimiterInv' /\ active' \in Nat
  BY <1>4, <1>12
  DEF Tick, Signal, Again, HookEnds, HookExpires, ConsumersClose, WorldCloses
<1>. QED BY <1>5, <1>6, <1>7, <1>8, <1>9, <1>10, <1>11, <1>12 DEF LifeStep

LEMMA LifeCorrect == Spec => [](LifeTypeOK /\ ChainInv /\ LimiterInv)
<1>1. Init => LifeTypeOK /\ ChainInv /\ LimiterInv
  <2>. SUFFICES ASSUME LifeInit PROVE LifeTypeOK /\ ChainInv /\ LimiterInv
    BY DEF Init
  <2>. USE LifeAssumption DEF LifeInit
  <2>1. LifeTypeOK /\ ChainInv
    <3>1. chain \in Seq(Attempts \cup {"timer"}) /\ waiting \in Seq(Attempts)
          /\ \A i \in DOMAIN chain : FALSE
      OBVIOUS
    <3>2. /\ at \in [Attempts -> {"idle", "waiting", "woken", "running", "draining", "flushing",
                                  "ending", "done"}]
          /\ written \in [Attempts -> 0 .. MaxLines] /\ unsent \in [Attempts -> 0 .. MaxLines]
          /\ \A a \in Attempts : unsent[a] <= written[a]
      OBVIOUS
    <3>3. /\ active \in Nat /\ ended \subseteq Attempts /\ losses \in 0 .. MaxLosses
          /\ \A B \in {buffer, flight, saved} : B \subseteq Attempts \X (0 .. MaxLines + 1)
          /\ owed \in [Attempts -> SUBSET (Attempts \X (0 .. MaxLines + 1))]
      OBVIOUS
    <3>4. /\ stage \in {"serving", "hook", "consumers", "world", "exited"}
          /\ hook \in {"none", "running", "abandoned", "done"}
          /\ failed \in BOOLEAN /\ exit \in {"none", "clean", "error", "forced"}
          /\ flight = {}
      OBVIOUS
    <3>. QED BY <3>1, <3>2, <3>3, <3>4 DEF LifeTypeOK, ChainInv
  <2>2. Holding = {} /\ In("waiting") = {} /\ waiting = <<>> /\ active = 0
    BY DEF Holding, In
  <2>3. Cardinality({}) = 0
    BY FS_EmptySet
  <2>4. Len(waiting) = 0 /\ \A i \in DOMAIN waiting : FALSE
    BY <2>2
  <2>5. {waiting[i] : i \in DOMAIN waiting} = {}
    BY <2>4
  <2>6. active = Cardinality(Holding) /\ Len(waiting) = Cardinality(In("waiting"))
    BY <2>2, <2>3, <2>4
  <2>7. In("waiting") = {waiting[i] : i \in DOMAIN waiting}
    BY <2>2, <2>5
  <2>. QED BY <2>1, <2>2, <2>4, <2>6, <2>7 DEF LimiterInv
<1>2. LifeTypeOK /\ ChainInv /\ LimiterInv /\ [Next]_vars => (LifeTypeOK /\ ChainInv /\ LimiterInv)'
  <2>. SUFFICES ASSUME LifeTypeOK, ChainInv, LimiterInv, [Next]_vars
                PROVE  (LifeTypeOK /\ ChainInv /\ LimiterInv)'
    OBVIOUS
  <2>1. CASE UNCHANGED lifeVars
    <3>1. UNCHANGED <<at, active, waiting>> /\ Holding' = Holding
          /\ In("waiting")' = In("waiting") /\ In("woken")' = In("woken")
      BY <2>1 DEF lifeVars, limiter, Holding, In
    <3>2. LimiterInv'
      BY <3>1 DEF LimiterInv
    <3>3. LifeTypeOK' /\ ChainInv'
      BY <2>1 DEF lifeVars, limiter, spans, shutdown, LifeTypeOK, ChainInv
    <3>. QED BY <3>2, <3>3
  <2>2. CASE LifeStep
    <3>1. LimiterInv' /\ active' \in Nat
      BY <2>2, LimiterNext
    <3>. QED BY <2>2, <3>1, LifeTypeNext
  <2>. QED BY <2>1, <2>2, LifeSteps
<1>. QED BY <1>1, <1>2, PTL DEF Spec

(* However attempts, releases and woken waiters interleave, the limiter's    *)
(* counter and its queue are what they stand for, and no slot stays free     *)
(* beside a waiter that nobody has woken.                                  *)
THEOREM CountedCorrect == Spec => []Counted
<1>1. LifeTypeOK /\ LimiterInv => Counted
  BY DEF LimiterInv, Counted
<1>. QED BY <1>1, LifeCorrect, PTL
-----------------------------------------------------------------------------
(* What an attempt leaves behind.                                          *)

Begun == {"flushing", "ending", "done"}

(* The rows an attempt owed are in the buffer, in flight or saved unless an  *)
(* insert failed; the flush it waits for takes them all, because its rows    *)
(* are buffered before it asks, and no row of its own comes twice.          *)
SpanInv ==
  /\ \A a \in Attempts : at[a] \in Begun =>
       unsent[a] = 0 /\ (losses = 0 => owed[a] \subseteq buffer \cup flight \cup saved)
  /\ \A a \in Attempts : at[a] \in {"ending", "done"} => owed[a] \cap (buffer \cup flight) = {}
  /\ \A a \in Attempts : chain # <<>> /\ flight # {} /\ chain[1] = a => owed[a] \cap buffer = {}
  /\ \A a \in Attempts : \A r \in owed[a] : r[1] = a
  /\ \A a \in Attempts : at[a] \notin Begun => owed[a] = {}
  /\ \A a \in Attempts \ ended : <<a, MaxLines + 1>> \notin buffer \cup flight \cup owed[a]

(* A close that meets no error finds every attempt settled, and nothing is   *)
(* claimed after it.                                                       *)
ExitInv ==
  /\ exit = "clean" => stage = "exited"
  /\ exit = "clean" \/ (stage = "world" /\ ~failed) =>
       \A a \in Attempts : at[a] \in {"idle", "done"}

LEMMA SpanNext ==
  ASSUME LifeTypeOK, ChainInv, LimiterInv, SpanInv, LifeTypeOK', LifeStep
  PROVE  SpanInv'
<1>. USE DEF Begun
<1>1. /\ at \in [Attempts -> {"idle", "waiting", "woken", "running", "draining", "flushing",
                              "ending", "done"}]
      /\ waiting \in Seq(Attempts) /\ chain \in Seq(Attempts \cup {"timer"})
      /\ written \in [Attempts -> 0 .. MaxLines] /\ unsent \in [Attempts -> 0 .. MaxLines]
      /\ buffer \subseteq Rows /\ flight \subseteq Rows /\ saved \subseteq Rows
      /\ owed \in [Attempts -> SUBSET Rows]
  BY DEF LifeTypeOK, Rows
<1>0. MaxLines \in Nat /\ losses \in Nat /\ losses' \in Nat
  BY LifeAssumption DEF LifeTypeOK
<1>2. ASSUME UNCHANGED <<unsent, spans>>, losses' = losses \/ losses' = losses + 1,
             \A b \in Attempts : \/ at'[b] = at[b]
                                 \/ at[b] \notin Begun /\ at'[b] \notin Begun
                                 \/ at[b] = "ending" /\ at'[b] = "done"
      PROVE  SpanInv'
  <2>1. \A b \in Attempts : /\ at'[b] \in Begun <=> at[b] \in Begun
                            /\ at'[b] \in {"ending", "done"} => at[b] \in {"ending", "done"}
    BY <1>2
  <2>2. losses' = 0 => losses = 0
    BY <1>0, <1>2
  <2>. QED BY <1>2, <2>1, <2>2 DEF SpanInv, spans
<1>3. ASSUME NEW a \in Attempts, Take(a) \/ Wait(a) \/ Resume(a) \/ Return(a)
      PROVE  SpanInv'
  BY <1>1, <1>2, <1>3 DEF Take, Wait, Resume, Return, Move
<1>4. ASSUME NEW a \in Attempts, Release(a) PROVE SpanInv'
  <2>1. CASE waiting = <<>>
    BY <1>1, <1>2, <1>4, <2>1 DEF Release
  <2>2. CASE waiting # <<>>
    <3>1. Head(waiting) = waiting[1] /\ 1 \in DOMAIN waiting
      BY <1>1, <2>2
    <3>2. Head(waiting) \in In("waiting")
      BY <3>1 DEF LimiterInv
    <3>3. Head(waiting) \in Attempts /\ at[Head(waiting)] = "waiting"
      BY <3>2 DEF In
    <3>. QED BY <1>1, <1>2, <1>4, <2>2, <3>3 DEF Release
  <2>. QED BY <2>1, <2>2
<1>5. ASSUME NEW a \in Attempts, Log(a) \/ Send(a) PROVE SpanInv'
  <2>1. UNCHANGED <<at, spans, losses>>
    BY <1>5 DEF Log, Send
  <2>2. \A b \in Attempts : at[b] \in Begun => unsent'[b] = unsent[b]
    BY <1>1, <1>5 DEF Log, Send, SpanInv
  <2>. QED BY <2>1, <2>2 DEF SpanInv, spans
<1>6. ASSUME NEW a \in Attempts, EndOwnSpan(a) PROVE SpanInv'
  <2>. DEFINE r == <<a, MaxLines + 1>>
  <2>1. /\ a \notin ended /\ ended' = ended \cup {a}
        /\ buffer \subseteq buffer' /\ buffer' \subseteq buffer \cup {r}
        /\ UNCHANGED <<at, unsent, chain, flight, saved, owed, losses>>
    BY <1>6 DEF EndOwnSpan, Buffered
  <2>2. \A b \in Attempts : r \notin owed[b]
    BY <2>1 DEF SpanInv
  <2>3. \A b \in Attempts : owed[b] \cap buffer' = owed[b] \cap buffer
    BY <2>1, <2>2
  <2>4. \A b \in Attempts \ ended' : <<b, MaxLines + 1>> \notin buffer' \cup flight' \cup owed'[b]
    BY <2>1 DEF SpanInv
  <2>. QED BY <2>1, <2>3, <2>4 DEF SpanInv
<1>7. ASSUME NEW a \in Attempts, EndSpan(a) PROVE SpanInv'
  <2>. DEFINE mine == {a} \X (0 .. written[a])
  <2>1. /\ at[a] = "draining" /\ at' = [at EXCEPT ![a] = "flushing"] /\ unsent[a] = 0
        /\ buffer \subseteq buffer' /\ buffer' \subseteq buffer \cup mine
        /\ owed' = [owed EXCEPT ![a] = Of(a, buffer' \cup flight)]
        /\ chain' = Append(chain, a)
        /\ UNCHANGED <<unsent, ended, flight, saved, losses>>
    BY <1>7 DEF EndSpan, Move, Buffered
  <2>2. /\ owed'[a] = {r \in buffer' \cup flight : r[1] = a}
        /\ \A b \in Attempts \ {a} : owed'[b] = owed[b] /\ at'[b] = at[b]
        /\ at'[a] = "flushing"
    BY <1>1, <2>1 DEF Of
  <2>3. \A b \in Attempts \ {a} : owed'[b] \cap buffer' = owed[b] \cap buffer
    BY <2>1, <2>2 DEF SpanInv
  <2>4. chain # <<>> => chain' # <<>> /\ chain'[1] = chain[1] /\ chain[1] # a
    <3>. SUFFICES ASSUME chain # <<>> PROVE chain' # <<>> /\ chain'[1] = chain[1] /\ chain[1] # a
      OBVIOUS
    <3>a. a \in Attempts \cup {"timer"} /\ 1 \in 1 .. Len(chain) /\ 1 \in DOMAIN chain
      BY <1>1
    <3>1. chain' # <<>> /\ chain'[1] = chain[1]
      BY <1>1, <2>1, <3>a, AppendProperties
    <3>2. chain[1] # a
      BY <2>1, <3>a DEF ChainInv
    <3>. QED BY <3>1, <3>2
  <2>5. flight # {} => chain # <<>>
    BY DEF ChainInv
  <2>6. \A b \in Attempts : chain' # <<>> /\ flight' # {} /\ chain'[1] = b => owed'[b] \cap buffer' = {}
    BY <2>1, <2>2, <2>3, <2>4, <2>5 DEF SpanInv
  <2>7. \A b \in Attempts \ ended' : <<b, MaxLines + 1>> \notin buffer' \cup flight' \cup owed'[b]
    <3>1. \A b \in Attempts : <<b, MaxLines + 1>> \notin mine
      BY <1>0, <1>1
    <3>. QED BY <2>1, <2>2, <3>1 DEF SpanInv
  <2>8. \A b \in Attempts : at'[b] \in Begun =>
          unsent'[b] = 0 /\ (losses' = 0 => owed'[b] \subseteq buffer' \cup flight' \cup saved')
    BY <2>1, <2>2 DEF SpanInv
  <2>9. \A b \in Attempts : at'[b] \in {"ending", "done"} => owed'[b] \cap (buffer' \cup flight') = {}
    BY <2>1, <2>2, <2>3 DEF SpanInv
  <2>10. \A b \in Attempts : /\ \A r \in owed'[b] : r[1] = b
                             /\ at'[b] \notin Begun => owed'[b] = {}
    BY <2>2 DEF SpanInv
  <2>. QED BY <2>6, <2>7, <2>8, <2>9, <2>10 DEF SpanInv
<1>8. ASSUME Tick PROVE SpanInv'
  <2>1. /\ chain' = Append(chain, "timer")
        /\ UNCHANGED <<at, unsent, ended, buffer, flight, saved, owed, losses>>
    BY <1>8 DEF Tick
  <2>2. flight # {} => chain # <<>> /\ chain'[1] = chain[1]
    BY <1>1, <2>1 DEF ChainInv
  <2>. QED BY <2>1, <2>2 DEF SpanInv
<1>9. ASSUME Flushed, chain # <<>>
      PROVE  \A b \in Attempts : /\ at'[b] = at[b] \/ (at[b] = "flushing" /\ at'[b] = "ending")
                                 /\ at'[b] # at[b] => chain[1] = b
  <2>1. Head(chain) = chain[1] /\ 1 \in DOMAIN chain
    BY <1>1, <1>9
  <2>. QED BY <1>1, <1>9, <2>1 DEF Flushed, ChainInv
<1>10. ASSUME Flush PROVE SpanInv'
  <2>1. /\ flight = {} /\ flight' = buffer /\ buffer' = {} /\ chain # <<>>
        /\ UNCHANGED <<unsent, ended, saved, owed, losses>>
    BY <1>10 DEF Flush
  <2>2. CASE buffer = {}
    <3>1. \A b \in Attempts : at'[b] = at[b] \/ (at[b] = "flushing" /\ at'[b] = "ending")
      BY <1>9, <1>10, <2>1, <2>2 DEF Flush
    <3>2. \A b \in Attempts : at'[b] \in Begun <=> at[b] \in Begun
      BY <3>1
    <3>. QED BY <2>1, <2>2, <3>2 DEF SpanInv
  <2>3. CASE buffer # {}
    BY <1>10, <2>1, <2>3 DEF Flush, SpanInv
  <2>. QED BY <2>2, <2>3
<1>11. ASSUME Inserted PROVE SpanInv'
  <2>1. /\ flight # {} /\ flight' = {} /\ chain # <<>> /\ Flushed
        /\ \/ saved' = saved \cup flight /\ losses' = losses
           \/ losses' = losses + 1
        /\ UNCHANGED <<unsent, ended, buffer, owed>>
    BY <1>11 DEF Inserted, ChainInv
  <2>2. losses' = 0 => losses = 0 /\ saved' = saved \cup flight
    BY <1>0, <2>1
  <2>3. \A b \in Attempts : /\ at'[b] = at[b] \/ (at[b] = "flushing" /\ at'[b] = "ending")
                            /\ at'[b] # at[b] => chain[1] = b
    BY <1>9, <2>1
  <2>4. \A b \in Attempts : at'[b] \in {"ending", "done"} => owed'[b] \cap (buffer' \cup flight') = {}
    BY <2>1, <2>3 DEF SpanInv
  <2>5. \A b \in Attempts : at'[b] \in Begun =>
          unsent'[b] = 0 /\ (losses' = 0 => owed'[b] \subseteq buffer' \cup flight' \cup saved')
    BY <2>1, <2>2, <2>3 DEF SpanInv
  <2>6. \A b \in Attempts : /\ \A r \in owed'[b] : r[1] = b
                            /\ at'[b] \notin Begun => owed'[b] = {}
    BY <2>1, <2>3 DEF SpanInv
  <2>. QED BY <2>1, <2>4, <2>5, <2>6 DEF SpanInv
<1>12. ASSUME Signal \/ Again \/ HookEnds \/ HookExpires \/ ConsumersClose \/ WorldCloses
       PROVE  SpanInv'
  BY <1>2, <1>12 DEF Signal, Again, HookEnds, HookExpires, ConsumersClose, WorldCloses
<1>. QED BY <1>3, <1>4, <1>5, <1>6, <1>7, <1>8, <1>10, <1>11, <1>12 DEF LifeStep

LEMMA ExitNext ==
  ASSUME LifeTypeOK, ChainInv, ExitInv,
         LifeStep
  PROVE  ExitInv'
<1>1. /\ at \in [Attempts -> {"idle", "waiting", "woken", "running", "draining", "flushing",
                              "ending", "done"}]
      /\ chain \in Seq(Attempts \cup {"timer"}) /\ failed \in BOOLEAN
  BY DEF LifeTypeOK
<1>2. ASSUME UNCHANGED shutdown,
             (\A a \in Attempts : at[a] \in {"idle", "done"}) /\ ~Claims => at' = at
      PROVE  ExitInv'
  BY <1>2 DEF ExitInv, shutdown, Claims
<1>3. ASSUME NEW a \in Attempts, \/ Take(a) \/ Wait(a) \/ Resume(a) \/ Release(a) \/ Log(a)
                                 \/ Send(a) \/ Return(a) \/ EndOwnSpan(a) \/ EndSpan(a)
      PROVE  ExitInv'
  <2>1. CASE Take(a) \/ Wait(a)
    BY <1>2, <2>1 DEF Take, Wait
  <2>2. CASE Resume(a) \/ Release(a) \/ Return(a) \/ EndSpan(a)
    BY <1>2, <2>2 DEF Resume, Release, Return, EndSpan, Move
  <2>3. CASE Log(a) \/ Send(a) \/ EndOwnSpan(a)
    BY <1>2, <2>3 DEF Log, Send, EndOwnSpan
  <2>. QED BY <1>3, <2>1, <2>2, <2>3
<1>4. ASSUME Tick \/ Flush \/ Inserted PROVE ExitInv'
  <2>1. UNCHANGED shutdown /\ (at' = at \/ (Flushed /\ chain # <<>>))
    BY <1>4 DEF Tick, Flush, Inserted, ChainInv
  <2>2. ASSUME Flushed, chain # <<>>, \A a \in Attempts : at[a] \in {"idle", "done"}
        PROVE  at' = at
    <3>1. Head(chain) = chain[1] /\ 1 \in DOMAIN chain
      BY <1>1, <2>2
    <3>2. Head(chain) \notin Attempts
      BY <2>2, <3>1 DEF ChainInv
    <3>. QED BY <1>1, <2>2, <3>2 DEF Flushed
  <2>. QED BY <1>2, <2>1, <2>2
<1>5. ASSUME Signal \/ Again \/ HookEnds \/ HookExpires PROVE ExitInv'
  BY <1>5 DEF Signal, Again, HookEnds, HookExpires, Alive, ExitInv
<1>6. ASSUME ConsumersClose PROVE ExitInv'
  <2>1. stage' = "world" /\ stage = "consumers" /\ UNCHANGED <<at, exit>>
        /\ (failed' = TRUE \/ \A a \in Attempts : at[a] \in {"idle", "done"})
    BY <1>6 DEF ConsumersClose
  <2>2. exit # "clean"
    BY <2>1 DEF ExitInv
  <2>. QED BY <2>1, <2>2 DEF ExitInv
<1>7. ASSUME WorldCloses PROVE ExitInv'
  BY <1>7 DEF WorldCloses, ExitInv
<1>. QED BY <1>3, <1>4, <1>5, <1>6, <1>7 DEF LifeStep

(* However flushes of attempts and of the timer are chained and fail: what    *)
(* an attempt logged and traced is out of the process when it settles, and a *)
(* process that ends by itself leaves no attempt half way.                  *)
THEOREM SettledCorrect == Spec => []Settled
<1>1. Init => SpanInv /\ ExitInv
  <2>. SUFFICES ASSUME LifeInit PROVE SpanInv /\ ExitInv
    BY DEF Init
  <2>. QED BY DEF LifeInit, SpanInv, ExitInv, Begun
<1>2. (LifeTypeOK /\ ChainInv /\ LimiterInv) /\ (LifeTypeOK /\ ChainInv /\ LimiterInv)'
      /\ SpanInv /\ ExitInv /\ [Next]_vars => (SpanInv /\ ExitInv)'
  <2>. SUFFICES ASSUME LifeTypeOK, ChainInv, LimiterInv, LifeTypeOK', SpanInv, ExitInv, [Next]_vars
                PROVE  SpanInv' /\ ExitInv'
    OBVIOUS
  <2>1. CASE UNCHANGED lifeVars
    BY <2>1 DEF lifeVars, spans, shutdown, SpanInv, ExitInv, Begun
  <2>2. CASE LifeStep
    BY <2>2, SpanNext, ExitNext
  <2>. QED BY <2>1, <2>2, LifeSteps
<1>3. SpanInv /\ ExitInv => Settled
  <2>1. ASSUME SpanInv, NEW a \in Attempts, at[a] \in {"ending", "done"}
        PROVE  /\ unsent[a] = 0
               /\ owed[a] \cap (buffer \cup flight) = {}
               /\ losses = 0 => owed[a] \subseteq saved
    BY <2>1 DEF SpanInv, Begun
  <2>. QED BY <2>1 DEF ExitInv, Settled
<1>. QED BY <1>1, <1>2, <1>3, LifeCorrect, PTL DEF Spec

-----------------------------------------------------------------------------
(* The CLI and its workers.                                                *)

Worker == [is : {"booting", "serving", "stopping", "gone"}, read : 0 .. Unread]

(* Each command has its own states; dev counts its signals by them, and the  *)
(* child it names is one that it has not told to stop.                     *)
CommandInv ==
  /\ noticed <= sources
  /\ command = "start" =>
       /\ Len(workers) = 1 /\ awaited = {} /\ ~timer /\ ~disturbed
       /\ cli \in {"polling", "ready", "exited"}
       /\ cli = "exited" => workers[1].is = "gone"
  /\ command = "dev" =>
       /\ cli \in {"looking", "watching", "closing", "exited"}
       /\ cli \in {"looking", "watching"} => signals = 0
       /\ cli = "closing" => signals = 1
  /\ cli = "looking" => noticed = 0 /\ ~timer /\ awaited = {}
  /\ cli \in {"looking", "watching"} /\ child # 0 => workers[child].is \in {"booting", "serving"}

(* As long as nothing has overlapped, dev has its child and nothing else, or *)
(* waits for the one it has told to stop.                                  *)
OneInv ==
  command = "dev" /\ ~disturbed =>
    \/ /\ awaited = {} /\ Left \subseteq {child} /\ cli # "closing"
       /\ cli = "exited" => Left = {}
    \/ \E w \in DOMAIN workers :
         /\ awaited = {[of |-> w, next |-> IF cli = "closing" THEN "exit" ELSE "spawn"]}
         /\ child = 0 /\ cli \in {"watching", "closing"}
         /\ Left = {w} /\ workers[w].is = "stopping"

LEMMA SpawnFacts ==
  ASSUME workers \in Seq(Worker), NEW rest \in Seq(Worker), Len(rest) = Len(workers),
         workers' = Append(rest, Spawned)
  PROVE  /\ workers' \in Seq(Worker) /\ Len(workers') = Len(workers) + 1 /\ Len(workers') \in Nat
         /\ \A w \in 1 .. Len(workers) : workers'[w] = rest[w]
         /\ workers'[Len(workers')] = Spawned
         /\ DOMAIN workers' = DOMAIN workers \cup {Len(workers')}
         /\ DOMAIN workers = 1 .. Len(workers)
<1>1. Spawned \in Worker
  BY SupervisorAssumption DEF Spawned, Worker, Unread
<1>. QED BY <1>1, AppendProperties

LEMMA SupervisorTypeNext ==
  ASSUME SupervisorTypeOK, CommandInv, SupervisorStep
  PROVE  SupervisorTypeOK'
<1>1. /\ workers \in Seq(Worker) /\ Len(workers) \in Nat /\ DOMAIN workers = 1 .. Len(workers)
      /\ child \in 0 .. Len(workers)
      /\ awaited \subseteq [of : 1 .. Len(workers), next : {"spawn", "exit"}]
      /\ sources \in 0 .. MaxEdits /\ noticed \in 0 .. MaxEdits /\ MaxEdits \in Nat
      /\ signals \in 0 .. 2 /\ timer \in BOOLEAN /\ disturbed \in BOOLEAN
  BY SupervisorAssumption DEF SupervisorTypeOK, Worker
<1>. DEFINE Rest == /\ command' \in {"dev", "start"}
                    /\ cli' \in {"looking", "watching", "closing", "polling", "ready", "exited"}
                    /\ sources' \in 0 .. MaxEdits /\ noticed' \in 0 .. MaxEdits
                    /\ signals' \in 0 .. 2 /\ timer' \in BOOLEAN /\ disturbed' \in BOOLEAN
<1>2. ASSUME Rest, workers' \in Seq(Worker), Len(workers') \in Nat, Len(workers) <= Len(workers'),
             child' \in 0 .. Len(workers'),
             awaited' \subseteq [of : 1 .. Len(workers'), next : {"spawn", "exit"}]
      PROVE  SupervisorTypeOK'
  BY <1>2 DEF SupervisorTypeOK, Worker
<1>3. Rest
  <2>1. CASE \E w \in DOMAIN workers : Load(w) \/ Crash(w) \/ Gone(w)
    BY <1>1, <2>1 DEF Load, Crash, Gone, SupervisorTypeOK
  <2>2. CASE Watch \/ Healthy \/ GiveUp \/ Exit
    BY <1>1, <2>2 DEF Watch, Healthy, GiveUp, Exit, SupervisorTypeOK
  <2>3. CASE Edit
    <3>1. sources' \in 0 .. MaxEdits /\ (noticed' = sources' \/ noticed' = noticed)
      BY <1>1, <2>3 DEF Edit
    <3>2. timer' = TRUE \/ timer' = timer
      BY <2>3 DEF Edit
    <3>3. UNCHANGED <<command, cli, signals, disturbed>>
      BY <2>3 DEF Edit
    <3>. QED BY <1>1, <3>1, <3>2, <3>3 DEF SupervisorTypeOK
  <2>4. CASE Restart
    BY <1>1, <2>4 DEF Restart, SupervisorTypeOK
  <2>5. CASE Close
    <3>1. signals \in {0, 1}
      BY <2>5 DEF Close, CommandInv
    <3>2. signals' \in 0 .. 2
      BY <2>5, <3>1 DEF Close
    <3>3. disturbed' \in BOOLEAN /\ timer' = FALSE /\ cli' \in {"closing", "exited"}
      BY <2>5 DEF Close
    <3>4. UNCHANGED <<command, sources, noticed>>
      BY <2>5 DEF Close
    <3>. QED BY <1>1, <3>2, <3>3, <3>4 DEF SupervisorTypeOK
  <2>6. CASE Forward
    BY <1>1, <2>6 DEF Forward, SupervisorTypeOK
  <2>. QED BY <2>1, <2>2, <2>3, <2>4, <2>5, <2>6 DEF SupervisorStep
(* A worker changes, none is spawned.                                      *)
<1>4. ASSUME NEW w \in DOMAIN workers, NEW worker \in Worker,
             workers' = [workers EXCEPT ![w] = worker]
      PROVE  workers' \in Seq(Worker) /\ Len(workers') = Len(workers)
  BY <1>1, <1>4
<1>5. ASSUME Spawn, UNCHANGED awaited PROVE SupervisorTypeOK'
  <2>1. workers' = Append(workers, Spawned) /\ child' = Len(workers')
    BY <1>5 DEF Spawn
  <2>2. workers' \in Seq(Worker) /\ Len(workers') = Len(workers) + 1 /\ Len(workers') \in Nat
    BY <1>1, <2>1, SpawnFacts
  <2>3. awaited' \subseteq [of : 1 .. Len(workers'), next : {"spawn", "exit"}]
    BY <1>1, <1>5, <2>2
  <2>. QED BY <1>1, <1>2, <1>3, <2>1, <2>2, <2>3
<1>6. ASSUME NEW next \in {"spawn", "exit"}, Stopping(next), child # 0 PROVE SupervisorTypeOK'
  <2>1. workers' \in Seq(Worker) /\ Len(workers') = Len(workers)
    <3>1. CASE child \in Left
      <4>1. child \in DOMAIN workers /\ workers' = [workers EXCEPT ![child] = [@ EXCEPT !.is = "stopping"]]
        BY <1>6, <3>1 DEF Stopping, Left
      <4>2. workers[child] \in Worker
        BY <1>1, <4>1
      <4>3. [workers[child] EXCEPT !.is = "stopping"] \in Worker
        BY <4>2 DEF Worker
      <4>. QED BY <1>4, <4>1, <4>3
    <3>2. CASE child \notin Left
      BY <1>1, <1>6, <3>2 DEF Stopping
    <3>. QED BY <3>1, <3>2
  <2>2. child' = 0 /\ awaited' = awaited \cup {[of |-> child, next |-> next]}
    BY <1>6 DEF Stopping
  <2>3. awaited' \subseteq [of : 1 .. Len(workers'), next : {"spawn", "exit"}]
    BY <1>1, <1>6, <2>1, <2>2
  <2>. QED BY <1>1, <1>2, <1>3, <2>1, <2>2, <2>3
<1>7. ASSUME NEW w \in DOMAIN workers, Load(w) \/ Crash(w) PROVE SupervisorTypeOK'
  <2>1. workers[w] \in Worker
    BY <1>1
  <2>2. \E worker \in Worker : workers' = [workers EXCEPT ![w] = worker]
    <3>0. sources \in 0 .. Unread
      BY <1>1 DEF Unread
    <3>1. [is |-> "serving", read |-> sources] \in Worker /\ [workers[w] EXCEPT !.is = "gone"] \in Worker
      BY <2>1, <3>0 DEF Worker
    <3>. QED BY <1>7, <3>1 DEF Load, Crash
  <2>3. workers' \in Seq(Worker) /\ Len(workers') = Len(workers)
    BY <1>4, <2>2
  <2>4. child' \in 0 .. Len(workers) /\ UNCHANGED awaited
    BY <1>1, <1>7 DEF Load, Crash
  <2>. QED BY <1>1, <1>2, <1>3, <2>3, <2>4
<1>8. ASSUME NEW w \in DOMAIN workers, Gone(w) PROVE SupervisorTypeOK'
  <2>. DEFINE rest == [workers EXCEPT ![w].is = "gone"]
  <2>1. rest \in Seq(Worker) /\ Len(rest) = Len(workers)
    <3>1. workers[w] \in Worker
      BY <1>1
    <3>2. [workers[w] EXCEPT !.is = "gone"] \in Worker
      BY <3>1 DEF Worker
    <3>. QED BY <1>1, <3>2
  <2>2. awaited' \subseteq awaited
    BY <1>8 DEF Gone
  <2>3. CASE workers' = Append(rest, Spawned) /\ child' = Len(workers')
    <3>1. workers' \in Seq(Worker) /\ Len(workers') = Len(workers) + 1 /\ Len(workers') \in Nat
      BY <1>1, <2>1, <2>3, SpawnFacts
    <3>2. awaited' \subseteq [of : 1 .. Len(workers'), next : {"spawn", "exit"}]
      BY <1>1, <2>2, <3>1
    <3>. QED BY <1>1, <1>2, <1>3, <2>3, <3>1, <3>2
  <2>4. CASE workers' = rest /\ UNCHANGED child
    <3>1. awaited' \subseteq [of : 1 .. Len(workers'), next : {"spawn", "exit"}]
      BY <1>1, <2>1, <2>2, <2>4
    <3>. QED BY <1>1, <1>2, <1>3, <2>1, <2>4, <3>1
  <2>. QED BY <1>8, <2>3, <2>4 DEF Gone
<1>9. ASSUME UNCHANGED <<workers, child, awaited>> PROVE SupervisorTypeOK'
  BY <1>1, <1>2, <1>3, <1>9
<1>10. ASSUME GiveUp \/ Forward PROVE SupervisorTypeOK'
  <2>1. 1 \in DOMAIN workers
    BY <1>1, <1>10 DEF GiveUp, Forward, CommandInv, SupervisorTypeOK
  <2>2. workers[1] \in Worker
    BY <1>1, <2>1
  <2>3. \A is \in {"gone", "stopping"} : [workers[1] EXCEPT !.is = is] \in Worker
    BY <2>2 DEF Worker
  <2>4. \E is \in {"gone", "stopping"} : workers' = [workers EXCEPT ![1] = [workers[1] EXCEPT !.is = is]]
    BY <1>10 DEF GiveUp, Forward
  <2>5. workers' \in Seq(Worker) /\ Len(workers') = Len(workers) /\ UNCHANGED <<child, awaited>>
    BY <1>4, <1>10, <2>1, <2>3, <2>4 DEF GiveUp, Forward
  <2>. QED BY <1>1, <1>2, <1>3, <2>5
<1>11. CASE Watch \/ Edit \/ Healthy \/ Exit
  BY <1>9, <1>11 DEF Watch, Edit, Healthy, Exit
<1>12. CASE Restart
  BY <1>5, <1>6, <1>12 DEF Restart
<1>13. CASE Close
  BY <1>6, <1>9, <1>13 DEF Close
<1>. QED BY <1>7, <1>8, <1>10, <1>11, <1>12, <1>13 DEF SupervisorStep
(* What a step makes of the worker that dev names.                         *)
LEMMA SupervisorNext ==
  ASSUME SupervisorTypeOK, CommandInv, UpToDate, SupervisorStep, SupervisorTypeOK'
  PROVE  CommandInv' /\ UpToDate'
<1>1. /\ workers \in Seq(Worker) /\ Len(workers) \in Nat /\ DOMAIN workers = 1 .. Len(workers)
      /\ child \in 0 .. Len(workers)
      /\ sources \in Nat /\ noticed \in Nat /\ noticed <= MaxEdits /\ MaxEdits \in Nat
      /\ command \in {"dev", "start"} /\ signals \in Nat
  BY SupervisorAssumption DEF SupervisorTypeOK, Worker
<1>2. Spawned.is = "booting" /\ Spawned.read = MaxEdits + 1
  BY DEF Spawned, Unread
<1>3. \A w \in DOMAIN workers : workers[w].read \in Nat
  <2>1. Unread \in Nat /\ \A w \in DOMAIN workers : workers[w] \in Worker
    BY <1>1 DEF Unread
  <2>. QED BY <2>1 DEF Worker
<1>4. ASSUME command = "start"
      PROVE  /\ Len(workers) = 1 /\ DOMAIN workers = {1} /\ awaited = {} /\ ~timer /\ ~disturbed
             /\ cli \in {"polling", "ready", "exited"}
             /\ cli = "exited" => workers[1].is = "gone"
  <2>1. Len(workers) = 1
    BY <1>4 DEF CommandInv
  <2>2. DOMAIN workers = {1}
    BY <1>1, <2>1
  <2>. QED BY <1>4, <2>1, <2>2 DEF CommandInv
<1>5. ASSUME cli \notin {"looking", "watching", "closing", "exited"} PROVE command = "start"
  BY <1>1, <1>5 DEF CommandInv
<1>6. ASSUME NEW w \in DOMAIN workers, Load(w) PROVE CommandInv' /\ UpToDate'
  <2>1. /\ workers' = [workers EXCEPT ![w] = [is |-> "serving", read |-> sources]]
        /\ workers[w].is = "booting"
        /\ UNCHANGED <<command, cli, sources, noticed, timer, child, awaited, signals, disturbed>>
    BY <1>6 DEF Load
  <2>2. /\ Len(workers') = Len(workers)
        /\ \A v \in DOMAIN workers : v # w => workers'[v] = workers[v]
        /\ workers'[w].is = "serving" /\ workers'[w].read = sources
    BY <1>1, <2>1
  <2>3. UpToDate'
    <3>. SUFFICES ASSUME cli' = "watching", ~Settling', child' # 0
                  PROVE  workers'[child'].read >= noticed'
      BY DEF UpToDate
    <3>1. cli = "watching" /\ ~Settling /\ child # 0 /\ child \in DOMAIN workers
      BY <1>1, <2>1 DEF Settling
    <3>2. CASE child = w
      BY <1>1, <2>1, <2>2, <3>2 DEF CommandInv
    <3>3. CASE child # w
      BY <2>1, <2>2, <3>1, <3>3 DEF UpToDate
    <3>. QED BY <3>2, <3>3
  <2>4. child' # 0 /\ cli' \in {"looking", "watching"} => workers'[child'].is \in {"booting", "serving"}
    BY <1>1, <2>1, <2>2 DEF CommandInv
  <2>5. command' = "start" => cli' # "exited"
    BY <1>4, <2>1
  <2>. QED BY <1>1, <2>1, <2>2, <2>3, <2>4, <2>5 DEF CommandInv
<1>7. ASSUME NEW w \in DOMAIN workers, Crash(w) PROVE CommandInv' /\ UpToDate'
  <2>1. /\ workers' = [workers EXCEPT ![w].is = "gone"]
        /\ workers[w].is \in {"booting", "serving"}
        /\ child' = IF child = w /\ cli # "closing" /\ command = "dev" THEN 0 ELSE child
        /\ UNCHANGED <<command, cli, sources, noticed, timer, awaited, signals, disturbed>>
    BY <1>7 DEF Crash
  <2>2. /\ Len(workers') = Len(workers)
        /\ \A v \in DOMAIN workers : v # w => workers'[v] = workers[v]
    BY <1>1, <2>1
  <2>3. cli' \in {"looking", "watching"} /\ child' # 0 =>
          child' = child /\ child # w /\ child \in DOMAIN workers
    BY <1>1, <1>4, <2>1
  <2>4. UpToDate'
    BY <2>1, <2>2, <2>3 DEF UpToDate, Settling
  <2>5. child' # 0 /\ cli' \in {"looking", "watching"} => workers'[child'].is \in {"booting", "serving"}
    BY <2>1, <2>2, <2>3 DEF CommandInv
  <2>6. command' = "start" => cli' # "exited"
    BY <1>4, <2>1
  <2>. QED BY <2>1, <2>2, <2>4, <2>5, <2>6 DEF CommandInv
<1>8. ASSUME NEW rest \in Seq(Worker), Len(rest) = Len(workers), workers' = Append(rest, Spawned),
             child' = Len(workers'), command = "dev", UNCHANGED <<command, sources, noticed, signals>>,
             \/ cli' = cli /\ cli # "looking"
             \/ cli' = "exited"
      PROVE  CommandInv' /\ UpToDate'
  <2>1. workers'[child'] = Spawned
    BY <1>1, <1>8, SpawnFacts
  <2>2. workers'[child'].is = "booting" /\ workers'[child'].read = MaxEdits + 1
    BY <1>2, <2>1
  <2>3. UpToDate'
    BY <1>1, <1>8, <2>2 DEF UpToDate
  <2>. QED BY <1>8, <2>2, <2>3 DEF CommandInv
<1>9. ASSUME NEW w \in DOMAIN workers, Gone(w) PROVE CommandInv' /\ UpToDate'
  <2>. DEFINE rest == [workers EXCEPT ![w].is = "gone"]
              resumed == {a \in awaited : a.of = w /\ cli # "exited"}
  <2>1. /\ workers[w].is = "stopping" /\ awaited' = awaited \ resumed
        /\ IF \E a \in resumed : a.next = "spawn"
             THEN workers' = Append(rest, Spawned) /\ child' = Len(workers')
             ELSE workers' = rest /\ UNCHANGED child
        /\ cli' = IF \E a \in resumed : a.next = "exit" THEN "exited" ELSE cli
        /\ UNCHANGED <<command, sources, noticed, timer, signals, disturbed>>
    BY <1>9 DEF Gone
  <2>2. rest \in Seq(Worker) /\ Len(rest) = Len(workers)
    <3>1. workers[w] \in Worker
      BY <1>1
    <3>2. [workers[w] EXCEPT !.is = "gone"] \in Worker
      BY <3>1 DEF Worker
    <3>. QED BY <1>1, <3>2
  <2>3. cli = "looking" => awaited = {}
    BY DEF CommandInv
  <2>4. CASE \E a \in resumed : a.next = "spawn"
    <3>1. command = "dev" /\ cli # "looking"
      BY <1>1, <1>4, <2>3, <2>4
    <3>. QED BY <1>8, <2>1, <2>2, <2>4, <3>1
  <2>5. CASE ~\E a \in resumed : a.next = "spawn"
    <3>1. workers' = rest /\ child' = child
      BY <2>1, <2>5
    <3>2. \A v \in DOMAIN workers : v # w => workers'[v] = workers[v]
      BY <1>1, <3>1
    <3>3. workers'[w].read = workers[w].read
      BY <1>1, <3>1
    <3>4. cli' = "watching" => cli = "watching" /\ awaited' = awaited
      <4>1. \A a \in awaited : a.next \in {"spawn", "exit"}
        BY DEF SupervisorTypeOK
      <4>. QED BY <2>1, <2>5, <4>1
    <3>5. UpToDate'
      <4>. SUFFICES ASSUME cli' = "watching", ~Settling', child' # 0
                    PROVE  workers'[child'].read >= noticed'
        BY DEF UpToDate
      <4>1. cli = "watching" /\ ~Settling /\ child # 0 /\ child' = child /\ noticed' = noticed
        BY <2>1, <3>1, <3>4 DEF Settling
      <4>2. child \in DOMAIN workers
        BY <1>1, <4>1
      <4>3. workers'[child].read = workers[child].read
        BY <3>2, <3>3, <4>2
      <4>. QED BY <4>1, <4>3 DEF UpToDate
    <3>6. child' # 0 /\ cli' \in {"looking", "watching"} => workers'[child'].is \in {"booting", "serving"}
      <4>. SUFFICES ASSUME child' # 0, cli' \in {"looking", "watching"}
                    PROVE  workers'[child'].is \in {"booting", "serving"}
        OBVIOUS
      <4>0. cli' = cli /\ child' = child
        BY <2>1, <3>1
      <4>1. cli' = cli /\ child' = child /\ child \in DOMAIN workers
        BY <1>1, <4>0
      <4>2. workers[child].is \in {"booting", "serving"}
        BY <4>1 DEF CommandInv
      <4>3. child # w
        BY <2>1, <4>2
      <4>. QED BY <3>2, <4>1, <4>2, <4>3
    <3>7. command' = "start" => resumed = {} /\ cli' = cli /\ cli # "exited" /\ awaited' = {}
      BY <1>4, <2>1
    <3>. QED BY <1>1, <2>1, <2>2, <2>3, <3>1, <3>5, <3>6, <3>7 DEF CommandInv
  <2>. QED BY <2>4, <2>5
<1>10. ASSUME Watch PROVE CommandInv' /\ UpToDate'
  <2>1. /\ cli = "looking" /\ cli' = "watching" /\ noticed = 0
        /\ UNCHANGED <<command, sources, noticed, timer, workers, child, awaited, signals, disturbed>>
    BY <1>10 DEF Watch, CommandInv
  <2>2. command # "start"
    BY <1>4, <2>1
  <2>3. UpToDate'
    BY <1>1, <1>3, <2>1 DEF UpToDate
  <2>. QED BY <2>1, <2>2, <2>3 DEF CommandInv
<1>11. ASSUME Edit PROVE CommandInv' /\ UpToDate'
  <2>1. /\ command = "dev" /\ sources' = sources + 1
        /\ IF cli = "watching" THEN timer' = TRUE /\ noticed' = sources' ELSE UNCHANGED <<timer, noticed>>
        /\ UNCHANGED <<command, cli, workers, child, awaited, signals, disturbed>>
    BY <1>11 DEF Edit
  <2>2. noticed' <= sources'
    BY <1>1, <2>1 DEF CommandInv
  <2>3. UpToDate'
    BY <2>1 DEF UpToDate, Settling
  <2>. QED BY <2>1, <2>2, <2>3 DEF CommandInv
<1>12. ASSUME NEW next \in {"spawn", "exit"}, Stopping(next), cli # "looking",
              command = "dev", UNCHANGED <<command, sources, noticed>>,
              \/ cli' = cli /\ UNCHANGED signals
              \/ cli' = "closing" /\ signals' = 1
       PROVE  CommandInv' /\ UpToDate'
  <2>1. child' = 0
    BY <1>12 DEF Stopping
  <2>. QED BY <1>12, <2>1 DEF CommandInv, UpToDate
<1>13. ASSUME Restart PROVE CommandInv' /\ UpToDate'
  <2>1. timer /\ cli = "watching" /\ UNCHANGED <<command, cli, sources, noticed, signals>>
        /\ command = "dev"
    BY <1>1, <1>4, <1>13 DEF Restart
  <2>2. CASE child = 0
    <3>1. workers' = Append(workers, Spawned) /\ child' = Len(workers')
      BY <1>13, <2>2 DEF Restart, Spawn
    <3>. QED BY <1>1, <1>8, <2>1, <3>1
  <2>3. CASE child # 0
    BY <1>12, <1>13, <2>1, <2>3 DEF Restart
  <2>. QED BY <2>2, <2>3
<1>14. ASSUME Close PROVE CommandInv' /\ UpToDate'
  <2>1. command = "dev" /\ signals' = signals + 1 /\ UNCHANGED <<command, sources, noticed>>
    BY <1>14 DEF Close
  <2>2. CASE cli = "watching" /\ child # 0
    <3>1. signals' = 1 /\ cli' = "closing" /\ Stopping("exit")
      BY <1>14, <2>1, <2>2 DEF Close, CommandInv
    <3>. QED BY <1>12, <2>1, <2>2, <3>1
  <2>3. CASE ~(cli = "watching" /\ child # 0)
    <3>1. cli' = "exited"
      BY <1>14, <2>3 DEF Close
    <3>. QED BY <2>1, <3>1 DEF CommandInv, UpToDate
  <2>. QED BY <2>2, <2>3
<1>15. ASSUME Healthy \/ GiveUp \/ Forward \/ Exit PROVE CommandInv' /\ UpToDate'
  <2>1. command = "start"
    BY <1>5, <1>15 DEF Healthy, GiveUp, Forward, Exit
  <2>2. cli' \in {"polling", "ready", "exited"}
    BY <1>4, <1>15, <2>1 DEF Healthy, GiveUp, Forward, Exit
  <2>3. Len(workers') = 1
    BY <1>4, <1>15, <2>1 DEF Healthy, GiveUp, Forward, Exit
  <2>4. UNCHANGED <<command, sources, noticed, timer, awaited, disturbed>>
    BY <1>15 DEF Healthy, GiveUp, Forward, Exit
  <2>5. cli' = "exited" => workers'[1].is = "gone"
    <3>1. CASE Healthy
      BY <3>1 DEF Healthy
    <3>2. CASE GiveUp
      BY <1>4, <2>1, <3>2, <1>1 DEF GiveUp
    <3>3. CASE Forward
      BY <3>3 DEF Forward
    <3>4. CASE Exit
      BY <3>4 DEF Exit
    <3>. QED BY <1>15, <3>1, <3>2, <3>3, <3>4
  <2>. QED BY <1>4, <2>1, <2>2, <2>3, <2>4, <2>5 DEF CommandInv, UpToDate
<1>. QED BY <1>6, <1>7, <1>9, <1>10, <1>11, <1>13, <1>14, <1>15 DEF SupervisorStep

LEMMA OneNext ==
  ASSUME SupervisorTypeOK, CommandInv, OneInv, SupervisorStep
  PROVE  OneInv'
<1>1. /\ workers \in Seq(Worker) /\ Len(workers) \in Nat /\ DOMAIN workers = 1 .. Len(workers)
      /\ child \in 0 .. Len(workers) /\ timer \in BOOLEAN /\ disturbed \in BOOLEAN
      /\ \A v \in DOMAIN workers : v # 0
  BY DEF SupervisorTypeOK, Worker
<1>. SUFFICES ASSUME command' = "dev", ~disturbed' PROVE OneInv'
  BY DEF OneInv
<1>2. command = "dev" /\ ~disturbed
  <2>1. CASE \E w \in DOMAIN workers : Load(w) \/ Crash(w) \/ Gone(w)
    BY <2>1 DEF Load, Crash, Gone
  <2>2. CASE Watch \/ Edit \/ Healthy \/ GiveUp \/ Forward \/ Exit
    BY <2>2 DEF Watch, Edit, Healthy, GiveUp, Forward, Exit
  <2>3. CASE Restart \/ Close
    BY <2>3 DEF Restart, Close
  <2>. QED BY <2>1, <2>2, <2>3 DEF SupervisorStep
<1>3. /\ cli \in {"looking", "watching", "closing", "exited"}
      /\ cli \in {"looking", "watching"} /\ child # 0 => workers[child].is \in {"booting", "serving"}
  BY <1>2 DEF CommandInv
<1>. DEFINE Single == /\ awaited = {} /\ Left \subseteq {child} /\ cli # "closing"
                      /\ cli = "exited" => Left = {}
            Leaving(w) == /\ awaited = {[of |-> w, next |-> IF cli = "closing" THEN "exit" ELSE "spawn"]}
                          /\ child = 0 /\ cli \in {"watching", "closing"}
                          /\ Left = {w} /\ workers[w].is = "stopping"
<1>4. Single \/ \E w \in DOMAIN workers : Leaving(w)
  BY <1>2 DEF OneInv
<1>5. ASSUME Single' \/ \E w \in DOMAIN workers' : Leaving(w)' PROVE OneInv'
  BY <1>5 DEF OneInv
<1>. HIDE DEF Single, Leaving
<1>6. ASSUME NEW w \in DOMAIN workers, Load(w) \/ Crash(w) PROVE OneInv'
  <2>1. /\ DOMAIN workers' = DOMAIN workers
        /\ \A v \in DOMAIN workers : v # w => workers'[v] = workers[v]
        /\ w \in Left /\ workers[w].is # "stopping" /\ UNCHANGED <<cli, awaited>>
    BY <1>1, <1>6 DEF Load, Crash, Left
  <2>2. Single
    BY <1>4, <2>1 DEF Leaving
  <2>3. child = w /\ cli \in {"looking", "watching"} /\ Left' \subseteq {w}
    <3>1. child = w /\ Left \subseteq {w} /\ cli # "exited"
      BY <2>1, <2>2 DEF Single
    <3>2. Left' \subseteq {w}
      BY <2>1, <3>1 DEF Left
    <3>. QED BY <1>3, <2>2, <3>1, <3>2 DEF Single
  <2>4. child' = child \/ Left' = {}
    <3>1. CASE Load(w)
      BY <3>1 DEF Load
    <3>2. CASE Crash(w)
      <4>1. workers'[w].is = "gone"
        BY <1>1, <3>2 DEF Crash
      <4>. QED BY <2>3, <4>1 DEF Left
    <3>. QED BY <1>6, <3>1, <3>2
  <2>5. Single'
    BY <2>1, <2>2, <2>3, <2>4 DEF Single
  <2>. QED BY <1>5, <2>5
<1>7. ASSUME NEW w \in DOMAIN workers, Gone(w) PROVE OneInv'
  <2>. DEFINE rest == [workers EXCEPT ![w].is = "gone"]
              resumed == {a \in awaited : a.of = w /\ cli # "exited"}
  <2>1. /\ workers[w].is = "stopping" /\ awaited' = awaited \ resumed
        /\ IF \E a \in resumed : a.next = "spawn"
             THEN workers' = Append(rest, Spawned) /\ child' = Len(workers')
             ELSE workers' = rest /\ UNCHANGED child
        /\ cli' = IF \E a \in resumed : a.next = "exit" THEN "exited" ELSE cli
    BY <1>7 DEF Gone
  <2>2. ~Single
    <3>1. w \in Left
      BY <2>1 DEF Left
    <3>2. child # w \/ cli \in {"closing", "exited"}
      BY <1>1, <1>3, <2>1
    <3>. QED BY <3>1, <3>2 DEF Single
  <2>3. Leaving(w)
    <3>1. w \in Left
      BY <2>1 DEF Left
    <3>. QED BY <1>4, <2>2, <3>1 DEF Leaving
  <2>4. resumed = awaited /\ awaited' = {}
    BY <2>1, <2>3 DEF Leaving
  <2>5. /\ rest \in Seq(Worker) /\ Len(rest) = Len(workers) /\ DOMAIN rest = DOMAIN workers
        /\ \A v \in DOMAIN workers : v # w => rest[v] = workers[v]
        /\ rest[w].is = "gone"
    <3>1. workers[w] \in Worker
      BY <1>1
    <3>2. [workers[w] EXCEPT !.is = "gone"] \in Worker
      BY <3>1 DEF Worker
    <3>. QED BY <1>1, <3>2
  <2>6. \A v \in DOMAIN workers : rest[v].is = "gone"
    BY <2>3, <2>5 DEF Leaving, Left
  <2>7. CASE cli = "closing"
    <3>1. /\ \A a \in resumed : a.next = "exit"
          /\ \E a \in resumed : a.next = "exit"
      <4>1. awaited = {[of |-> w, next |-> "exit"]}
        BY <2>3, <2>7 DEF Leaving
      <4>. HIDE DEF resumed
      <4>2. resumed = {[of |-> w, next |-> "exit"]}
        BY <2>4, <4>1
      <4>. QED BY <4>2
    <3>2. workers' = rest /\ cli' = "exited"
      BY <2>1, <3>1
    <3>3. Left' = {}
      BY <2>5, <2>6, <3>2 DEF Left
    <3>. QED BY <1>5, <2>4, <3>2, <3>3 DEF Single
  <2>8. CASE cli # "closing"
    <3>1. /\ \A a \in resumed : a.next = "spawn"
          /\ \E a \in resumed : a.next = "spawn"
      <4>1. awaited = {[of |-> w, next |-> "spawn"]}
        BY <2>3, <2>8 DEF Leaving
      <4>. HIDE DEF resumed
      <4>2. resumed = {[of |-> w, next |-> "spawn"]}
        BY <2>4, <4>1
      <4>. QED BY <4>2
    <3>2. workers' = Append(rest, Spawned) /\ child' = Len(workers') /\ cli' = cli /\ cli = "watching"
      BY <2>1, <2>3, <2>8, <3>1 DEF Leaving
    <3>3. /\ \A v \in 1 .. Len(workers) : workers'[v] = rest[v]
          /\ DOMAIN workers' = DOMAIN workers \cup {Len(workers')}
      BY <1>1, <2>5, <3>2, SpawnFacts
    <3>4. Left' \subseteq {child'}
      BY <1>1, <2>6, <3>2, <3>3 DEF Left
    <3>. QED BY <1>5, <2>4, <3>2, <3>4 DEF Single
  <2>. QED BY <2>7, <2>8
<1>8. ASSUME Watch PROVE OneInv'
  <2>1. cli = "looking" /\ cli' = "watching" /\ UNCHANGED <<workers, child, awaited>>
    BY <1>8 DEF Watch
  <2>2. Single'
    BY <1>4, <2>1 DEF Single, Leaving, Left
  <2>. QED BY <1>5, <2>2
<1>9. ASSUME Edit PROVE OneInv'
  <2>1. UNCHANGED <<cli, workers, child, awaited>>
    BY <1>9 DEF Edit
  <2>2. Single' \/ \E w \in DOMAIN workers' : Leaving(w)'
    BY <1>4, <2>1 DEF Single, Leaving, Left
  <2>. QED BY <1>5, <2>2
<1>10. ASSUME NEW next \in {"spawn", "exit"}, Stopping(next), Single, cli = "watching", child # 0,
              cli' = IF next = "exit" THEN "closing" ELSE "watching"
       PROVE  OneInv'
  <2>1. PICK w \in DOMAIN workers : w = child
    BY <1>1, <1>10
  <2>2. w \in Left /\ Left = {w}
    BY <1>3, <1>10, <2>1 DEF Single, Left
  <2>3. /\ workers' = [workers EXCEPT ![w].is = "stopping"] /\ child' = 0
        /\ awaited' = {[of |-> w, next |-> next]}
    BY <1>10, <2>1, <2>2 DEF Stopping, Single
  <2>4. DOMAIN workers' = DOMAIN workers /\ workers'[w].is = "stopping"
        /\ \A v \in DOMAIN workers : v # w => workers'[v] = workers[v]
    BY <1>1, <2>3
  <2>5. Left' = {w}
    BY <2>2, <2>4 DEF Left
  <2>6. /\ awaited' = {[of |-> w, next |-> IF cli' = "closing" THEN "exit" ELSE "spawn"]}
        /\ cli' \in {"watching", "closing"}
    BY <1>10, <2>3
  <2>7. Leaving(w)'
    BY <2>3, <2>4, <2>5, <2>6 DEF Leaving
  <2>. QED BY <1>5, <2>4, <2>7
<1>11. ASSUME Restart PROVE OneInv'
  <2>1. awaited = {} /\ cli = "watching" /\ cli' = cli
    BY <1>11 DEF Restart
  <2>2. Single
    BY <1>4, <2>1 DEF Leaving
  <2>3. CASE child = 0
    <3>1. workers' = Append(workers, Spawned) /\ child' = Len(workers') /\ awaited' = awaited
      BY <1>11, <2>3 DEF Restart, Spawn
    <3>2. /\ \A v \in 1 .. Len(workers) : workers'[v] = workers[v]
          /\ DOMAIN workers' = DOMAIN workers \cup {Len(workers')}
      BY <1>1, <3>1, SpawnFacts
    <3>3. Left = {}
      BY <1>1, <2>2, <2>3 DEF Single, Left
    <3>4. Left' \subseteq {child'}
      BY <1>1, <3>1, <3>2, <3>3 DEF Left
    <3>. QED BY <1>5, <2>1, <3>1, <3>4 DEF Single
  <2>4. CASE child # 0
    BY <1>10, <1>11, <2>1, <2>2, <2>4 DEF Restart
  <2>. QED BY <2>3, <2>4
<1>12. ASSUME Close PROVE OneInv'
  <2>1. awaited = {} /\ cli = "watching"
    BY <1>12 DEF Close
  <2>2. Single
    BY <1>4, <2>1 DEF Leaving
  <2>3. CASE child # 0
    <3>1. cli' = "closing" /\ Stopping("exit")
      BY <1>12, <2>1, <2>3 DEF Close
    <3>. QED BY <1>10, <2>1, <2>2, <2>3, <3>1
  <2>4. CASE child = 0
    <3>1. cli' = "exited" /\ UNCHANGED <<workers, child, awaited>>
      BY <1>12, <2>4 DEF Close
    <3>2. Left = {} /\ Left' = {}
      BY <1>1, <2>2, <2>4, <3>1 DEF Single, Left
    <3>. QED BY <1>5, <2>1, <3>1, <3>2 DEF Single
  <2>. QED BY <2>3, <2>4
<1>13. ~(Healthy \/ GiveUp \/ Forward \/ Exit)
  BY <1>2, <1>3 DEF Healthy, GiveUp, Forward, Exit
<1>. QED BY <1>6, <1>7, <1>8, <1>9, <1>11, <1>12, <1>13 DEF SupervisorStep

LEMMA OneMeansAlone ==
  ASSUME SupervisorTypeOK, CommandInv, OneInv
  PROVE  Alone
<1>. SUFFICES ASSUME ~disturbed PROVE Cardinality(Left) <= 1 /\ (cli = "exited" => Left = {})
  BY DEF Alone
<1>1. (\E x : Left \subseteq {x}) /\ (cli = "exited" => Left = {})
  <2>1. CASE command = "dev"
    BY <2>1 DEF OneInv
  <2>2. CASE command = "start"
    <3>1. DOMAIN workers = {1} /\ (cli = "exited" => workers[1].is = "gone")
      BY <2>2 DEF CommandInv, SupervisorTypeOK
    <3>. QED BY <3>1 DEF Left
  <2>. QED BY <2>1, <2>2 DEF SupervisorTypeOK
<1>2. PICK x : Left \subseteq {x}
  BY <1>1
<1>3. Left = {} \/ Left = {x}
  BY <1>2
<1>4. Cardinality({}) = 0 /\ Cardinality({x}) = 1
  BY FS_EmptySet, FS_Singleton
<1>. QED BY <1>1, <1>3, <1>4

(* Of any number of changes, crashes and restarts: what dev runs, once        *)
(* nothing is due, has read the files it has seen change, and commands whose *)
(* restarts do not overlap never have two workers, nor leave one behind.     *)
THEOREM SupervisedCorrect == Spec => []Supervised
<1>. DEFINE Inv == SupervisorTypeOK /\ CommandInv /\ UpToDate /\ OneInv
<1>1. Init => Inv
  <2>. SUFFICES ASSUME SupervisorInit PROVE Inv
    BY DEF Init
  <2>1. Spawned \in Worker /\ Spawned.is = "booting" /\ Spawned.read = MaxEdits + 1
    BY SupervisorAssumption DEF Spawned, Worker, Unread
  <2>2. /\ workers \in Seq(Worker) /\ Len(workers) = 1 /\ workers[1] = Spawned /\ child = 1
        /\ DOMAIN workers = {1}
    BY <2>1 DEF SupervisorInit
  <2>3. SupervisorTypeOK
    <3>1. MaxEdits \in Nat /\ 0 \in 0 .. MaxEdits /\ {FALSE} \subseteq BOOLEAN
      BY SupervisorAssumption
    <3>2. /\ child \in 0 .. Len(workers) /\ signals \in 0 .. 2 /\ {sources, noticed} \subseteq 0 .. MaxEdits
          /\ awaited \subseteq [of : 1 .. Len(workers), next : {"spawn", "exit"}]
      BY <2>2, <3>1 DEF SupervisorInit
    <3>3. {timer, disturbed} \subseteq BOOLEAN /\ command \in {"dev", "start"}
          /\ cli \in {"looking", "watching", "closing", "polling", "ready", "exited"}
      BY DEF SupervisorInit
    <3>. QED BY <2>2, <3>2, <3>3 DEF SupervisorTypeOK, Worker
  <2>4. CommandInv /\ UpToDate
    BY <2>1, <2>2, SupervisorAssumption DEF SupervisorInit, CommandInv, UpToDate
  <2>5. OneInv
    BY <2>2 DEF SupervisorInit, OneInv, Left
  <2>. QED BY <2>3, <2>4, <2>5
<1>2. Inv /\ [Next]_vars => Inv'
  <2>. SUFFICES ASSUME Inv, [Next]_vars PROVE Inv'
    OBVIOUS
  <2>1. CASE UNCHANGED supervisorVars
    BY <2>1 DEF supervisorVars, SupervisorTypeOK, CommandInv, UpToDate, Settling, OneInv, Left
  <2>2. CASE SupervisorStep
    <3>1. SupervisorTypeOK'
      BY <2>2, SupervisorTypeNext
    <3>. QED BY <2>2, <3>1, SupervisorNext, OneNext
  <2>. QED BY <2>1, <2>2, SupervisorSteps
<1>3. Inv => Supervised
  BY OneMeansAlone DEF Supervised
<1>. QED BY <1>1, <1>2, <1>3, PTL DEF Spec
==============================================================================
