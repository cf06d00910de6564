--------------------------------- MODULE Boot ---------------------------------
(***************************************************************************)
(* The boot of the workers that share a namespace and a Postgres database  *)
(* (createQueueWorkerFromWorld, core/src/runtime.ts): the migrations, then *)
(* the task catalog, then the declarative schedules.  Replicas carry the   *)
(* same tasks, pools different ones, and a rollout boots several at once,   *)
(* beside workers that are up and serve the ticks that fall due.  Only the  *)
(* migrations are under a lock.                                            *)
(***************************************************************************)
EXTENDS Naturals, FiniteSets, Sequences

CONSTANTS
  Workers,   \* the processes
  Build,     \* Build[p]: the checksums of the migration steps p's build has
  Appliers,      \* the workers that apply pending migrations; the others refuse
  Tasks,     \* Tasks[p]: the tasks p loads, all with a cron
  MaxStarts, \* bound: boots begun
  MaxClock,  \* bound: instants of the crons that pass
  MaxFaults  \* bound: awaits that throw, and crashes

Checksums == UNION {{Build[p][s] : s \in DOMAIN Build[p]} : p \in Workers}
StepIds == UNION {DOMAIN Build[p] : p \in Workers}
AllTasks == UNION {Tasks[p] : p \in Workers}
Pending == "pending"

ASSUME BootAssumption ==
  /\ Appliers \subseteq Workers
  /\ \A p \in Workers : Build[p] \in Seq(STRING \ {Pending})
  /\ \A p \in Workers : Tasks[p] # {}
  /\ {MaxStarts, MaxClock, MaxFaults} \subseteq Nat

VARIABLES
  boot,    \* boot[p]: how far p's boot is
  lock,    \* holders of the advisory lock MIGRATION_LOCK_KEY
  applied, \* applied[s]: the checksum in the bookkeeping row of step s
  ddl,     \* history: ddl[s], how often the statements of step s took effect
  catalog, \* the entries of the catalog table: a task, and who published it
  last,    \* history: whose publish returned last
  nextRun, \* nextRun[t]: the instant the declarative schedule of task t
           \* waits for, 0 when it has no row
  ticks,   \* the ticks in the transport: <<task, instant>>
  clock,   \* instants that have come
  mixed,   \* history: tasks with two calls in progress for two instants
  starts, faults

bootVars == <<boot, lock, applied, ddl, catalog, last, nextRun, ticks, clock, mixed, starts, faults>>
db == <<lock, applied, ddl>>
store == <<catalog, last>>
cron == <<nextRun, ticks, clock, mixed>>
bounds == <<starts, faults>>

Off == [pc |-> "off", step |-> 1, seen |-> [s \in StepIds |-> Pending],
        calls |-> {}]

BootInit ==
  /\ boot = [p \in Workers |-> Off]
  /\ lock = {}
  /\ applied = [s \in StepIds |-> Pending] /\ ddl = [s \in StepIds |-> 0]
  /\ catalog = {} /\ last = {}
  /\ nextRun = [t \in AllTasks |-> 0] /\ ticks = {} /\ clock = 0 /\ mixed = {}
  /\ starts = 0 /\ faults = 0

At(p, pc) == boot[p].pc = pc
Goto(p, pc) == boot' = [boot EXCEPT ![p].pc = pc]
Booting == {p \in Workers : boot[p].pc \notin {"off", "up", "failed"}}
Up == {p \in Workers : At(p, "up")}

(* A boot that throws closes its world; a process may be started again.     *)
Start(p) ==
  /\ boot[p].pc \in {"off", "failed"} /\ starts < MaxStarts
  /\ starts' = starts + 1
  /\ boot' = [boot EXCEPT ![p] = [Off EXCEPT !.pc = IF p \in Appliers THEN "lock" ELSE "probe"]]
  /\ UNCHANGED <<db, store, cron, faults>>

-----------------------------------------------------------------------------
(* runMigrations.                                                          *)

(* assertMigrationsApplied: manual mode only reads.                         *)
Probe(p) ==
  /\ At(p, "probe")
  /\ Goto(p, IF \A s \in DOMAIN Build[p] : applied[s] = Build[p][s] THEN "publish" ELSE "failed")
  /\ UNCHANGED <<db, store, cron, bounds>>

(* Mutant: what is applied is read without waiting for the lock.            *)
LockUnheld(p) ==
  /\ At(p, "lock")
  /\ boot' = [boot EXCEPT ![p].pc = "migrate", ![p].seen = applied]
  /\ UNCHANGED <<db, store, cron, bounds>>

(* Auto mode: the lock, and then the steps that are applied already.        *)
Lock(p) ==
  /\ At(p, "lock") /\ lock = {}
  /\ lock' = {p}
  /\ boot' = [boot EXCEPT ![p].pc = "migrate", ![p].seen = applied]
  /\ UNCHANGED <<applied, ddl, store, cron, bounds>>

(* One step: one that is there must have the same checksum (or the runner   *)
(* fails, and unlocks); one that is not is applied, its statements and its   *)
(* bookkeeping row in one transaction.                                     *)
Migrate(p) ==
  LET s == boot[p].step
  IN  /\ At(p, "migrate") /\ s <= Len(Build[p])
      /\ IF boot[p].seen[s] \in {Pending, Build[p][s]}
           THEN boot' = [boot EXCEPT ![p].step = s + 1] /\ UNCHANGED lock
           ELSE Goto(p, "failed") /\ lock' = lock \ {p}
      /\ IF boot[p].seen[s] = Pending
           THEN applied' = [applied EXCEPT ![s] = Build[p][s]] /\ ddl' = [ddl EXCEPT ![s] = @ + 1]
           ELSE UNCHANGED <<applied, ddl>>
      /\ UNCHANGED <<store, cron, bounds>>

Unlock(p) ==
  /\ At(p, "migrate") /\ boot[p].step > Len(Build[p])
  /\ lock' = lock \ {p}
  /\ boot' = [boot EXCEPT ![p] = [Off EXCEPT !.pc = "publish"]]
  /\ UNCHANGED <<applied, ddl, store, cron, bounds>>

-----------------------------------------------------------------------------
(* publish: the whole table is deleted, then the own entries are inserted,   *)
(* in two statements.  The second throws when one of its ids is there.      *)
Publish(p) ==
  /\ At(p, "publish")
  /\ catalog' = {} /\ Goto(p, "insert")
  /\ UNCHANGED <<db, last, cron, bounds>>

Published == {e.task : e \in catalog}

(* The calls of p that write a row and arm its tick, one of each task, for   *)
(* an instant that each has computed before; some other call is on its way   *)
(* to arm the same task for another instant.                               *)
ArmingKinds == {"create", "complete", "clear", "arm"}
Clashes(t, n) ==
  \E q \in Workers : \E c \in boot[q].calls : c[1] \in ArmingKinds /\ c[2] = t /\ c[3] # n

(* ... and the calls of syncDeclarativeSchedules: each computes the next run *)
(* of its schedule, and awaits the store.                                  *)
Insert(p) ==
  /\ At(p, "insert")
  /\ IF Published \cap Tasks[p] = {}
       THEN /\ catalog' = catalog \cup [task : Tasks[p], by : {p}]
            /\ last' = {p}
            /\ boot' = [boot EXCEPT ![p].pc = "sync",
                                    ![p].calls = {"create"} \X Tasks[p] \X {clock + 1}]
            /\ mixed' = mixed \cup {t \in Tasks[p] : Clashes(t, clock + 1)}
       ELSE Goto(p, "failed") /\ UNCHANGED <<store, mixed>>
  /\ UNCHANGED <<db, nextRun, ticks, clock, bounds>>

-----------------------------------------------------------------------------
(* syncDeclarativeSchedules.                                               *)

(* One of the calls that are made in parallel goes on to its next step.     *)
Turn(p, call, next) ==
  /\ call \in boot[p].calls
  /\ boot' = [boot EXCEPT ![p].calls = (@ \ {call}) \cup next]
  /\ UNCHANGED <<db, store, clock, mixed, bounds>>

Instants == 1 .. MaxClock + 1
rows == {t \in AllTasks : nextRun[t] > 0}

(* removeScheduleJob: a tick that is due is not listed.                     *)
Unticked(t) == {k \in ticks : k[1] # t \/ k[2] <= clock}

(* upsertDeclarative, of every task with a cron: the row is created or      *)
(* patched in one statement; enqueueNext removes its ticks and adds one.    *)
Create(p, t) ==
  \E n \in Instants :
    /\ Turn(p, <<"create", t, n>>, {<<"clear", t, n>>})
    /\ nextRun' = [nextRun EXCEPT ![t] = n] /\ UNCHANGED ticks

Clear(p, t) ==
  \E n \in Instants :
    /\ Turn(p, <<"clear", t, n>>, {<<"arm", t, n>>})
    /\ ticks' = Unticked(t) /\ UNCHANGED nextRun

Arm(p, t) ==
  \E n \in Instants :
    /\ Turn(p, <<"arm", t, n>>, {})
    /\ ticks' = ticks \cup {<<t, n>>} /\ UNCHANGED nextRun

(* A worker that is up serves a tick that is due: one whose instant is not   *)
(* the row's fires nothing.  (How a fire fails is the matter of Schedules.)  *)
NextRun(n) == IF n + 1 < clock THEN clock + 1 ELSE n + 1

Fire(p, t) ==
  \E n \in 1 .. clock :
    /\ At(p, "up") /\ <<t, n>> \in ticks
    /\ ticks' = ticks \ {<<t, n>>}
    /\ IF nextRun[t] = n
         THEN /\ boot' = [boot EXCEPT ![p].calls = @ \cup {<<"complete", t, NextRun(n)>>}]
              /\ mixed' = IF Clashes(t, NextRun(n)) THEN mixed \cup {t} ELSE mixed
         ELSE UNCHANGED <<boot, mixed>>
    /\ UNCHANGED <<db, store, nextRun, clock, bounds>>

(* complete patches the row, and arms its tick if there was one.            *)
Complete(p, t) ==
  \E n \in Instants :
    /\ Turn(p, <<"complete", t, n>>, IF t \in rows THEN {<<"clear", t, n>>} ELSE {})
    /\ nextRun' = IF t \in rows THEN [nextRun EXCEPT ![t] = n] ELSE nextRun
    /\ UNCHANGED ticks

(* An instant comes (every cron has it: what a task's cron skips is nothing  *)
(* to its schedule).                                                       *)
Elapse ==
  /\ clock < MaxClock
  /\ clock' = clock + 1
  /\ UNCHANGED <<boot, db, store, nextRun, ticks, mixed, bounds>>

(* Mutant: everything listed goes.                                         *)
DoomedAll(p) == rows

(* Declarative schedules of tasks that are not p's, whoever made them.      *)
Doomed(p) == rows \ Tasks[p]

List(p) ==
  /\ At(p, "sync") /\ boot[p].calls = {}
  /\ boot' = [boot EXCEPT ![p].pc = "prune", ![p].calls = {"untick"} \X Doomed(p) \X {0}]
  /\ UNCHANGED <<db, store, cron, bounds>>

(* delete, of each of them: the ticks, then the row.                        *)
Untick(p, t) ==
  /\ Turn(p, <<"untick", t, 0>>, {<<"delete", t, 0>>})
  /\ ticks' = Unticked(t) /\ UNCHANGED nextRun

Delete(p, t) ==
  /\ Turn(p, <<"delete", t, 0>>, {})
  /\ nextRun' = [nextRun EXCEPT ![t] = 0] /\ UNCHANGED ticks

(* Consumers start; the worker is up.                                      *)
Ready(p) ==
  /\ At(p, "prune") /\ boot[p].calls = {}
  /\ Goto(p, "up")
  /\ UNCHANGED <<db, store, cron, bounds>>

-----------------------------------------------------------------------------
(* Faults: an await throws, which fails the boot (the lock is given back in *)
(* a finally), or the process is gone (and its session, with the lock).     *)
Fault(p) ==
  /\ p \in Booting /\ faults < MaxFaults
  /\ faults' = faults + 1
  /\ \E pc \in {"off", "failed"} : boot' = [boot EXCEPT ![p] = [Off EXCEPT !.pc = pc]]
  /\ lock' = lock \ {p}
  /\ UNCHANGED <<applied, ddl, store, cron, starts>>

-----------------------------------------------------------------------------
(* Properties.                                                             *)
BootTypeOK ==
  /\ boot \in [Workers -> [pc : {"off", "probe", "lock", "migrate", "publish", "insert", "sync",
                                  "prune", "up", "failed"},
                            step : Nat \ {0}, seen : [StepIds -> Checksums \cup {Pending}],
                            calls : SUBSET ((ArmingKinds \cup {"untick", "delete"}) \X AllTasks \X Nat)]]
  /\ lock \subseteq Workers
  /\ applied \in [StepIds -> Checksums \cup {Pending}] /\ ddl \in [StepIds -> Nat]
  /\ catalog \subseteq [task : AllTasks, by : Workers] /\ last \subseteq Workers
  /\ nextRun \in [AllTasks -> Nat] /\ ticks \subseteq AllTasks \X Nat
  /\ clock \in 0 .. MaxClock /\ mixed \subseteq AllTasks

(* Whatever boots at once, crashes or throws, the statements of a migration *)
(* step take effect once, together with its bookkeeping row, and a boot that *)
(* is past its migrations runs on a database where each step its build has   *)
(* was applied from the same text.                                         *)
Migrated ==
  /\ BootTypeOK
  /\ \A s \in StepIds : ddl[s] = IF applied[s] = Pending THEN 0 ELSE 1
  /\ \A p \in Workers : boot[p].pc \in {"publish", "insert", "sync", "prune", "up"} =>
       \A s \in DOMAIN Build[p] : applied[s] = Build[p][s]

(* The tasks every pool carries.                                           *)
Common == {t \in AllTasks : \A p \in Workers : t \in Tasks[p]}

(* The tick that will fire: the one for the instant the row waits for.      *)
Ticks(t) == <<t, nextRun[t]>> \in ticks

(* A task that every worker carries stays scheduled through any rollout: a  *)
(* boot of one never deletes its row, and once some worker is up and no boot *)
(* or fire is in progress (or was cut short) the tick of its row's instant   *)
(* is there, though each boot and each fire took it away for a moment.  The *)
(* exception are tasks that two of them were arming at once for different    *)
(* instants, one computed before a cron instant and the other after it.     *)
CommonArmed ==
  Up # {} => /\ Common \subseteq rows
             /\ Booting = {} /\ (\A p \in Workers : boot[p].calls = {}) /\ faults = 0 =>
                  \A t \in Common \ mixed : Ticks(t)

(* A finding: so it is with no exception.                                  *)
BootsArm ==
  Up # {} /\ Booting = {} /\ (\A p \in Workers : boot[p].calls = {}) /\ faults = 0 =>
    \A t \in Common : Ticks(t)

(* The catalog is what the worker that published last loaded: "last writer  *)
(* wins".                                                                  *)
LastWriterWins ==
  last # {} /\ (\A p \in Workers : ~At(p, "insert")) => catalog = UNION {[task : Tasks[p], by : {p}] : p \in last}
==============================================================================
