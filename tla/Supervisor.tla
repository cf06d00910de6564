------------------------------ MODULE Supervisor ------------------------------
(***************************************************************************)
(* The two commands that run a worker as a child process: `openqueue dev`  *)
(* (cli/src/index.ts), which starts another one when a file changes, and   *)
(* `openqueue start` (cli/src/artifact-start.ts), which waits for its      *)
(* health and passes signals on.                                           *)
(***************************************************************************)
EXTENDS Naturals, Sequences, FiniteSets

CONSTANTS
  MaxEdits,   \* bound: changes of the watched files
  MaxWorkers  \* bound: workers spawned

ASSUME SupervisorAssumption == MaxEdits \in Nat /\ MaxWorkers \in Nat \ {0}

VARIABLES
  command,  \* "dev" or "start"
  cli,      \* what the CLI is doing
  sources,  \* the version of the files
  noticed,  \* the newest version a watcher saw
  timer,    \* whether a restart is due
  workers,  \* the workers spawned so far: how each is, and the files it read
  child,    \* the one `child` names, or 0
  awaited,  \* the calls of stopWorker: the worker each waits for, and what follows
  signals,  \* signals the CLI had
  disturbed \* history: two restarts overlapped, or a signal met one or no handler

supervisorVars == <<command, cli, sources, noticed, timer, workers, child, awaited, signals,
                    disturbed>>

Unread == MaxEdits + 1
Spawned == [is |-> "booting", read |-> Unread]
Left == {w \in DOMAIN workers : workers[w].is # "gone"}

(* dev has spawned its first worker and looks for what to watch.            *)
SupervisorInit ==
  /\ command \in {"dev", "start"}
  /\ cli = IF command = "dev" THEN "looking" ELSE "polling"
  /\ sources = 0 /\ noticed = 0 /\ timer = FALSE
  /\ workers = <<Spawned>> /\ child = 1
  /\ awaited = {} /\ signals = 0 /\ disturbed = FALSE

-----------------------------------------------------------------------------
(* The worker: it reads the files and serves, and it may crash.             *)
Load(w) ==
  /\ workers[w].is = "booting"
  /\ workers' = [workers EXCEPT ![w] = [is |-> "serving", read |-> sources]]
  /\ UNCHANGED <<command, cli, sources, noticed, timer, child, awaited, signals, disturbed>>

Crash(w) ==
  /\ workers[w].is \in {"booting", "serving"}
  /\ workers' = [workers EXCEPT ![w].is = "gone"]
  /\ child' = IF child = w /\ cli # "closing" /\ command = "dev" THEN 0 ELSE child
  /\ UNCHANGED <<command, cli, sources, noticed, timer, awaited, signals, disturbed>>

-----------------------------------------------------------------------------
(* dev.                                                                    *)
Watch ==
  /\ cli = "looking" /\ cli' = "watching"
  /\ UNCHANGED <<command, sources, noticed, timer, workers, child, awaited, signals, disturbed>>

(* A change: the watchers, if they are there, set the timer.                *)
Edit ==
  /\ command = "dev" /\ sources < MaxEdits
  /\ sources' = sources + 1
  /\ IF cli = "watching" THEN timer' = TRUE /\ noticed' = sources' ELSE UNCHANGED <<timer, noticed>>
  /\ UNCHANGED <<command, cli, workers, child, awaited, signals, disturbed>>

(* stopWorker: the child is told to stop, nobody's child any more, and      *)
(* awaited, for five seconds at most; if there is none it is over at once.   *)
Stopping(next) ==
  /\ child' = 0
  /\ awaited' = awaited \cup {[of |-> child, next |-> next]}
  /\ workers' = IF child \in Left THEN [workers EXCEPT ![child].is = "stopping"] ELSE workers

Spawn ==
  /\ Len(workers) < MaxWorkers
  /\ workers' = Append(workers, Spawned) /\ child' = Len(workers')

(* Mutant: the new worker does not wait for the old one.                    *)
RestartAtOnce ==
  /\ timer /\ cli = "watching" /\ timer' = FALSE
  /\ disturbed' = (disturbed \/ awaited # {})
  /\ Spawn /\ UNCHANGED awaited
  /\ UNCHANGED <<command, cli, sources, noticed, signals>>

(* The timer's boot.                                                       *)
Restart ==
  /\ timer /\ cli = "watching" /\ timer' = FALSE
  /\ disturbed' = (disturbed \/ awaited # {})
  /\ IF child = 0 THEN Spawn /\ UNCHANGED awaited ELSE Stopping("spawn")
  /\ UNCHANGED <<command, cli, sources, noticed, signals>>

(* A worker that was told to stop is gone, and whoever awaited it goes on.  *)
(* A CLI that is gone awaits nothing.                                      *)
Gone(w) ==
  /\ workers[w].is = "stopping"
  /\ LET rest == [workers EXCEPT ![w].is = "gone"]
         resumed == {a \in awaited : a.of = w /\ cli # "exited"}
     IN  /\ awaited' = awaited \ resumed
         /\ IF \E a \in resumed : a.next = "spawn"
              THEN /\ Len(workers) < MaxWorkers
                   /\ workers' = Append(rest, Spawned) /\ child' = Len(workers')
              ELSE workers' = rest /\ UNCHANGED child
         /\ cli' = IF \E a \in resumed : a.next = "exit" THEN "exited" ELSE cli
  /\ UNCHANGED <<command, sources, noticed, timer, signals, disturbed>>

(* SIGTERM, SIGINT: the first closes; a second, and one that comes before    *)
(* there is a handler, ends the CLI where it is.                           *)
Close ==
  /\ command = "dev" /\ cli \in {"looking", "watching", "closing"}
  /\ signals' = signals + 1 /\ timer' = FALSE
  /\ disturbed' = (disturbed \/ cli # "watching" \/ awaited # {})
  /\ IF cli = "watching" /\ child # 0
       THEN cli' = "closing" /\ Stopping("exit")
       ELSE cli' = "exited" /\ UNCHANGED <<workers, child, awaited>>
  /\ UNCHANGED <<command, sources, noticed>>

-----------------------------------------------------------------------------
(* start.                                                                  *)

(* pollHealth: a worker that serves answers, one that drains as well; one    *)
(* that is gone, or silent until the deadline, is given up and killed.      *)
Healthy ==
  /\ cli = "polling" /\ workers[1].is \in {"serving", "stopping"}
  /\ cli' = "ready"
  /\ UNCHANGED <<command, sources, noticed, timer, workers, child, awaited, signals, disturbed>>

GiveUp ==
  /\ cli = "polling" /\ cli' = "exited"
  /\ workers' = [workers EXCEPT ![1].is = "gone"]
  /\ UNCHANGED <<command, sources, noticed, timer, child, awaited, signals, disturbed>>

(* The first signal is passed on, the second kills; a worker that boots has  *)
(* no handler yet.                                                         *)
Forward ==
  /\ command = "start" /\ cli # "exited" /\ signals < 2
  /\ signals' = signals + 1
  /\ workers' = [workers EXCEPT ![1].is =
       IF @ = "gone" \/ signals = 1 \/ @ = "booting" THEN "gone" ELSE "stopping"]
  /\ UNCHANGED <<command, cli, sources, noticed, timer, child, awaited, disturbed>>

(* The CLI exits with the code of its child.                               *)
Exit ==
  /\ cli = "ready" /\ workers[1].is = "gone"
  /\ cli' = "exited"
  /\ UNCHANGED <<command, sources, noticed, timer, workers, child, awaited, signals, disturbed>>

-----------------------------------------------------------------------------
(* Properties.                                                             *)
SupervisorTypeOK ==
  /\ command \in {"dev", "start"}
  /\ cli \in {"looking", "watching", "closing", "polling", "ready", "exited"}
  /\ {sources, noticed} \subseteq 0 .. MaxEdits
  /\ workers \in Seq([is : {"booting", "serving", "stopping", "gone"}, read : 0 .. Unread])
  /\ child \in 0 .. Len(workers)
  /\ awaited \subseteq [of : 1 .. Len(workers), next : {"spawn", "exit"}]
  /\ signals \in 0 .. 2 /\ {timer, disturbed} \subseteq BOOLEAN

(* Nothing is due.                                                         *)
Settling == timer \/ awaited # {}

(* Restarted on change: once nothing is due, the worker that dev knows has   *)
(* read the files as they are, or is about to; however restarts overlap.    *)
UpToDate ==
  cli = "watching" /\ ~Settling /\ child # 0 => workers[child].read >= noticed

(* Restarts that do not overlap leave one worker at a time (they all listen  *)
(* on one port), and a CLI that ends, ends with it.                        *)
Alone ==
  ~disturbed => /\ Cardinality(Left) <= 1
                /\ cli = "exited" => Left = {}

Supervised == SupervisorTypeOK /\ UpToDate /\ Alone

(* dev runs "the worker" "in watch mode": once nothing is due there is one.  *)
OneWorker ==
  cli = "watching" /\ ~Settling => Cardinality({w \in Left : workers[w].is # "stopping"}) <= 1
==============================================================================
