------------------------------ MODULE WorkerLife ------------------------------
(***************************************************************************)
(* What one worker process does between its boot and its exit: attempts    *)
(* pass the limiter behind globalConcurrency (createLimiter and runJob,    *)
(* core/src/worker.ts), write log lines (job-logs.ts), buffer spans that   *)
(* are flushed before the attempt settles (span-export.ts), and a signal   *)
(* closes the worker around them (worker/src/app.ts, index.ts, nitro.ts,   *)
(* lifecycle.ts; close in core/src/runtime.ts).                            *)
(***************************************************************************)
EXTENDS Naturals, FiniteSets, Sequences

CONSTANTS
  Attempts,  \* the attempts the consumers claim
  Chatty,    \* those whose handlers log and have a span of their own
  MaxActive, \* globalConcurrency
  MaxRows,   \* MAX_BUFFERED_ROWS
  MaxLines,  \* bound: lines an attempt logs
  MaxLosses  \* bound: inserts of spans and closes of consumers that fail

ASSUME LifeAssumption ==
  /\ IsFiniteSet(Attempts) /\ "timer" \notin Attempts /\ Chatty \subseteq Attempts
  /\ MaxActive \in Nat \ {0}
  /\ {MaxRows, MaxLines, MaxLosses} \subseteq Nat

VARIABLES
  at,      \* at[a]: where attempt a is
  active,  \* the limiter's counter
  waiting, \* the limiter's queue of waiters
  written, \* written[a]: lines its handler has logged
  unsent,  \* unsent[a]: those the transport does not have yet
  ended,   \* attempts whose handler's own span has ended
  buffer,  \* rows of spans that ended
  chain,   \* the flushes asked for, one after the other: an attempt's, or the timer's
  flight,  \* rows being inserted by the first of them
  saved,   \* rows in the store
  owed,    \* history: owed[a], rows of a in the buffer or in flight when its span ended
  stage,   \* how far close is
  hook,    \* the onShutdown hook
  failed,  \* a consumer's close was rejected
  exit,    \* how the process has ended
  losses   \* history

limiter == <<active, waiting>>
spans == <<ended, buffer, chain, flight, saved, owed>>
shutdown == <<stage, hook, failed, exit>>
lifeVars == <<at, limiter, written, unsent, spans, shutdown, losses>>

LifeInit ==
  /\ at = [a \in Attempts |-> "idle"] /\ active = 0 /\ waiting = <<>>
  /\ written = [a \in Attempts |-> 0] /\ unsent = [a \in Attempts |-> 0]
  /\ ended = {} /\ buffer = {} /\ chain = <<>> /\ flight = {} /\ saved = {}
  /\ owed = [a \in Attempts |-> {}]
  /\ stage = "serving" /\ hook = "none" /\ failed = FALSE /\ exit = "none"
  /\ losses = 0

Alive == stage # "exited"
In(pc) == {a \in Attempts : at[a] = pc}
Move(a, from, to) == Alive /\ at[a] = from /\ at' = [at EXCEPT ![a] = to]

-----------------------------------------------------------------------------
(* createLimiter.  A consumer claims jobs until it is closed, and each one   *)
(* passes the limiter: it takes a slot, or waits.                          *)
Claims == stage \in {"serving", "hook"}

Take(a) ==
  /\ Claims /\ active < MaxActive /\ Move(a, "idle", "running")
  /\ active' = active + 1
  /\ UNCHANGED <<waiting, written, unsent, spans, shutdown, losses>>

(* Mutant: the attempt that could take the last slot waits as well.         *)
WaitEarly(a) ==
  /\ Claims /\ active >= MaxActive - 1 /\ Move(a, "idle", "waiting")
  /\ waiting' = Append(waiting, a)
  /\ UNCHANGED <<active, written, unsent, spans, shutdown, losses>>

Wait(a) ==
  /\ Claims /\ active >= MaxActive /\ Move(a, "idle", "waiting")
  /\ waiting' = Append(waiting, a)
  /\ UNCHANGED <<active, written, unsent, spans, shutdown, losses>>

(* A waiter that was woken takes its slot in a microtask of its own, without *)
(* a second look at the counter.                                           *)
Resume(a) ==
  /\ Move(a, "woken", "running")
  /\ active' = active + 1
  /\ UNCHANGED <<waiting, written, unsent, spans, shutdown, losses>>

(* Mutant: the waiter is left for the next release to wake.                 *)
ReleaseUnannounced(a) ==
  /\ Alive /\ at[a] = "ending" /\ active' = active - 1
  /\ at' = [at EXCEPT ![a] = "done"]
  /\ UNCHANGED <<waiting, written, unsent, spans, shutdown, losses>>

(* The attempt is over; its slot is free and the first waiter is woken.     *)
Release(a) ==
  /\ Alive /\ at[a] = "ending" /\ active' = active - 1
  /\ IF waiting = <<>>
       THEN at' = [at EXCEPT ![a] = "done"] /\ UNCHANGED waiting
       ELSE /\ at' = [at EXCEPT ![a] = "done", ![Head(waiting)] = "woken"]
            /\ waiting' = Tail(waiting)
  /\ UNCHANGED <<written, unsent, spans, shutdown, losses>>

-----------------------------------------------------------------------------
(* withJobLogs: a line of the handler is sent when the one before it has    *)
(* settled, written or not; what is logged after the handler is not sent.   *)
Log(a) ==
  /\ Alive /\ a \in Chatty /\ at[a] = "running" /\ written[a] < MaxLines
  /\ written' = [written EXCEPT ![a] = @ + 1]
  /\ unsent' = [unsent EXCEPT ![a] = @ + 1]
  /\ UNCHANGED <<at, limiter, spans, shutdown, losses>>

Send(a) ==
  /\ Alive /\ unsent[a] > 0
  /\ unsent' = [unsent EXCEPT ![a] = @ - 1]
  /\ UNCHANGED <<at, limiter, written, spans, shutdown, losses>>

(* The handler returns or throws.                                          *)
Return(a) ==
  /\ Move(a, "running", "draining")
  /\ UNCHANGED <<limiter, written, unsent, spans, shutdown, losses>>

(* onEnd of a span's rows: none of them is kept when the buffer is full.    *)
Buffered(rows) == IF Cardinality(buffer) >= MaxRows THEN buffer ELSE buffer \cup rows

(* A span of the handler's own ends: usually before the handler returns,    *)
(* but nothing makes it.                                                   *)
EndOwnSpan(a) ==
  /\ Alive /\ a \in Chatty \ ended /\ at[a] \notin {"idle", "waiting", "woken"}
  /\ ended' = ended \cup {a}
  /\ buffer' = Buffered({<<a, MaxLines + 1>>})
  /\ UNCHANGED <<at, limiter, written, unsent, chain, flight, saved, owed, shutdown, losses>>

Of(a, rows) == {r \in rows : r[1] = a}

(* Mutant: the attempt does not wait for the lines.                        *)
EndSpanAtOnce(a) ==
  /\ Move(a, "draining", "flushing")
  /\ buffer' = Buffered({a} \X (0 .. written[a]))
  /\ owed' = [owed EXCEPT ![a] = Of(a, buffer' \cup flight)]
  /\ chain' = Append(chain, a)
  /\ UNCHANGED <<limiter, written, unsent, ended, flight, saved, shutdown, losses>>

(* The lines are sent: the span of the attempt ends, with an event for each  *)
(* line, and forceFlush joins the chain.                                   *)
EndSpan(a) ==
  /\ unsent[a] = 0 /\ Move(a, "draining", "flushing")
  /\ buffer' = Buffered({a} \X (0 .. written[a]))
  /\ owed' = [owed EXCEPT ![a] = Of(a, buffer' \cup flight)]
  /\ chain' = Append(chain, a)
  /\ UNCHANGED <<limiter, written, unsent, ended, flight, saved, shutdown, losses>>

-----------------------------------------------------------------------------
(* The span processor.                                                     *)

(* The timer asks for a flush every two seconds.                           *)
Tick ==
  /\ Alive /\ buffer # {} /\ \A i \in DOMAIN chain : chain[i] \in Attempts
  /\ chain' = Append(chain, "timer")
  /\ UNCHANGED <<at, limiter, written, unsent, ended, buffer, flight, saved, owed, shutdown, losses>>

(* The first flush of the chain is over, and whoever asked for it goes on.   *)
Flushed ==
  /\ chain' = Tail(chain)
  /\ at' = [a \in Attempts |-> IF a = Head(chain) THEN "ending" ELSE at[a]]

(* It takes the whole buffer, if there is anything in it ...                *)
Flush ==
  /\ Alive /\ chain # <<>> /\ flight = {}
  /\ flight' = buffer /\ buffer' = {}
  /\ IF buffer = {} THEN Flushed ELSE UNCHANGED <<at, chain>>
  /\ UNCHANGED <<limiter, written, unsent, ended, saved, owed, shutdown, losses>>

(* ... and inserts it.  Rows whose insert fails are given up.               *)
Inserted ==
  /\ Alive /\ flight # {}
  /\ \/ saved' = saved \cup flight /\ UNCHANGED losses
     \/ losses < MaxLosses /\ losses' = losses + 1 /\ UNCHANGED saved
  /\ flight' = {} /\ Flushed
  /\ UNCHANGED <<limiter, written, unsent, ended, buffer, owed, shutdown>>

-----------------------------------------------------------------------------
(* Shutdown.  The first signal closes the worker, whichever host owns it;   *)
(* the second finds no handler, or one that has nothing to wait for: the    *)
(* process is gone.                                                        *)
Signal ==
  /\ stage = "serving"
  /\ stage' = "hook" /\ hook' = "running"
  /\ UNCHANGED <<at, limiter, written, unsent, spans, failed, exit, losses>>

Again ==
  /\ stage \notin {"serving", "exited"}
  /\ stage' = "exited" /\ exit' = "forced"
  /\ UNCHANGED <<at, limiter, written, unsent, spans, hook, failed, losses>>

(* runHook: the hook ends, or is abandoned when its time is over.           *)
HookEnds ==
  /\ Alive /\ hook \in {"running", "abandoned"}
  /\ hook' = "done"
  /\ stage' = IF stage = "hook" THEN "consumers" ELSE stage
  /\ UNCHANGED <<at, limiter, written, unsent, spans, failed, exit, losses>>

(* Mutant: the hook is waited for.                                         *)
HookAwaited ==
  /\ stage = "hook" /\ hook = "done"
  /\ stage' = "consumers"
  /\ UNCHANGED <<at, limiter, written, unsent, spans, hook, failed, exit, losses>>

HookExpires ==
  /\ stage = "hook"
  /\ hook' = "abandoned" /\ stage' = "consumers"
  /\ UNCHANGED <<at, limiter, written, unsent, spans, failed, exit, losses>>

(* close of the runtime: every consumer's close settles, when its attempts   *)
(* have ended or with an error, ...                                        *)
ConsumersClose ==
  /\ stage = "consumers"
  /\ \/ (\A a \in Attempts : at[a] \in {"idle", "done"}) /\ UNCHANGED <<failed, losses>>
     \/ losses < MaxLosses /\ losses' = losses + 1 /\ failed' = TRUE
  /\ stage' = "world"
  /\ UNCHANGED <<at, limiter, written, unsent, spans, hook, exit>>

(* ... the world is closed whatever they said, and the process exits.       *)
WorldCloses ==
  /\ stage = "world"
  /\ stage' = "exited" /\ exit' = IF failed THEN "error" ELSE "clean"
  /\ UNCHANGED <<at, limiter, written, unsent, spans, hook, failed, losses>>

-----------------------------------------------------------------------------
(* Properties.                                                             *)
LifeTypeOK ==
  /\ at \in [Attempts -> {"idle", "waiting", "woken", "running", "draining", "flushing", "ending",
                          "done"}]
  /\ active \in Nat /\ waiting \in Seq(Attempts)
  /\ written \in [Attempts -> 0 .. MaxLines] /\ unsent \in [Attempts -> 0 .. MaxLines]
  /\ ended \subseteq Attempts
  /\ \A rows \in {buffer, flight, saved} : rows \subseteq Attempts \X (0 .. MaxLines + 1)
  /\ owed \in [Attempts -> SUBSET (Attempts \X (0 .. MaxLines + 1))]
  /\ chain \in Seq(Attempts \cup {"timer"})
  /\ stage \in {"serving", "hook", "consumers", "world", "exited"}
  /\ hook \in {"none", "running", "abandoned", "done"}
  /\ failed \in BOOLEAN /\ exit \in {"none", "clean", "error", "forced"}
  /\ losses \in 0 .. MaxLosses

Holding == {a \in Attempts : at[a] \in {"running", "draining", "flushing", "ending"}}

(* The limiter's counter is the number of attempts that hold a slot, its    *)
(* queue holds exactly the attempts that wait, and nobody waits while a     *)
(* slot is free that no woken waiter is about to take.                     *)
Counted ==
  /\ LifeTypeOK
  /\ active = Cardinality(Holding)
  /\ In("waiting") = {waiting[i] : i \in DOMAIN waiting}
  /\ Len(waiting) = Cardinality(In("waiting"))
  /\ waiting # <<>> => active + Cardinality(In("woken")) >= MaxActive

(* Once an attempt has settled, whichever flush its rows were swept up by,   *)
(* all it logged was sent and all rows it had buffered were saved, or given  *)
(* up by an insert that failed; and a process that exits by itself has      *)
(* settled every attempt it had begun.                                     *)
Settled ==
  /\ \A a \in Attempts : at[a] \in {"ending", "done"} =>
       /\ unsent[a] = 0
       /\ owed[a] \cap (buffer \cup flight) = {}
       /\ losses = 0 => owed[a] \subseteq saved
  /\ exit = "clean" => \A a \in Attempts : at[a] \in {"idle", "done"}

(* Whoever waits for a slot gets to run, whoever else comes, unless the     *)
(* process goes.                                                           *)
Served == \A a \in Attempts : at[a] = "waiting" ~> at[a] = "running" \/ ~Alive

(* A worker that was told to stop exits, whatever its hook does.            *)
Exits == stage = "hook" ~> ~Alive

(* "concurrency.global caps parallel jobs per process": no more attempts     *)
(* hold a slot than that, however a woken waiter and a newcomer interleave. *)
Capped == Cardinality(Holding) <= MaxActive
==============================================================================
