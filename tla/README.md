# OpenQueue in TLA+

OpenQueue is a TypeScript task queue.  `core` defines tasks, an enqueuer, a
worker, run history and schedules over a *world*: a transport that delivers
jobs, plus stores for runs, schedules and the task catalog.  There are three
worlds: in-process (`core`), Postgres (`world-postgres`) and Redis
(`world-bullmq`).  `worker` is the process that hosts tasks, `workbench` the
dashboard and its alerts.  This directory models the parts whose correctness
depends on the order in which actors' steps interleave; `PROJECT.json` lists
the runs, the lines each definition models, the hazards and the theorems.
Source paths below are relative to `src/packages/`.

## Inventory

| Component | State it keeps | Operations | What is hard |
|---|---|---|---|
| Postgres transport, `world-postgres/src/transport.ts` | the `jobs` table; per consumer an in-flight map, a poll loop, a heartbeat | enqueue, remove, claim, stall pass, settle, requeue, data write, heartbeat, close | several processes on one table; leases that expire under a running handler; a crash or a lost reply after a commit |
| Local transport, `core/src/transport/local.ts` | a map of records per queue, timers, consumers, flow parents with counters | enqueue, enqueueFlow, remove by handle, consume, close | every path to "waiting" has to pump; flows count children by three routes; handles outlive their record |
| Transport contract, `core/src/transport/types.ts`, `conformance.ts` | none of its own | what every transport promises | one end per insertion, one terminal callback |
| Schedules, `core/src/schedules.ts` | a row in the schedule store; delayed tick jobs in the transport | create, update, activate, deactivate, delete, upsertDeclarative, fire | row and ticks are in two places, changed without a lock |
| Run history, `core/src/{enqueuer,worker,cancel}.ts`, `store/` | the run's status in the store | enqueue hooks, start, progress, completed, failed, cancel | three kinds of actor, each a few awaits long, write one status; flows write many |
| Concurrency limiter, `core/src/worker.ts` | a counter and a list of waiters | run | a waiter is woken before it counts itself |
| Job logs and spans, `core/src/{job-logs,span-export}.ts` | a promise chain, a bounded buffer | log, onEnd, flush | a timer's flush in flight when an attempt ends; the full buffer |
| Worker application, `worker/src` | lifecycle flags | signals, hooks with a timeout, close | a hook that overruns goes on beside the close |
| Worker runtime, `core/src/runtime.ts` | consumers, world | boot with every await, declarative sync, close | replicas and pools of one namespace boot side by side |
| Migrations, `world-postgres/src/migrate.ts` | applied steps | bootstrap, steps, or a check of them | replicas boot together, under an advisory lock |
| Catalog, `core/src/catalog.ts`, `drizzle.ts` | the table of tasks | publish | two statements |
| Postgres storage, `core/src/drizzle.ts` | runs, schedules, catalog, alerts | statements, pruning | one statement each, except publish and pruning |
| Redis state, `world-bullmq/src/state.ts` | hashes of schedules, runs and alert rules, with or without a table behind them | create, update, complete, delete, list, handle, prune | every operation is several calls, and no lock holds them together |
| Retention, `core/src/retention.ts` | timers | sweeps of both stores | sweeps of replicas overlap each other and the events |
| Dashboard queue manager, `workbench/src/core/queue-manager.ts` | caches of counts and pages | listing, changes, invalidation | a read in flight at an invalidation; pages cut from prefixes of many lists |
| Alert manager, `workbench/src/core/alert-manager.ts` | active alerts, cooldowns | health checks, event handlers, resolving | checks overlap; the cooldown map is capped |
| CLI, `cli/src/{index,artifact-start}.ts` | the child process | dev with restarts, start with health polling | edits during a restart; signals before the child is up |
| BullMQ transport, `world-bullmq/src/transport.ts` | library queues | a mapping onto BullMQ | ids of ended jobs are kept; events arrive after the move |
| Control API, authentication, client, dashboard API and UI, build, task definitions | none that others share | requests, conversions, views | one call each |

How they interact.  `enqueue` writes the run as queued and then inserts the job
in the transport.  A consumer claims the job and calls the limiter and `runJob`,
which write start and progress events to the run store; when the handler is over
the spans are flushed, the transport settles its claim, and only then calls
`onCompleted` or `onFailed`, which write the end.  `cancel` reads the run, removes
the job, writes the run.  A schedule is a row whose next occurrence is a delayed
job (a *tick*) in the same kind of transport: serving the tick triggers the
target (an enqueue), moves the row on and enqueues the next tick.  No lock spans
two of these places.  A worker boots through migrations, catalog and schedules
before its consumers start; the CLI starts, restarts and stops it.  The dashboard
reads the transport's queues through caches, and its alert manager polls it.

What makes each part correct:

* *transports*: every insertion of a job has exactly one fate; only the latest
  claim can settle; attempts stay in their budget whatever crashes; nobody
  idles beside a waiting job; every job and every close ends; a flow's parent
  waits for its children and is released or felled exactly once;
* *schedules*: an active schedule always has the tick of its next run and no
  other; an occurrence triggers once and on the cron in force; whatever failed,
  the next successful create or update repairs the schedule; it always moves on;
* *run history*: an end that is shown did happen; a job is on record before it
  exists; a run shown as on its way is, or went in a way that is named; final statuses
  stay; every run ends;
* *process*: migrations take effect once; schedules that pools share stay armed;
  the limiter counts; nothing an attempt buffered is lost when it settles; every
  waiter is served; a stopped worker exits; dev serves the newest sources;
* *Redis state*: a hash that calls itself complete misses nothing; what no call
  was cut short or overtaken on agrees with the table; the durable store forgets
  no run before its time;
* *dashboard*: what is read after an invalidation is as new as the change behind it; one alert per
  cooldown; paging shows every run once.

## Modules

| Modules | About | Checked by |
|---|---|---|
| `JobDelivery`; `PgTransport`, `PgTransport_proofs` | the contract; the Postgres transport, which implements it | `pg_faults`, `pg_live`, proofs |
| `LocalTransport`, `LocalTransport_proofs` | the in-process transport, which implements it too | `local_flow`, `local_live`, proofs |
| `LocalWorld` (extends it; proved about in `LocalTransport_proofs`) | the in-process world: rows, enqueues, flows, cancels and worker events around the transport | `local_world`, proofs |
| `Schedules`, `Schedules_proofs` | one schedule against its row and its ticks | `sched`, proofs |
| `RunHistory`, `RunHistory_proofs` | one run, in every world, with all faults | `run_dup`, `run_faults`, proofs |
| `Boot`, `WorkerLife`, `Supervisor`; `Process`, `Process_proofs` | the worker process from spawn to exit | `process`, proofs |
| `ScheduleCache`, `RunCache`, `AlertRules`; `RedisState`, `RedisState_proofs` | what the BullMQ world keeps in Redis | `redis_state`, proofs |
| `Workbench`, `Alerts`, `RunListing`, `Metrics`; `Dashboard`, `Dashboard_proofs` | the dashboard's caches, alerts, listings and metrics | `dashboard`, `alerts_resolve`, proofs |

`JobDelivery` is the abstract specification both transports implement:
`PgTransport!Delivery` and `LocalTransport!Delivery` instantiate it under a
refinement mapping, and `Delivers` is a property of their runs.  `RunHistory`
and `Schedules` stand on the contract: they contain only as much of a transport
as their actors can see.  `Process`, `RedisState` and `Dashboard` put modules of
one program side by side that share no variable: a behaviour of theirs is a
behaviour of one part, chosen at the start, with the others at rest, because
interleaving parts that share nothing shows nothing new.  `MC*` modules give the
constants of small instances; a `.cfg` that is not in the table of runs replays
one of the disagreements below.

### PgTransport
One SQL statement is one action; what a consumer does between two awaits is one
action too.  `row` is the table, `attempts` the running `startJob` promises with
what they captured of their row, `inFlight` the consumer's map, `pc` where the
poll loop awaits, `fetched` what the last statement returned, `awaited` the
promises `closeConsumer` collected.

| Code | Actions |
|---|---|
| `enqueue`, `remove` | `Enqueue`, `Remove` |
| `stallPass` | `StallRecover`, `StallFail`, `StallReport`, `StallThrows` |
| `claim`, `runLoop`, `waitForWork` | `Claim`, `Idle`, `Start` |
| `processAndSettle`, `deleteJob`, `requeue` | `Finish`, `Settle`, `SettleLost`, `SettleThrows`, `Report` |
| `persistData`, `heartbeat` | `UpdateData`, `Heartbeat` |
| `closeConsumer`, `consume` | `Close`, `LoopExit`, `CloseDone`, `Restart` |
| the process, the clock, the connection | `Crash`, `Elapse`, lost replies inside the statement's action |

Time is one flag per row: `elapsed` says that `now()` has passed `run_at` (of a
waiting row) or `claimed_until` (of an active one).  Tokens are numbers taken
from a counter, as `randomUUID` never repeats one.

### LocalTransport
One synchronous run of JavaScript is one action, the `pump` at its end
included.  `mem` holds what the closure of `localTransport` holds; a record is
named by its id and its birth number because handles and children refer to the
object while the map knows the id.

| Code | Actions |
|---|---|
| `enqueue`, `enqueueFlow`, `buildFlowRecord`, `admit` | `Enqueue`, `EnqueueFlow` |
| timers | `Timer` |
| `runAttempt` up to the callback: completed, retried, failed | `Succeed`, `Retry`, `Fail` (with `settleParentOnFinalFailure`, `failParent`) |
| the callback has returned (`onChildSettled`, `pump`) | `Return` |
| `getJob`/`listDelayed`, `remove` | `GetJob`, `RemoveJob` |
| `consume`, closes | `Consume`, `CloseConsumer`, `ConsumerClosed`, `CloseTransport`, `TransportClosed` |

Assumed: the runtime's `onError` does not throw; a queue has one open consumer
(as `createWorkerConsumers` makes them); the transport is closed after its
consumers.

### LocalWorld
`LocalTransport` with the code that calls it.  `rows` is the memory run store,
`calls` where each client's enqueue, enqueueFlow or cancel is, `started` the
attempts whose start event is written.  Every transport step is one of
`LocalTransport`'s actions, conjoined with the row it writes, if it writes one.

| Code | Actions |
|---|---|
| `enqueue`, `enqueueFlow` and their hooks | `CallEnqueue`, `CallFlow`, `WriteRow`, `Insert` |
| `createRunCancel` | `CallCancel`, `Find`, `RemoveRun`, `CancelRow` |
| `runJob`, `ctx.progress` | `Starts`, `Progresses` |
| `onCompleted`, `onFailed` | `Completes`, `Retries`, `Fails` |

The store answers in the same turn, so that the end of an attempt and its row
are one step.  Eviction of the oldest of 5 000 rows is left out.  A consumer knows the
tasks its worker loaded (`Registered`): a job of any other name is failed at once, and
`runJob`, `onCompleted` and `onFailed` return before they write anything of it
(`HasHandler`).  `astray` names the runs whose job went or never came without anyone
writing a row, of four kinds: a parent that fell with its child, what hung below a flow
whose root was there already, a job that a stale handle removed while it ran, once its
attempt asks for another, and a job that a consumer without a handler failed.
`OnItsWay` says that there are no others.

### Schedules
One cron schedule.  Every operation is its awaits in order: patch the row
(`Create`, `Update`, `Activate`, `Deactivate`, `Delete`, `Write`), list the
delayed ticks (`List`), remove them one by one (`Remove`), enqueue the tick of
the row *as the patch returned it* (`Finish`).  A fire is `Claim`, `Read`,
`Trigger`, `Write`, `List`, `Remove`, `Finish`, `Settle`.  `Throw` and `Crash`
hit between any two.  Stores whose patch is one statement are modelled (memory,
Postgres: there a create of an existing key activates it, constant `Revives`);
the Redis store is `ScheduleCache`.  A target that throws does not
stop the fire: the row moves on and the next tick is enqueued before the error
reaches the transport, so the retried tick finds another occurrence awaited and
triggers nothing.  A tick that exhausts its attempts, or stalls more than `MaxStalled`
times, is over.  `enqueueNext` asks for failed ticks to be kept; BullMQ does (constant
`KeepsFailed`; the other transports do not), and as the id of a tick is that of its
occurrence, an enqueue of the same occurrence then does nothing until retention drops
the failed one (`Forget`).  `runNow` touches neither row nor ticks.  The legacy tick id is
taken not to exist.

### RunHistory
One run and the job of the same id.  `calls` is where each client's enqueue or cancel is
(`Hook`, `Snapshot`, `Insert`, `InsertThrows`, `FailHook`; `Read`, `Remove`,
`RemoveExpired`, `CancelHook`), `work` what each worker slot is busy with (`Claim`,
`Start`, `Save`, `Progress`, `Settle`, `Report`); `Expire` and `Crash` are the
transport's and the process's.  `Handlers` are the slots of workers that have a handler
for the task: any other fails the job and reports nothing, and `unreported` remembers
that it did.  Three more constants stand for the worlds: `Atomic` (the store handles an
event in one statement: memory, Postgres; Redis reads and then writes), `Retains` (the
transport keeps the ids of ended jobs: BullMQ), `Prompt` (a failure is recorded before
its retry can be claimed, true when the backoff is longer than the report).  A task
without an input schema is modelled: its start event asks nothing of the claim.  Stores
do not fail; drains other than the store are not modelled.

### Boot, WorkerLife, Supervisor, Process
`Boot` is `createQueueWorkerFromWorld` of several workers on one database: `boot[p].pc`
is the await it is in.  `Probe` is the worker that only asserts the migrations;
`Lock`, `Migrate`, `Unlock` is the one that applies them, with a step and its
bookkeeping row as one transaction; `Publish` and `Insert` are the two statements of
the catalog; `Create`, `Clear`, `Arm` are a declarative upsert of each task at its
own pace, `List`, `Untick`, `Delete` the removal of schedules whose task the worker
does not have.  A row waits for an instant of its cron and a tick is for one; `Elapse`
lets instants come.  A worker that is up serves the ticks that are due (`Fire`): one
whose instant is the row's moves the row on (`Complete`) and arms it again, any other
fires nothing.  Each call keeps the instant it computed, so that two on either side of
an instant may disagree; `mixed` remembers the tasks of which two were arming different
instants at once.  `Fault` is a rejected await or a crash.

`WorkerLife` is one worker.  An attempt is `Take`n or has to `Wait`; `Release` wakes a
waiter, which counts itself only in `Resume`, a microtask later.  `Log`/`Send` is the
chain of line writes, `EndOwnSpan`/`EndSpan` the buffer, `Tick` the flush timer,
`Flush`/`Inserted` the chained flushes, `Return` the end of the drain of lines.
`Signal`, `Again`, `HookEnds`, `HookExpires`, `ConsumersClose`, `WorldCloses` is the
shutdown: consumers are closed while attempts run, and a second signal exits at once.

`Supervisor` is `openqueue dev` (`Edit`, `Watch`, `Restart`, `Gone`, `Spawn`, `Load`, `Crash`,
`Close`) and `openqueue start` (`Healthy`, `GiveUp`, `Forward`, `Exit`).

### ScheduleCache, RunCache, AlertRules, RedisState
One call to Redis or to the database is one action, so that any two operations
interleave at every await, and an operation may be cut short after any of them.
A `MULTI` and a single statement are one action.  `durable`, `backed` and `persisted` say
whether there is a table behind the hash.  In `RunCache` time is a small clock; a
sweep is the list of expired rows, then the deletion in batches; the sweep of the
table holds the advisory lock.

### Workbench, Alerts, RunListing, Metrics, Dashboard
`Workbench` keeps what a queue holds as a version number; a reader looks up, reads
queue by queue and stores.  A caller changes a queue, and perhaps others with it (the
children of a flow), and then invalidates the one it named (`Change`, `Invalidate`), or
changes queues and invalidates nothing (`ChangeSilently`: `cleanJobs`, `runSchedulerNow`,
`createFlow`); `since` is what calls that invalidate made of a queue, `told` what any call
made of it.  What the workers do is `Move`.  In `Alerts` a
check or handler goes rule by rule through cooldown, event and delivery; what it is
told of the queues is any answer, as the page may be stale.  `RunListing` is the
cursor arithmetic of `getLatestRuns`, `getAllRuns` and `getJobs` over any lists of a
small number of runs.  `Metrics` is what `getMetrics` and `getActivityStats` add up of
the jobs that ended: `JobsRead` is `getJobsByTimeRange` with its limit and its fallback,
`Bucketed` the hours, `Group` a failing type.  Averages, and which jobs were slowest,
are left out.

## Runs

| Run | Instance | Shows |
|---|---|---|
| `pg_faults` | 1 job, 2 processes, 2 attempts, 1 stall, 1 fault | tokens fence settlement (`FenceInv`, `SingleOwner`), budgets hold (`ClaimsPaid`), a live lease protects its claim (`LeaseProtects`), the contract, with one fate for every insertion, is kept (`Delivers`) |
| `pg_live` | 1 job, 2 processes, 1 fault, fair | jobs leave, closes end, verdicts reach their callback |
| `local_flow` | a parent and two children in two queues, one handle, 2 attempts | slots, records, parents and the contract (`NoIdleSlot`, `NothingForgotten`, `ParentWaits`, `Delivers`); 547 589 states |
| `local_live` | the same flow with a delay, 2 consumers of one queue, fair | jobs leave, closes end |
| `local_world` | a parent and a child, 2 clients, 3 calls, 2 attempts, 2 consumers of which one has a handler for the parent only | `OnItsWay`; 2 512 975 states |
| `sched` | 1 process, 2 crons, 3 calls, 3 instants, 2 attempts at a tick, 1 stall, a throw, 2 crashes, failed ticks kept, fair | `ScheduleKept`, `TriggeredOnce`, `OnCron`, `Rearms`, `Moves`; 220 604 states |
| `run_dup` | 2 clients, 4 enqueues of one id, 3 attempts, 3 slots of which one has no handler, fair | `Recorded`, `Truth`, `CompletedStays`, `Ends`; 1 358 states |
| `run_faults` | every fault at once, Redis-like store, the same slots | `EndsTrue`; 1 317 580 states |
| `process` | 3 workers of 2 builds and 2 task sets, 3 boots, 1 instant that comes, 1 fault; 3 attempts through 1 slot; 3 edits, 5 children; fair | `Migrated`, `CommonArmed`, `Counted`, `Settled`, `Served`, `Exits`, `Supervised`; 288 580 states |
| `redis_state` | 2 clients, 2 ids, 2 keys, 3 calls, 1 cut; 2 writers and 2 sweepers of 2 runs in a cache of 1; 2 admins of 2 rules | `NothingMissing`, `Current`, `RunsKept`, `RulesTrue`; 952 888 states |
| `dashboard` | 1 queue, 2 readers, 1 caller, 2 changes; 2 checks and a handler, a cooldown map of 1; 4 runs in 3 lists; 3 ended jobs of 2 names, 2 buckets of 2 instants, lists read up to 2 | `Accurate`, `Spaced`, `CooldownsTrue`, and `ViewsRight`, which is `PagesRight` of the listings and `MetricsRight` of the metrics; 607 202 states |
| `alerts_resolve` | 1 check, 1 rule | **violated**: what fired is tracked (`Tracked`) |

Bounds.  One job is enough for what concerns one row: rows share nothing but the token
of a batch and the consumer's capacity, and the theorems cover any number of jobs and
any batch.  Two processes give an old and a new claimant; one stall and two attempts
give each counter a step below and a step at its limit.  A flow of one parent and two
children has a first, a last and a concurrent child; with two calls the in-process world
is checked for it too (`MCLocalWorld_all.cfg` with `j2`, `MaxCalls = 2` and `MaxEnqueues
= 2`).  That a stale handle removes a running record whose id is then enqueued a third
time takes five calls: there `OnItsWay` is proved, and was checked on a single job.
Schedules need two crons and three instants for an update to replace an occurrence by an
earlier and by a later one, and three calls for create, change, change back.  In the
history a cancel, two enqueues and two lost leases let every pair of writers overlap; a
slot without a handler takes the job before, between or after the others.  A tick needs
two attempts to be tried again and to be over, a throw and two crashes to get there on
either way.  Two replicas that migrate, one that does not and has another text for a
step, give every order of lock and check; the third boot is that of the third worker or
a restart, and the one instant comes before, between or after the calls that compute it;
one slot and three attempts give a runner, a waiter and a newcomer. In Redis two callers
of two ids and keys overlap in pairs, and the third call finds what they left; a cache
of one evicts on every second run.  A cooldown map of one entry evicts as soon as a
second rule fires; pages of one run over three lists start, end and cross a list (pages
of two hold as well).  Two instants on either side of an hour give the metrics a window
that begins inside a bucket, and three jobs a list that is one over its limit.  The
caches were checked by hand with two queues and one reader as well (279 419 states); the
theorem is for any queues.  All bounds are constants: `MaxEnqueues`, `MaxFaults`,
`MaxTime`, `MaxCalls`, `MaxBusy`, `MaxThrows`, `MaxCrashes`, `MaxCancels`,
`MaxExpiries`, `MaxStarts`, `MaxClock`, `MaxStalled`, `MaxLines`, `MaxLosses`,
`MaxEdits`, `MaxWorkers`, `MaxWrites`, `MaxBroken`, `MaxBreaks`, `MaxChanges`; they
occur only in guards. Deadlock is not checked where a bounded system may stop: closed
transports, exited workers, used-up calls.

Fairness.  Awaited promises settle and timers fire (weak fairness of the steps
of a call, of timers, of handlers and callbacks): that is the event loop.  A
consumer keeps polling (`runLoop` sleeps and repeats, and catches its errors).
A dead worker is replaced (`Restart`), which is the deployment's promise.  In
Postgres time passes for a waiting row, and for a lease only while no process
extends it, because a lease that is renewed in time never elapses.  Serving a
tick and settling an attempt are strongly fair, as retries and lost leases may
disable them again and again.  In `WorkerLife` handlers return, the transport and
the store answer, flushes end and the hook's timer fires; nothing is assumed of
the hook itself, which may hang, nor of signals.

## Proofs

`PgTransport_proofs` proves, for any number of jobs, processes, attempts and
faults: the type invariant (`TypeCorrect`), the fence (`Fenced`), one owner
(`OneOwner`), the budget (`BudgetKept`, `RunsBounded`) and that a live lease
protects its claim (`LeaseHolds`).  "At most one attempt can settle a row" is not
inductive: `FenceInv` adds that tokens in use were issued, that no two attempts
or fetched rows hold the same token on the same job, and that whoever may still
settle a row remembers it as it is.  Claims are the only step that creates a
holder, and the token they use is fresh.

`JobDelivery` proves of the contract that every insertion has one fate
(`ContractFates`); `PgTransport_proofs` that the table implements it
(`Refines`): each action is mapped to an end, an insertion, a removal, a report,
a loss or a stutter, the fence deciding which settlements take effect.
`FatesKept` then carries the contract's theorem back to the table.

`LocalTransport_proofs` proves three invariants of the in-process transport, that it
implements the contract, and what the world around it shows, for any jobs, flows,
priorities, delays, queues, consumers, concurrency, attempts and insertions. A step of
the model is a chain of edits of the memory (delete a record, count its parent down,
admit the parent, fell the ones above, pump), so the invariant is stated of *a memory*,
`Sound(m, X, open)`, and each edit has a lemma that it preserves it; `X` are the
consumers whose slot is taken and whose attempt is not on record yet, or the reverse.
`Sound` says that the records of an id are made in turn and the map has the last or none
(`InTurn`), that the order of insertion tells records apart, which is why the pump
always has one first job (`Numbered`), that only delays have timers (`Timed`), that a
handler runs for an active record and is its latest attempt (`Trying`), that slots are
counted (`Slots`) and that delayed and active jobs go on (`Moving`).  `TransportInv`
adds that no job waits beside a free slot (`Filled`), which a step breaks for the jobs
it makes ready until it pumps, and that only what a handle removed is tried outside the
map (`Astray`): removal acts by id, so a stale handle takes the record now under it.
From it follow `NoIdleSlotCorrect` and `NothingForgottenCorrect`.  The proofs showed
that the first wording of `NothingForgotten` said too much: two handlers do run under
one id when a stale handle removed the active record between them, which one insertion
of each id, as in `local_flow`, cannot show.

`ParentWaitsCorrect` is about counting.  `Live` are the records that may still count for
a parent: those in the map that may be tried, those whose completion is being reported,
those a handle may remove.  `Waits` says that a waiting parent's counter is at least
the number of its live children, and that a parent that no longer waits has none, unless
an option let it run early.  It needs `Lineage` (a parent is older than its children and
has one record of each) and `Completing` (a completion is reported once).  The hypothesis
that no two handles are held at a time is needed: with two, both may remove the same
child, which is then counted twice (see below).  One handle may be stale, and clients may
be any number.

`DeliversCorrect` is the refinement: the in-process transport implements `JobDelivery`.
An enqueue, a flow, a timer and the pump of a new consumer are `Enqueue`s of the records
they make (`Grown`, often none), the end of a handler is an `End`, with the parents that a
failure fells, the return of its callback a `Report`, a handle's removal a `Remove`, the
close of the transport a `Lose`; a retry is no step of the contract's.  It rests on `Owning`:
a handler runs for the record in the map, and the last callback of a record is the only one
of its kind and comes after the record has left.  `Owning`, and the contract, need `Timely`:
no handle removes a record made after it took hold of the id.  A handle that does takes the
later record from the map while its handler runs, and the end of that handler is then an
end of nothing (`ActiveStays` below; TLC finds `Delivers` violated too).  Ids may be enqueued
again, by flows as well, and handles may be any number: that a flow names an id twice costs
its parent the count of that child, not the contract.  `Timely` holds of itself where ids are
enqueued once, as in `local_flow`, or nobody holds a handle (`DeliversOnce`).  With the
contract comes `FatesCorrect`: one fate for every record.

`OnItsWayCorrect` is about `LocalWorld`: a run that the history shows on its way has its
job in the map, a handler, a call about it, or is one of the named astray or discarded
ones, a failure without a handler among them.  `WorldInv` is `TransportInv` with what
the callers add (`Orderly`): only an enqueue has rows left to write, and the call is
about their jobs; a remove has a handle of its job (`CallsRight`); what was removed is
not in the map again (`Fresh`); an attempt whose start is written is at its handler.
`RowsRight` is stronger than `OnItsWay`: a cancel that has read the run or holds its
handle does not count as a call that keeps it on its way (`Tended`), since it may find
the job active, leave it there and return.  The lemmas before say, of each edit of the
memory, which ids stay in the map and which handlers stay (`Lasting`).  On the way comes
`WorldUsesTransport`: every step of the world is a step of the transport or leaves it
alone, so that what is proved of `LocalTransport` holds in it. The proof failed first
where an attempt asks for a retry of a record that a stale handle had removed: the row
says `reattempting` and nobody has the job.  The model had counted such a run as astray
at the removal, and forgot it when the id was enqueued again; it now counts it when the
retry is asked for.

`RunHistory_proofs` proves `TypeCorrect`, `EndsAreTrue` and `JobsRecorded` for any
number of clients and slots, both kinds of store, both kinds of transport and all
faults.  The invariants carry what is in flight: what is about to be reported has
happened (`EndInv`), and whoever inserts has recorded before (`RecordInv`); an
attempt under way has an attempt left (`InBudget`).

That the store is right once all is quiet, and that a completed run stays so, needs a
system that is otherwise `Undisturbed`, where the same run is enqueued again at any
moment and any number of times (`TruthCorrect`; `CompletedStaysCorrect`, although
workers crash).  The store is right about every end but the failure by a worker without
a handler, of which it knows nothing: there the row still waits for an attempt, and that
it says nothing else is part of `Truth`.  Every part of that hypothesis is needed: TLC
refutes both formulas on `MCRunHistory_dup` with a late report (not `Prompt`), a store
that reads before it writes (not `Atomic`), a transport that forgets ended jobs (not
`Retains`), one cancel, one failed enqueue or one expired lease, and `Truth` with one
crash.  `TruthInv` says that one slot at most is at work; it owns the job, or has to
report what the job's state shows; the store tells of an end only when no slot is at
work, and then of the job's.

`Schedules_proofs` proves `TypeCorrect` however operations overlap, and the rest for
operations that do not (`MaxBusy <= 1`; otherwise `ScheduleKept` is false, see below):
`ScheduleKeptCorrect`, `TriggeredOnceCorrect` and the action properties `OnCronCorrect`
and `RearmsCorrect`, for any crons, calls, attempts, throws and crashes.  `TypeInv` has
in it that the fire of a tick is the only one (`TickInv`).  `AloneInv` says what the one
operation knows at each of its awaits: the row it read or wrote is the row, and the list
it removes from has every delayed tick (`RowInv`); until it has written the tick of the
schedule stays (`KeptInv`); an occurrence that ran is no later than the one the schedule
waits for, so that what a fire is about to write comes after it (`OnceInv`).
With failed ticks kept under their id, `Rearms` has an exception that the proof
delimits: a create or an update computes an instant that has not come, and no tick of
such an instant is over, but an activate enqueues the tick of the row as it is, whose id
may be taken by one that is (`SpentTick`; `ActivateArms` below).

`Process_proofs` proves, for any workers, builds, attempts and faults:
`MigratedCorrect` (`Migrated`) and `CountedCorrect` (`Counted`).  That the statements of
a step take effect once is not inductive: `LockInv` adds that one worker at most is
in its migrations, that it holds the lock, and that what it read of the remaining
steps is still true, since nobody else writes them.  A worker that only asserts the
migrations needs no lock: applied steps never change.  For the limiter `LimiterInv`
ties the counter to the attempts that hold a slot and the queue to those that wait,
without repetition; a woken waiter is in neither until it counts itself, which is
why `Counted` holds although the cap does not (`Capped` below).  The buffer's and the
log chain's types need `ChainInv`: the chain of flushes has an entry at most for each
attempt and one for the timer.

It also proves the rest of that composition.  `CommonArmedCorrect`: a task that every
worker has is in nobody's `Doomed`, so that its row stays, and when nothing is in
progress the tick of the row's instant is there.  `ArmInv` says what makes it so: there
is a row once a worker is up (`Rowed`); the calls under way for a task that is not in
`mixed` are all for one instant (`Agreed`), which a row gets from the first of them, so
that each tick they remove is one they will enqueue again; and with no call about it
under way the tick is there (`Ticked`).  `SettledCorrect`: a worker that has closed has
an outcome of each attempt and nothing left in its buffers.  `SupervisedCorrect`: which
processes the supervisor holds.

`RedisState_proofs` proves the state kept in Redis, each third with an invariant of its
own.  For the rules (`RulesTrueCorrect`) it says what an edit, a list or an answer on its
way may still say: however edits overlap, a rule of the table is in the hash, about to
be written there or about to go (`ShownInv`); while they do not, what the one call read
is still true (`AgreeInv`).  For the schedules (`NothingMissingCorrect`, `CurrentCorrect`)
it says which call still covers what Redis and the durable store disagree about.  For
the runs (`RunsKeptCorrect`) it says which event still tells what a store does not
know, who trims a hash that is too large (`TrimInv`), and what a lone call has read
(`HashInv`): a run is missing from the hash only when as many later ones filled it.

`Dashboard_proofs` proves `AccurateCorrect` (a read that is not late holds nothing older
than what the calls that have invalidated the queue made of it, so that neither its
counts nor its metrics are served from before such a call),
`CooldownsTrueCorrect` (pruning keeps one entry for each fingerprint; `Nth` ranks the
entries) and `SpacedCorrect`, an action property (a fingerprint within its cooldown has
its window in the map, or was evicted, so that nothing is delivered twice within it);
and `ViewsRightCorrect`, for any runs, lists and limits.  Of the listings `PagesInv` says
that the rows so far are the first of the whole, sorted, as many as the cursor tells: the
prefixes that are fetched hold at least as many runs as the page needs, or all of them
(`FetchedFacts`), and a set that agrees with another up to a rank is sorted alike up to
there (`SortedFirst`, `SamePage`).  `Sorted` is written by rank, as the provers cannot
use `SortSeq`.  Of the metrics a bucket is the jobs read of its hour
(`HourFacts`, `BucketHours`), and the groups of one hour hold different failures, so that
their trends add up to it (`TrendSum`, which gives the value of the fold for every set of
groups and takes a smallest set on which it would differ).

Besides the hypotheses named above, theorems assume only what their modules do:
`ConstantsAssumption` (in `LocalTransport` with finitely many ids; in `Schedules` no
cron is called "none", the mark of one not given, and every cron has an instant past the
end of time, so that there is a next one); `FlowAssumption` (a flow is a finite tree);
`WorldAssumption` (there is a job, a caller holds one handle, and the bound on
insertions of an id does not run out before that on calls); `BootAssumption` (the
checksums of a build are a sequence of strings other than the mark of a pending step);
`LifeAssumption` (finitely many attempts, a positive limit, and no attempt called
"timer"); `NoneAssumption` and `NoRunAssumption` (the value that stands for no row is
not a row); `RunCacheAssumption` (finitely many runs); `ListingAssumption` and
`MetricsAssumption` (counts and limits are numbers; a page, a batch, a bucket and a day
are not empty, the buckets are whole days, and now is no earlier than their number).
Every invariant and every action property that a run checks is thus stated by a theorem.
Only checked is liveness (`EveryJobEnds`, `CloseEnds`, `VerdictsDelivered`, `ClosesEnd`,
`Moves`, `Ends`, `Served`, `Exits`), which is out of the prover's reach.

## Where the code and its words disagree

Each has an entry under "findings", with the line that says otherwise, and a
configuration that replays it: `tlc -config X.cfg M` ends in a behaviour that
violates the formula.  The two `replay` configurations serve several formulas: name
the one in question as their invariant, or `PatchesItsKey` as their property.  Those
marked with a star replay on the configuration of a run: put the formula in the place
of its invariants and properties.

| Formula | Configuration | What the code does |
|---|---|---|
| `Tracked` | `MCDashboard_resolve` (run `alerts_resolve`) | a fired health alert is looked up under a fingerprint whose parts are in another order, so that it is never tracked or resolved (`alert-manager.ts:329`) |
| `Capped` | `MCProcess_cap` | a waiter that was woken and a newcomer both take the slot (`worker.ts:166`) |
| `HeartbeatCovers` | `MCPgTransport_heartbeat` | the `finally` of an attempt deletes the in-flight entry by job id, also when it is a newer attempt's, whose lease then is no longer renewed (`transport.ts:397`) |
| `ParentsEnd` | `MCLocalTransport_dedup` | a flow that names an id already in the transport counts that child, but the record never learns of its parent (`local.ts:371`) |
| `FlowMarked` | `MCLocalWorld_marked` | no event is reported of a parent that is blocked by, or falls with, its child: its row says `waiting_children` for ever (`local.ts:343`, 349) |
| `NothingAstray` | `MCLocalWorld_astray` | a flow whose root is there already leaves queued rows of children that nobody will run, and sends the row of the root back to `waiting_children` (`enqueuer.ts:290`) |
| `ScheduleKept` | `MCSchedules_race` | of two overlapping operations the one with the older row may enqueue last; its tick is dropped and none follows (`schedules.ts:100`) |
| `CompletedStays` | `MCRunHistory_late` | a cancel overwrites a run that completed since it was read (`cancel.ts:79`) |
| `ActivateArms` | `MCSchedules_one` * | BullMQ keeps a tick that failed for good under the id of its occurrence; an activate that enqueues that occurrence again enqueues nothing (`schedules.ts:98`) |
| `BootsArm` | `MCProcess_all` * | of two boots on either side of a cron instant, or a boot and a fire, the one with the older row may enqueue last; its tick fires nothing (`runtime.ts:179`) |
| `EndsShown` | `MCRunHistory_dup` * | a worker without a handler for the job's name fails it and writes nothing: the row says `queued` for ever (`worker.ts:101`) |
| `LastWriterWins` | `MCProcess_catalog` | publish is a delete and an insert: boots that overlap leave the union of two catalogs, or one throws (`drizzle.ts:473`) |
| `OneWorker` | `MCProcess_restart` | an edit while a restart awaits the old worker starts a second one, and one of the two is never stopped (`index.ts:336`) |
| `PatchesItsKey` | `MCRedisState_replay` | the mapping of a schedule's former key stays, and a create with it patches the schedule (`state.ts:254`) |
| `UnfinishedKept` | `MCRedisState_replay` | the age sweep deletes a row that runs again since it was read (`state.ts:402`) |
| `NoneHidden` | `MCRedisState_replay` | a hash that holds one rule is taken for all of them (`state.ts:474`) |
| `OverviewAccurate` | `MCDashboard_replay` | a change does not invalidate the page the overview is computed from (`queue-manager.ts:423`) |
| `CallsShown` | `MCDashboard_replay` | `cleanJobs`, `runSchedulerNow` and `createFlow` invalidate nothing, and calls about flows only the queue they name (`queue-manager.ts:1605`) |
| `NeverLate` | `MCDashboard_replay` | a request that asked Redis before a change stores its answer after the invalidation (`queue-manager.ts:402`) |
| `NoneTwice` | `MCDashboard_replay` | pages are cut from prefixes of different lengths (`queue-manager.ts:1844`) |
| `OnlyRecent` | `MCDashboard_replay` | a list with more jobs in the window than the limit is read from its oldest (`queue-manager.ts:334`) |
| `SummaryWhole` | `MCDashboard_replay` | what ended in the window but before the first bucket is among the failing types and not in the summary (`queue-manager.ts:695`) |

Others came up with the same modules.  Each can be seen by checking the named
formula on the instance given; everything else as in the configuration above.

| Formula | Instance | What the code does |
|---|---|---|
| `WritesWhileOwned` | `MCPgTransport_heartbeat` with `Attempts = 2`, `MaxStalled = 0`, `Concurrency = 1` | requeue keeps the token, so a late data write matches (`transport.ts:231` against 244-247) |
| `ParentWaits` | `MCLocalTransport_dedup` with three jobs, `Children <- Pair`, `OnFailure <- Mixed`, two handles, `Spec` | a child removed through two handles is counted twice (`local.ts:361`) |
| `ActiveStays` | `MCLocalTransport_dedup` with one job, delayed, no flow, two handles, `MaxEnqueues = 2`, `Spec` | a stale handle deletes the record now under its id, though active (`local.ts:361`) |
| `CompletedStays` | `MCRunHistory_late` with no cancel, 2 attempts, `Retains`, not `Prompt` | a late failure report overtakes the retry (`worker.ts:114`) |
| `CompletedStays` | `MCRunHistory_late` with no cancel, `MaxStalled = 1`, one expiry | an attempt that lost its lease writes its start (`worker.ts:252`) |
| `CompletedStays` | `MCRunHistory_late` with no cancel, not `Atomic`, `Retains`, 2 enqueues | the Redis store reads, then writes (`state.ts:73`) |
| `CompletedStays` | `MCRunHistory_late` with no cancel, one throw | an insertion that took effect but threw is recorded as failed (`enqueuer.ts:277`) |

Five more are visible in the models and are not stated as formulas: the delete of
`HeartbeatCovers` also frees a slot that is in use (`transport.ts:397`; tasks.mdx:37
promises a maximum); a cancel between the history write and the insertion is
shown as canceled, and the job runs (`cancel.ts:45`); at boot a
pool deletes the declarative schedules of tasks only another pool has
(`runtime.ts:186`; `CommonArmed` is about the tasks they share); schedule writers that
overlap leave a stale row, or one that was deleted, in the Redis hash (`state.ts:220`;
`Current` is about calls that do not overlap); and a duplicate enqueue of an ended run
whose row was pruned brings back a queued row that nothing runs (`RunCache!Forgotten`).

## Not modelled

* The BullMQ library, and what of `world-bullmq/src/transport.ts` and `catalog.ts`
  only maps onto it.  The history sees its retained ids and late events
  (`RunHistory`), the dashboard its lists (`RunListing`).
* The alert stores a dashboard keeps of its own (`workbench/src/core/redis-alert-store.ts`,
  `alert-store.ts`), and contact points, which the same code as the rules handles.
* Of the queue manager: search, tags, single jobs, schedulers and flow trees,
  which are reads of BullMQ without state of their own, and the path of `getAllRuns`
  by a range of time (1745-1811; `getJobsByTimeRange` itself is in `Metrics`); of the
  alert manager: what an alert says, how it is delivered, the option `sendResolved`
  (line 341, not reached while nothing is tracked, see `Tracked`), and close.
* Rows of events and spans, the window of logs, the order a store lists rows in, and
  the expiry of a whole hash (`state.ts:354`).
* Progress metadata: two overlapping progress calls of one attempt (`worker.ts:226`).
* Task definitions, configuration, discovery, authentication, the control API, the
  dashboard's API, the client: each request is one call of an operation that is
  modelled, around conversions.  The UI, the build and the commands of the CLI other
  than `dev` and `start` render, write files or print.

The share of lines the models stand for is small for that reason: more than half of
the repository's lines are pages, route handlers, schemas, types, conversions and
tests of those, in which no two actors meet.
