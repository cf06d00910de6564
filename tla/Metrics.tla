------------------------------- MODULE Metrics -------------------------------
(***************************************************************************)
(* What the dashboard's QueueManager adds up of the jobs that ended        *)
(* (workbench/src/core/queue-manager.ts, getMetrics and getActivityStats): *)
(* of each list of a queue and a state the jobs of a window are read, up   *)
(* to a limit, and counted in buckets that begin on the hour, and by name  *)
(* and class of error.  Jobs do not move while it does; that its answer is *)
(* old when it is shown is Workbench's.                                    *)
(***************************************************************************)
EXTENDS Naturals, FiniteSets, FiniteSetsExt

CONSTANTS
  Ended,    \* jobs are 1 .. Ended, in the order they ended
  Kinds,    \* a job's queue and its name
  Errors,   \* classes of errors
  NoError,  \* a job that completed
  NoReport, \* nothing was computed
  Instants, \* the instants at which it may be computed
  Hour,     \* instants in a bucket
  Hours,    \* buckets
  Day,      \* buckets in a day
  Cut,      \* jobs read of a list at most
  Top       \* groups of failures shown at most

ASSUME MetricsAssumption ==
  /\ {Ended, Cut, Top} \subseteq Nat /\ {Hour, Day} \subseteq Nat \ {0}
  /\ Hours \in {d * Day : d \in 1 .. 7} /\ NoError \notin Errors
  /\ \A n \in Instants : n \in Nat /\ n >= Hours * Hour

VARIABLES
  ended,   \* ended[j]: the job j
  instant, \* now
  report   \* what was computed

metricsVars == <<ended, instant, report>>

Jobs == 1 .. Ended
Job == [kind : Kinds, error : Errors \cup {NoError}, at : 0 .. instant]

(* getJobsByTimeRange: the first jobs of the window, in the order of the    *)
(* sorted set.  If Redis rejects that, the newest of the list, and of them  *)
(* those of the window.                                                    *)
JobLists == {k[1] : k \in Kinds} \X BOOLEAN
InList(l) == {j \in Jobs : <<ended[j].kind[1], ended[j].error # NoError>> = l}
Since(js, start) == {j \in js : ended[j].at >= start}
FirstOf(js) == {j \in js : Cardinality({i \in js : i < j}) < Cut}
NewestOf(js) == {j \in js : Cardinality({i \in js : i > j}) < Cut}

JobsRead(rejected, start) ==
  UNION {IF l \in rejected THEN Since(NewestOf(InList(l)), start)
                           ELSE FirstOf(Since(InList(l), start)) : l \in JobLists}

(* The window: 24 hours to now, or the days since a midnight; and where the *)
(* first bucket begins.                                                    *)
WindowStart(what) ==
  IF what = "metrics" THEN instant - Hours * Hour
  ELSE ((instant \div (Day * Hour)) * Day - (Hours - Day)) * Hour

(* Mutant: buckets are counted from the start of the window.                *)
FirstOfWindow(what) == WindowStart(what)

FirstBucket(what) ==
  IF what = "metrics" THEN (instant \div Hour - (Hours - 1)) * Hour ELSE WindowStart(what)

(* The jobs in each bucket; one that ended before the first is in none.     *)
Bucketed(js, what) ==
  [h \in 1 .. Hours |-> {j \in js : /\ ended[j].at >= FirstBucket(what)
                                    /\ (ended[j].at - FirstBucket(what)) \div Hour = h - 1}]

Failed(js) == {j \in js : ended[j].error # NoError}

(* A group of failures, of one name and one class of error: its share of    *)
(* the jobs of that name, its trend, and when it failed last.               *)
Group(k, e, js, what) ==
  LET failed == {j \in js : ended[j].kind = k /\ ended[j].error = e}
      trend == Bucketed(failed, what)
  IN  [kind |-> k, error |-> e, failed |-> Cardinality(failed),
       total |-> Cardinality({j \in js : ended[j].kind = k}),
       trend |-> [h \in 1 .. Hours |-> Cardinality(trend[h])],
       latest |-> Max({ended[j].at : j \in failed})]

Groups(js, what) == {Group(ended[j].kind, ended[j].error, js, what) : j \in Failed(js)}

(* mostFailingTypes: the groups that failed most.                           *)
Shown(gs) ==
  {some \in SUBSET gs :
     /\ Cardinality(some) = Min({Top, Cardinality(gs)})
     /\ \A g \in some, other \in gs \ some : g.failed >= other.failed}

MetricsInit ==
  /\ instant \in Instants
  /\ ended \in [Jobs -> Job]
  /\ \A i, j \in Jobs : i < j => ended[i].at <= ended[j].at
  /\ report = NoReport

(* The answer: the buckets of all queues added up, and the groups.          *)
Added(js, what) ==
  LET buckets == Bucketed(js, what)
  IN  [h \in 1 .. Hours |-> [failed |-> Cardinality(Failed(buckets[h])),
                             completed |-> Cardinality(buckets[h] \ Failed(buckets[h]))]]

GetMetrics ==
  /\ report = NoReport
  /\ \E rejected \in SUBSET JobLists :
       LET js == JobsRead(rejected, WindowStart("metrics"))
       IN  \E shown \in Shown(Groups(js, "metrics")) :
             report' = [what |-> "metrics", read |-> js, groups |-> shown,
                        buckets |-> Added(js, "metrics")]
  /\ UNCHANGED <<ended, instant>>

GetActivityStats ==
  /\ report = NoReport
  /\ \E rejected \in SUBSET JobLists :
       LET js == JobsRead(rejected, WindowStart("activity"))
       IN  report' = [what |-> "activity", read |-> js, groups |-> {},
                      buckets |-> Added(js, "activity")]
  /\ UNCHANGED <<ended, instant>>

-----------------------------------------------------------------------------
(* Properties.                                                             *)

(* What really ended in a bucket, and in the window.                        *)
HourStart(h) ==
  IF report.what = "metrics" THEN (instant \div Hour + h - Hours) * Hour
  ELSE ((instant \div (Day * Hour)) * Day + Day - Hours + h - 1) * Hour
EndedIn(h) == {j \in Jobs : HourStart(h) <= ended[j].at /\ ended[j].at < HourStart(h + 1)}
Whole == \A l \in JobLists : Cardinality(InList(l)) <= Cut

(* Each bucket counts what ended in its hour, if no list is longer than the *)
(* limit, and never more, whichever way the lists are read.                *)
BucketsRight ==
  report # NoReport => \A h \in 1 .. Hours :
    LET failed == Cardinality(Failed(EndedIn(h)))
        completed == Cardinality(EndedIn(h)) - failed
    IN  /\ report.buckets[h].failed <= failed /\ report.buckets[h].completed <= completed
        /\ Whole => report.buckets[h] = [failed |-> failed, completed |-> completed]

FailuresOf(groups, h) == MapThenSumSet(LAMBDA g : g.trend[h], groups)

(* The groups agree with the buckets: their trends add up to the failures   *)
(* of each hour, and together they are all of them when all can be shown.   *)
GroupsRight ==
  report # NoReport /\ report.what = "metrics" =>
    /\ \A g \in report.groups : g.failed \in 1 .. g.total
    /\ \A h \in 1 .. Hours :
         LET shown == FailuresOf(report.groups, h)
         IN  /\ shown <= report.buckets[h].failed
             /\ Cardinality(report.groups) < Top => shown = report.buckets[h].failed

MetricsRight == BucketsRight /\ GroupsRight

(* "only recent jobs needed": of a list that is cut, what is read is no      *)
(* older than what is not.                                                 *)
OnlyRecent ==
  report # NoReport => \A l \in JobLists :
    \A i \in InList(l) \cap report.read, j \in InList(l) \ report.read :
      ended[j].at <= ended[i].at

(* "Get metrics for the last 24 hours": the summary, which adds the buckets, *)
(* knows of every failure that the groups show.                             *)
SummaryWhole ==
  report # NoReport =>
    MapThenSumSet(LAMBDA g : g.failed, report.groups)
      <= MapThenSumSet(LAMBDA h : report.buckets[h].failed, 1 .. Hours)
=============================================================================
