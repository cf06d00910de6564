------------------------------ MODULE Dashboard ------------------------------
(***************************************************************************)
(* The dashboard: the caches, the listings and the metrics of its          *)
(* QueueManager, and its AlertManager.  They share no state, so that their *)
(* interleavings show nothing that each does not show alone: a behaviour is *)
(* one of the four, with the others at rest.                               *)
(***************************************************************************)
EXTENDS Workbench, Alerts, RunListing, Metrics

VARIABLE part

vars == <<part, cacheVars, alertVars, listVars, metricsVars>>

NoQueue == jobs = [q \in Queues |-> 0]
NoList == lists = [l \in 1 .. Lists |-> <<>>] /\ matching = {} /\ mode = "latest"
          /\ cursor = 0 /\ rows = <<>>
NoMetrics == ended = <<>> /\ instant = 0 /\ report = NoReport

Init ==
  /\ part \in {"caches", "alerts", "listings", "metrics"}
  /\ CacheInit /\ (part # "caches" => NoQueue)
  /\ AlertsInit
  /\ IF part = "listings" THEN ListInit ELSE NoList
  /\ IF part = "metrics" THEN MetricsInit ELSE NoMetrics

Cached(A)  == part = "caches" /\ A /\ UNCHANGED <<part, alertVars, listVars, metricsVars>>
Alerting(A) == part = "alerts" /\ A /\ UNCHANGED <<part, cacheVars, listVars, metricsVars>>

Next ==
  \/ \E r \in Readers :
       \/ \E p \in Pages : Cached(Open(r, p))
       \/ \E q \in Queues : Cached(Count(r, q))
       \/ \E q \in Queues : Cached(Answer(r, q))
       \/ \E q \in Queues : Cached(Scan(r, q))
       \/ Cached(Finish(r))
  \/ \E c \in Callers : (\E q \in Queues : Cached(Change(c, q))) \/ Cached(Invalidate(c))
  \/ \E q \in Queues : Cached(Move(q))
  \/ \E qs \in SUBSET Queues : Cached(ChangeSilently(qs))
  \/ Cached(Expire)
  \/ \E x \in Checks \cup Handlers :
       \/ Alerting(Start(x))
       \/ Alerting(ReadRules(x))
       \/ Alerting(SeeQueues(x))
       \/ Alerting(Reject(x))
       \/ \E k \in Keys : Alerting(Evaluate(x, k))
       \/ Alerting(Delivered(x))
       \/ Alerting(End(x))
  \/ Alerting(Tick)
  \/ part = "listings" /\ (NextPage \/ NextJobs) /\ UNCHANGED <<part, cacheVars, alertVars, metricsVars>>
  \/ part = "metrics" /\ GetMetrics /\ UNCHANGED <<part, cacheVars, alertVars, listVars>>
  \/ part = "metrics" /\ GetActivityStats /\ UNCHANGED <<part, cacheVars, alertVars, listVars>>

Spec == Init /\ [][Next]_vars

-----------------------------------------------------------------------------
(* What the dashboard shows of the jobs is what the lists hold: the pages   *)
(* of a listing are those of the whole (RunListing), and the buckets and the *)
(* groups of the metrics are those of the jobs that ended (Metrics).         *)
ViewsRight == PagesRight /\ MetricsRight
=============================================================================
