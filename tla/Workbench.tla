------------------------------ MODULE Workbench ------------------------------
(***************************************************************************)
(* The caches of the dashboard's QueueManager (workbench/src/core/queue-   *)
(* manager.ts): job counts by queue, and above them the answers that are   *)
(* expensive to compute.  A request looks its answer up, computes it over  *)
(* several awaits when it is not there and stores it; some of the calls    *)
(* that change jobs invalidate some of the entries when Redis has          *)
(* answered.  What a queue holds is a version number: 0 is an empty queue, *)
(* and every change, by the workers or by the dashboard, makes the next.   *)
(***************************************************************************)
EXTENDS Naturals, FiniteSets

CONSTANTS
  Queues,     \* the queues of the dashboard
  Readers,    \* requests at a time
  Callers,    \* calls at a time that change jobs
  None,       \* no entry, no answer
  MaxChanges  \* bound: changes of a queue

ASSUME WorkbenchAssumption == MaxChanges \in Nat

VARIABLES
  jobs,    \* jobs[q]: the version of q in Redis
  counts,  \* countCache: by queue
  pages,   \* cache: by page
  reads,   \* reads[r]: the request r is in
  owed,    \* owed[c]: what call c changed and has not invalidated yet
  since,   \* history: since[q]: the newest version whose change was invalidated
  told     \* history: told[q]: the newest version that a call made and returned

cacheVars == <<jobs, counts, pages, reads, owed, since, told>>

(* The pages: "metrics" stands for metrics, activity and flows, which read  *)
(* the lists of jobs of the queues that have any by their counts.  An entry *)
(* is marked late if its read was in flight at an invalidation.            *)
Pages == {"queues", "overview", "metrics"}
Version == 0 .. MaxChanges
Versions == [Queues -> Version \cup {None}]
Entry(values) == [of : values, late : BOOLEAN]

Read == [page : Pages \cup {None}, asked : Versions, got : Versions,
         scanned : SUBSET Queues, late : BOOLEAN]
Unknown == [q \in Queues |-> None]
Owed == [queue : Queues, changed : SUBSET Queues, of : [Queues -> Version]]
NoRead == [page |-> None, asked |-> Unknown, got |-> Unknown, scanned |-> {}, late |-> FALSE]

CacheInit ==
  /\ jobs \in [Queues -> {0, 1} \cap Version]
  /\ counts = Unknown
  /\ pages = [p \in Pages |-> None]
  /\ reads = [r \in Readers |-> NoRead]
  /\ owed = [c \in Callers |-> None]
  /\ since = [q \in Queues |-> 0] /\ told = [q \in Queues |-> 0]

Counted(r) == \A q \in Queues : reads[r].got[q] # None

-----------------------------------------------------------------------------
(* Requests.                                                               *)

(* cached: a page that is not there is computed.  The overview is computed  *)
(* from the page of the queues, if that is there.                          *)
Open(r, p) ==
  LET base == pages["queues"]
  IN  /\ reads[r] = NoRead /\ pages[p] = None
      /\ reads' = [reads EXCEPT ![r] =
           IF p = "overview" /\ base # None
             THEN [NoRead EXCEPT !.page = p, !.got = base.of, !.late = base.late]
             ELSE [NoRead EXCEPT !.page = p]]
      /\ UNCHANGED <<jobs, counts, pages, owed, since, told>>

(* getCachedJobCounts: from the cache, or Redis is asked ...                *)
Count(r, q) ==
  /\ reads[r].page # None /\ reads[r].got[q] = None /\ reads[r].asked[q] = None
  /\ reads' = [reads EXCEPT ![r] =
       IF counts[q] # None
         THEN [@ EXCEPT !.got[q] = counts[q].of, !.late = reads[r].late \/ counts[q].late]
         ELSE [@ EXCEPT !.asked[q] = jobs[q]]]
  /\ UNCHANGED <<jobs, counts, pages, owed, since, told>>

(* ... and its answer stored, whatever has happened in between.             *)
Answer(r, q) ==
  LET v == reads[r].asked[q]
  IN  /\ reads[r].got[q] = None /\ v # None
      /\ counts' = [counts EXCEPT ![q] = [of |-> v, late |-> reads[r].late]]
      /\ reads' = [reads EXCEPT ![r].got[q] = v, ![r].asked[q] = None]
      /\ UNCHANGED <<jobs, pages, owed, since, told>>

(* metrics, activity, flows: once all counts are there, the jobs of a queue *)
(* that is not empty by its count are read.                                *)
Relevant(r) ==
  IF reads[r].page = "metrics" THEN {q \in Queues : reads[r].got[q] # 0} ELSE {}

Scan(r, q) ==
  /\ reads[r].page # None /\ Counted(r)
  /\ q \in Relevant(r) \ reads[r].scanned
  /\ reads' = [reads EXCEPT ![r].got[q] = jobs[q], ![r].scanned = @ \cup {q}]
  /\ UNCHANGED <<jobs, counts, pages, owed, since, told>>

Finish(r) ==
  LET p == reads[r].page
      entry == [of |-> reads[r].got, late |-> reads[r].late]
      computed == IF p = "overview" /\ pages["queues"] = None THEN {p, "queues"} ELSE {p}
  IN  /\ p # None /\ Counted(r) /\ Relevant(r) \subseteq reads[r].scanned
      /\ pages' = [k \in Pages |-> IF k \in computed THEN entry ELSE pages[k]]
      /\ reads' = [reads EXCEPT ![r] = NoRead]
      /\ UNCHANGED <<jobs, counts, owed, since, told>>

(* An entry outlives its time, is evicted, or refresh clears the pages.      *)
Expire ==
  /\ \/ \E q \in Queues : counts' = [counts EXCEPT ![q] = None] /\ UNCHANGED pages
     \/ \E p \in Pages : pages' = [pages EXCEPT ![p] = None] /\ UNCHANGED counts
     \/ pages' = [p \in Pages |-> None] /\ UNCHANGED counts
  /\ UNCHANGED <<jobs, reads, owed, since, told>>

-----------------------------------------------------------------------------
(* Changes.                                                                *)
Changed(qs) ==
  /\ \A q \in qs : jobs[q] < MaxChanges
  /\ jobs' = [q \in Queues |-> IF q \in qs THEN jobs[q] + 1 ELSE jobs[q]]

(* The work of the queue itself, and a change whose answer was lost.        *)
Move(q) == Changed({q}) /\ UNCHANGED <<counts, pages, reads, owed, since, told>>

(* cleanJobs, runSchedulerNow, and createFlow with all the queues of its     *)
(* jobs: they invalidate nothing.                                          *)
ChangeSilently(qs) ==
  /\ qs # {} /\ Changed(qs)
  /\ told' = [q \in Queues |-> IF q \in qs THEN jobs'[q] ELSE told[q]]
  /\ UNCHANGED <<counts, pages, reads, owed, since>>

(* retryJob, removeJob, promoteJob, enqueueJob, and each job of a bulk call: *)
(* Redis changes the job (and, of a flow, jobs of other queues), and then    *)
(* the entries of the queue that was named are invalidated.                *)
Change(c, q) ==
  \E others \in SUBSET (Queues \ {q}) :
    /\ owed[c] = None /\ Changed({q} \cup others)
    /\ owed' = [owed EXCEPT ![c] = [queue |-> q, changed |-> {q} \cup others, of |-> jobs']]
    /\ UNCHANGED <<counts, pages, reads, since, told>>

Newer(v, w) == IF v > w THEN v ELSE w
Returns(o) ==
  /\ since' = [since EXCEPT ![o.queue] = Newer(o.of[o.queue], @)]
  /\ told' = [q \in Queues |-> IF q \in o.changed THEN Newer(o.of[q], told[q]) ELSE told[q]]

(* Mutant: the entry of the counts stays.                                  *)
PagesInvalidated(c) ==
  LET o == owed[c]
  IN  /\ o # None
      /\ pages' = [pages EXCEPT !["metrics"] = None, !["overview"] = None]
      /\ reads' = [r \in Readers |->
           IF reads[r] = NoRead THEN NoRead ELSE [reads[r] EXCEPT !.late = TRUE]]
      /\ Returns(o)
      /\ owed' = [owed EXCEPT ![c] = None]
      /\ UNCHANGED <<jobs, counts>>

Invalidate(c) ==
  LET o == owed[c]
  IN  /\ o # None
      /\ counts' = [counts EXCEPT ![o.queue] = None]
      /\ pages' = [pages EXCEPT !["metrics"] = None, !["overview"] = None]
      /\ reads' = [r \in Readers |->
           IF reads[r] = NoRead THEN NoRead ELSE [reads[r] EXCEPT !.late = TRUE]]
      /\ Returns(o)
      /\ owed' = [owed EXCEPT ![c] = None]
      /\ UNCHANGED jobs

-----------------------------------------------------------------------------
(* Properties.                                                             *)
CacheTypeOK ==
  /\ jobs \in [Queues -> Version]
  /\ counts \in [Queues -> Entry(Version) \cup {None}]
  /\ pages \in [Pages -> Entry([Queues -> Version]) \cup {None}]
  /\ reads \in [Readers -> Read]
  /\ owed \in [Callers -> Owed \cup {None}]
  /\ since \in [Queues -> Version] /\ told \in [Queues -> Version]

(* After a call that invalidates the entries of a queue, its counts and the *)
(* pages that read its jobs show nothing older than what the call made of   *)
(* it, unless they are of a read that was in flight then.                  *)
Fresh(p) ==
  pages[p] # None /\ ~pages[p].late => \A q \in Queues : pages[p].of[q] >= since[q]

AccurateCounts ==
  \A q \in Queues : counts[q] # None /\ ~counts[q].late => counts[q].of >= since[q]

Accurate == CacheTypeOK /\ AccurateCounts /\ Fresh("metrics")

(* "We invalidate them to ensure accuracy after mutations", which the code   *)
(* does not do in three ways.  The overview, which is invalidated, is not    *)
(* older than the change either ...                                        *)
OverviewAccurate == Fresh("overview")

(* ... no call has returned whose change the counts do not show ...         *)
CallsShown == \A q \in Queues : counts[q] # None /\ ~counts[q].late => counts[q].of >= told[q]

(* ... and a read that was in flight stores nothing that was invalidated.   *)
NeverLate == \A q \in Queues : counts[q] # None => counts[q].of >= since[q]
=============================================================================
