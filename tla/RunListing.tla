----------------------------- MODULE RunListing -----------------------------
(***************************************************************************)
(* How the dashboard's QueueManager lists runs (workbench/src/core/queue-  *)
(* manager.ts, getLatestRuns and getAllRuns) and the jobs of one queue     *)
(* (getJobs): a page is put together from prefixes of many lists, one for  *)
(* each queue and state, whose order is BullMQ's own, and leads by a       *)
(* cursor to the next one.  Jobs do not move while someone pages.  A run   *)
(* is its rank in the order that is asked for, 1 the first; what runs are  *)
(* sorted and filtered by does not matter otherwise.                       *)
(***************************************************************************)
EXTENDS Naturals, Sequences, FiniteSets, FiniteSetsExt, SequencesExt

CONSTANTS
  Runs,      \* runs are 1 .. Runs
  Lists,     \* lists, of a queue and a state each
  MinFetch,  \* the least that the fast path fetches of a list
  Batch,     \* what the filtered path fetches of a list at a time
  Limit      \* runs on a page

ASSUME ListingAssumption ==
  /\ Runs \in Nat /\ Lists \in Nat \ {0}
  /\ MinFetch \in Nat /\ Batch \in Nat \ {0} /\ Limit \in Nat \ {0}

VARIABLES
  lists,    \* the lists
  matching, \* the runs that match the filters
  mode,     \* no filter and newest first; filtered, by time or by something else; the
            \* jobs of one queue, or of one queue and state
  cursor,   \* where the next page starts, or that there is none
  rows      \* the rows of the pages so far

listVars == <<lists, matching, mode, cursor, rows>>

(* getJobs: the jobs of a list up to an offset, of every list.              *)
Prefix(list, n) == SubSeq(list, 1, Min({n, Len(list)}))
Fetched(n) == UNION {ToSet(Prefix(lists[l], n)) : l \in DOMAIN lists}

(* getLatestRuns: one fetch.                                               *)
LatestFetched(start) == Fetched(Max({MinFetch, start + Limit + 1}))

(* getAllRuns: batch after batch of every list, until enough runs match, if  *)
(* they are sorted by time, or until every list is exhausted.              *)
Exhausted(rounds) == \A l \in DOMAIN lists : Len(lists[l]) < rounds * Batch

Enough(start, rounds) ==
  Cardinality(Fetched(rounds * Batch) \cap matching) >= start + Limit + 1

AllFetched(start) ==
  LET rounds == Min({n \in 1 .. Runs + 1 :
                       Exhausted(n) \/ (mode = "time" /\ Enough(start, n))})
  IN  Fetched(rounds * Batch) \cap matching

-----------------------------------------------------------------------------
(* Every way the runs may lie in the lists.                                *)
Cuts == {c \in [0 .. Lists -> 0 .. Runs] :
           /\ c[0] = 0 /\ c[Lists] = Runs
           /\ \A l \in 1 .. Lists : c[l - 1] <= c[l]}
Arrangements == {[l \in 1 .. Lists |-> SubSeq(p, c[l - 1] + 1, c[l])] :
                   p \in SetToSeqs(1 .. Runs), c \in Cuts}

ListInit ==
  /\ lists \in Arrangements
  /\ mode \in {"latest", "time", "other", "queue", "state"}
  /\ matching \in CASE mode \in {"latest", "queue"} -> {1 .. Runs}
                   [] mode = "state" -> {ToSet(lists[1])}
                   [] OTHER -> SUBSET (1 .. Runs)
  /\ cursor = 0 /\ rows = <<>>

(* A page: sort, slice, and the cursor to the next one.                     *)
Sorted(runs) ==
  [n \in 1 .. Cardinality(runs) |-> CHOOSE r \in runs : Cardinality({o \in runs : o <= r}) = n]

NextPage ==
  LET runs == IF mode = "latest" THEN LatestFetched(cursor) ELSE AllFetched(cursor)
      last == Min({cursor + Limit, Cardinality(runs)})
      more == Cardinality(runs) > cursor + Limit
  IN  /\ mode \notin {"queue", "state"} /\ cursor <= Runs
      /\ rows' = rows \o SubSeq(Sorted(runs), cursor + 1, last)
      /\ cursor' = IF more THEN last ELSE Runs + 1
      /\ UNCHANGED <<lists, matching, mode>>

(* getJobs: the lists of a queue are read as far as the page goes, or the    *)
(* one list just where it lies, and the rest is told from the counts.      *)
NextJobs ==
  LET end == cursor + Limit
      total == Cardinality(matching)
      page == IF mode = "queue"
                THEN SubSeq(Sorted(Fetched(end)), cursor + 1, Min({end, total}))
                ELSE Sorted(ToSet(SubSeq(lists[1], cursor + 1, Min({end, total}))))
  IN  /\ mode \in {"queue", "state"} /\ cursor <= Runs
      /\ rows' = rows \o page
      /\ cursor' = IF end < total THEN end ELSE Runs + 1
      /\ UNCHANGED <<lists, matching, mode>>

-----------------------------------------------------------------------------
(* Properties.                                                             *)
Ordered(list) == \A i, j \in DOMAIN list : i < j => list[i] < list[j]
AllOrdered == \A l \in DOMAIN lists : Ordered(lists[l])

(* Pages that read only prefixes of the lists are those of the whole, if    *)
(* each list is in the order of the page; and those sorted by anything but  *)
(* time are, however the lists are ordered.                                *)
PagesOfWhole ==
  mode = "other" \/ (mode \in {"latest", "queue", "state"} /\ AllOrdered) =>
    rows = SubSeq(Sorted(matching), 1, Len(rows))

(* The cursor leads on exactly as long as there are rows left to show: the   *)
(* pages end, with as many rows as runs match.                             *)
PagesEnd ==
  /\ Len(rows) <= Cardinality(matching)
  /\ cursor > Runs => Len(rows) = Cardinality(matching)

Distinct == \A i, j \in DOMAIN rows : rows[i] = rows[j] => i = j

(* Paging shows the runs of the whole and comes to its end; and the jobs of *)
(* one state are shown once, however their list is ordered.                *)
PagesRight == PagesOfWhole /\ PagesEnd /\ (mode = "state" => Distinct)

(* "Sort all filtered jobs to ensure consistent ordering": of the filtered   *)
(* runs none is shown twice, and with PagesEnd none is left out.           *)
NoneTwice == mode \in {"time", "other"} => Distinct
=============================================================================
