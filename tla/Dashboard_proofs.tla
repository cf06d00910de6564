--------------------------- MODULE Dashboard_proofs ---------------------------
(***************************************************************************)
(* Theorems about the dashboard (Dashboard): what its caches hold, what its  *)
(* cooldowns promise of the alerts, and that its listings and metrics show  *)
(* what the lists hold.  Each of the four parts takes its steps alone, so   *)
(* that each has an invariant of its own.                                  *)
(***************************************************************************)
EXTENDS Dashboard, FiniteSetTheorems, SequenceTheorems, WellFoundedInduction, TLAPS

-----------------------------------------------------------------------------
(* The caches.                                                             *)
CacheStep ==
  \/ \E r \in Readers : \/ \E p \in Pages : Open(r, p)
                        \/ \E q \in Queues : Count(r, q) \/ Answer(r, q) \/ Scan(r, q)
                        \/ Finish(r)
  \/ \E c \in Callers : (\E q \in Queues : Change(c, q)) \/ Invalidate(c)
  \/ \E q \in Queues : Move(q)
  \/ \E qs \in SUBSET Queues : ChangeSilently(qs)
  \/ Expire

LEMMA CacheSteps == [Next]_vars => CacheStep \/ UNCHANGED cacheVars
BY DEF Next, vars, Cached, Alerting, CacheStep

(* A read that no invalidation has met holds nothing older than the last one: *)
(* of the counts it asked for, and of all that the metrics are made of.     *)
ReadsInv ==
  /\ \A q \in Queues : since[q] <= jobs[q]
  /\ \A c \in Callers : owed[c] # None => owed[c].of[owed[c].queue] <= jobs[owed[c].queue]
  /\ \A r \in Readers : ~reads[r].late => \A q \in Queues :
       /\ reads[r].asked[q] # None => reads[r].asked[q] >= since[q]
       /\ reads[r].page = "metrics" /\ reads[r].got[q] # None => reads[r].got[q] >= since[q]

AccurateInv == Accurate /\ ReadsInv

LEMMA CacheFacts ==
  ASSUME CacheTypeOK
  PROVE  /\ jobs \in [Queues -> Version] /\ counts \in [Queues -> Entry(Version) \cup {None}]
         /\ pages \in [Pages -> Entry([Queues -> Version]) \cup {None}]
         /\ reads \in [Readers -> Read] /\ since \in [Queues -> Version] /\ told \in [Queues -> Version]
         /\ owed \in [Callers -> Owed \cup {None}]
         /\ Version \subseteq Nat /\ 0 \in Version /\ MaxChanges \in Nat
         /\ NoRead \in Read /\ NoRead.late = FALSE /\ \A q \in Queues : NoRead.asked[q] = None /\ NoRead.got[q] = None
         /\ \A r \in Readers : /\ reads[r] \in Read /\ reads[r].late \in BOOLEAN
                               /\ \A q \in Queues : /\ reads[r].asked[q] \in Version \cup {None}
                                                    /\ reads[r].got[q] \in Version \cup {None}
<1>1. MaxChanges \in Nat /\ 0 \in Version /\ Version \subseteq Nat
  BY WorkbenchAssumption DEF Version
<1>2. NoRead \in Read /\ NoRead.late = FALSE /\ \A q \in Queues : NoRead.asked[q] = None /\ NoRead.got[q] = None
  BY DEF NoRead, Read, Unknown, Versions
<1>3. /\ jobs \in [Queues -> Version] /\ counts \in [Queues -> Entry(Version) \cup {None}]
      /\ pages \in [Pages -> Entry([Queues -> Version]) \cup {None}]
      /\ reads \in [Readers -> Read] /\ since \in [Queues -> Version] /\ told \in [Queues -> Version]
      /\ owed \in [Callers -> Owed \cup {None}]
  BY DEF CacheTypeOK
<1>4. \A r \in Readers : /\ reads[r] \in Read /\ reads[r].late \in BOOLEAN
                         /\ \A q \in Queues : /\ reads[r].asked[q] \in Version \cup {None}
                                              /\ reads[r].got[q] \in Version \cup {None}
  BY <1>3 DEF Read, Versions
<1>. QED BY <1>1, <1>2, <1>3, <1>4

(* What a step makes of the read it is about.                               *)
LEMMA ReadFacts ==
  ASSUME AccurateInv, NEW r \in Readers,
         (\E p \in Pages : Open(r, p)) \/ (\E q \in Queues : Count(r, q) \/ Answer(r, q) \/ Scan(r, q)) \/ Finish(r)
  PROVE  \E to \in Read :
           /\ reads' = [reads EXCEPT ![r] = to] /\ UNCHANGED <<jobs, owed, since, told>>
           /\ ~to.late => \A q \in Queues :
                /\ to.asked[q] # None => to.asked[q] >= since[q]
                /\ to.page = "metrics" /\ to.got[q] # None => to.got[q] >= since[q]
           /\ counts' \in [Queues -> Entry(Version) \cup {None}]
           /\ \A q \in Queues : counts'[q] # None /\ ~counts'[q].late => counts'[q].of >= since[q]
           /\ pages' \in [Pages -> Entry([Queues -> Version]) \cup {None}]
           /\ pages'["metrics"] # None /\ ~pages'["metrics"].late =>
                \A q \in Queues : pages'["metrics"].of[q] >= since[q]
<1>. DEFINE o == reads[r]
            Fine(o2) == ~o2.late => \A q \in Queues :
              /\ o2.asked[q] # None => o2.asked[q] >= since[q]
              /\ o2.page = "metrics" /\ o2.got[q] # None => o2.got[q] >= since[q]
            CountsFine(cs) ==
              /\ cs \in [Queues -> Entry(Version) \cup {None}]
              /\ \A q \in Queues : cs[q] # None /\ ~cs[q].late => cs[q].of >= since[q]
            PagesFine(ps) ==
              /\ ps \in [Pages -> Entry([Queues -> Version]) \cup {None}]
              /\ ps["metrics"] # None /\ ~ps["metrics"].late => \A q \in Queues : ps["metrics"].of[q] >= since[q]
<1>1. CacheTypeOK /\ o \in Read
  BY CacheFacts DEF AccurateInv, Accurate
<1>2. Fine(o) /\ CountsFine(counts) /\ PagesFine(pages)
  BY <1>1, CacheFacts DEF AccurateInv, Accurate, AccurateCounts, Fresh, ReadsInv
<1>. SUFFICES \E to \in Read : /\ reads' = [reads EXCEPT ![r] = to] /\ UNCHANGED <<jobs, owed, since, told>>
                               /\ Fine(to) /\ CountsFine(counts') /\ PagesFine(pages')
  OBVIOUS
<1>. HIDE DEF o, Fine, CountsFine, PagesFine
<1>3. ASSUME NEW p \in Pages, Open(r, p)
      PROVE  \E to \in Read : /\ reads' = [reads EXCEPT ![r] = to] /\ UNCHANGED <<jobs, owed, since, told>>
                              /\ Fine(to) /\ CountsFine(counts') /\ PagesFine(pages')
  <2>. DEFINE base == pages["queues"]
              from == [NoRead EXCEPT !.page = p, !.got = base.of, !.late = base.late]
              new == [NoRead EXCEPT !.page = p]
  <2>1. UNCHANGED <<jobs, counts, pages, owed, since, told>>
    BY <1>3 DEF Open
  <2>2. CASE p = "overview" /\ base # None
    <3>1. base.of \in [Queues -> Version] /\ base.late \in BOOLEAN
      BY <1>1, <2>2, CacheFacts DEF Entry, Pages
    <3>2. base.of \in Versions
      BY <3>1 DEF Versions
    <3>3. from \in Read /\ from.page = p /\ \A q \in Queues : from.asked[q] = None
      BY <1>1, <3>1, <3>2, CacheFacts DEF Read
    <3>4. reads' = [reads EXCEPT ![r] = from]
      BY <1>3, <2>2 DEF Open
    <3>. HIDE DEF from
    <3>5. Fine(from)
      BY <2>2, <3>3 DEF Fine
    <3>. QED BY <1>2, <2>1, <3>3, <3>4, <3>5
  <2>3. CASE ~(p = "overview" /\ base # None)
    <3>1. new \in Read /\ \A q \in Queues : new.asked[q] = None /\ new.got[q] = None
      BY <1>1, CacheFacts DEF Read
    <3>2. reads' = [reads EXCEPT ![r] = new]
      BY <1>3, <2>3 DEF Open
    <3>. HIDE DEF new
    <3>3. Fine(new)
      BY <3>1 DEF Fine
    <3>. QED BY <1>2, <2>1, <3>1, <3>2, <3>3
  <2>. QED BY <2>2, <2>3
<1>4. ASSUME NEW q \in Queues, Count(r, q)
      PROVE  \E to \in Read : /\ reads' = [reads EXCEPT ![r] = to] /\ UNCHANGED <<jobs, owed, since, told>>
                              /\ Fine(to) /\ CountsFine(counts') /\ PagesFine(pages')
  <2>. DEFINE hit == [o EXCEPT !.got[q] = counts[q].of, !.late = o.late \/ counts[q].late]
              miss == [o EXCEPT !.asked[q] = jobs[q]]
  <2>1. UNCHANGED <<jobs, counts, pages, owed, since, told>>
    BY <1>4 DEF Count
  <2>2. CASE counts[q] # None
    <3>1. counts[q].of \in Version /\ counts[q].late \in BOOLEAN
      BY <1>1, <2>2, CacheFacts DEF Entry
    <3>2. /\ hit \in Read /\ hit.page = o.page /\ hit.asked = o.asked /\ hit.late = (o.late \/ counts[q].late)
          /\ hit.got[q] = counts[q].of /\ \A k \in Queues \ {q} : hit.got[k] = o.got[k]
      BY <1>1, <3>1 DEF Read, Versions
    <3>3. reads' = [reads EXCEPT ![r] = hit]
      BY <1>4, <2>2 DEF Count, o
    <3>. HIDE DEF hit
    <3>4. Fine(hit)
      <4>1. ~hit.late => ~o.late /\ ~counts[q].late
        BY <1>1, <3>1, <3>2 DEF Read
      <4>2. ~counts[q].late => counts[q].of >= since[q]
        BY <1>2, <2>2 DEF CountsFine
      <4>. QED BY <1>2, <3>2, <4>1, <4>2 DEF Fine
    <3>. QED BY <1>2, <2>1, <3>2, <3>3, <3>4
  <2>3. CASE counts[q] = None
    <3>1. jobs[q] \in Version /\ since[q] <= jobs[q]
      BY <1>1, CacheFacts DEF AccurateInv, ReadsInv
    <3>2. /\ miss \in Read /\ miss.page = o.page /\ miss.got = o.got /\ miss.late = o.late
          /\ miss.asked[q] = jobs[q] /\ \A k \in Queues \ {q} : miss.asked[k] = o.asked[k]
      BY <1>1, <3>1 DEF Read, Versions
    <3>3. reads' = [reads EXCEPT ![r] = miss]
      BY <1>4, <2>3 DEF Count, o
    <3>. HIDE DEF miss
    <3>4. jobs[q] >= since[q]
      BY <1>1, <3>1, CacheFacts
    <3>5. Fine(miss)
      BY <1>2, <3>2, <3>4 DEF Fine
    <3>. QED BY <1>2, <2>1, <3>2, <3>3, <3>5
  <2>. QED BY <2>2, <2>3
<1>5. ASSUME NEW q \in Queues, Answer(r, q)
      PROVE  \E to \in Read : /\ reads' = [reads EXCEPT ![r] = to] /\ UNCHANGED <<jobs, owed, since, told>>
                              /\ Fine(to) /\ CountsFine(counts') /\ PagesFine(pages')
  <2>. DEFINE v == o.asked[q]
              entry == [of |-> v, late |-> o.late]
              to == [o EXCEPT !.got[q] = v, !.asked[q] = None]
  <2>1. v # None /\ UNCHANGED <<jobs, pages, owed, since, told>> /\ counts' = [counts EXCEPT ![q] = entry]
    BY <1>5 DEF Answer, o
  <2>2. v \in Version /\ entry \in Entry(Version)
    BY <1>1, <2>1 DEF Read, Versions, Entry
  <2>3. /\ to \in Read /\ to.page = o.page /\ to.late = o.late
        /\ to.got[q] = v /\ to.asked[q] = None
        /\ \A k \in Queues \ {q} : to.got[k] = o.got[k] /\ to.asked[k] = o.asked[k]
    BY <1>1, <2>2 DEF Read, Versions
  <2>4. reads' = [reads EXCEPT ![r] = to]
    BY <1>1, <1>5, CacheFacts DEF Answer, o, Read
  <2>. HIDE DEF to
  <2>5. ~o.late => v >= since[q]
    BY <1>2, <2>1 DEF Fine
  <2>6. Fine(to)
    BY <1>2, <2>3, <2>5 DEF Fine
  <2>7. CountsFine(counts')
    <3>1. counts'[q] = entry /\ \A k \in Queues \ {q} : counts'[k] = counts[k]
      BY <1>1, <2>1, CacheFacts
    <3>2. counts' \in [Queues -> Entry(Version) \cup {None}]
      BY <1>1, <2>1, <2>2, CacheFacts
    <3>. QED BY <1>2, <2>5, <3>1, <3>2 DEF CountsFine
  <2>. QED BY <1>2, <2>1, <2>3, <2>4, <2>6, <2>7
<1>6. ASSUME NEW q \in Queues, Scan(r, q)
      PROVE  \E to \in Read : /\ reads' = [reads EXCEPT ![r] = to] /\ UNCHANGED <<jobs, owed, since, told>>
                              /\ Fine(to) /\ CountsFine(counts') /\ PagesFine(pages')
  <2>. DEFINE to == [o EXCEPT !.got[q] = jobs[q], !.scanned = @ \cup {q}]
  <2>1. UNCHANGED <<jobs, counts, pages, owed, since, told>>
    BY <1>6 DEF Scan
  <2>2. jobs[q] \in Version /\ since[q] <= jobs[q]
    BY <1>1, CacheFacts DEF AccurateInv, ReadsInv
  <2>3. /\ to \in Read /\ to.page = o.page /\ to.asked = o.asked /\ to.late = o.late
        /\ to.got[q] = jobs[q] /\ \A k \in Queues \ {q} : to.got[k] = o.got[k]
    BY <1>1, <2>2 DEF Read, Versions
  <2>4. reads' = [reads EXCEPT ![r] = to]
    BY <1>1, <1>6, CacheFacts DEF Scan, o, Read
  <2>. HIDE DEF to
  <2>5. jobs[q] >= since[q]
    BY <1>1, <2>2, CacheFacts
  <2>6. Fine(to)
    BY <1>2, <2>3, <2>5 DEF Fine
  <2>. QED BY <1>2, <2>1, <2>3, <2>4, <2>6
<1>7. ASSUME Finish(r)
      PROVE  \E to \in Read : /\ reads' = [reads EXCEPT ![r] = to] /\ UNCHANGED <<jobs, owed, since, told>>
                              /\ Fine(to) /\ CountsFine(counts') /\ PagesFine(pages')
  <2>. DEFINE p == o.page
              entry == [of |-> o.got, late |-> o.late]
              computed == IF p = "overview" /\ pages["queues"] = None THEN {p, "queues"} ELSE {p}
  <2>1. /\ \A q \in Queues : o.got[q] # None
        /\ pages' = [k \in Pages |-> IF k \in computed THEN entry ELSE pages[k]]
        /\ reads' = [reads EXCEPT ![r] = NoRead] /\ UNCHANGED <<jobs, counts, owed, since, told>>
    BY <1>7 DEF Finish, Counted, o
  <2>2. o.got \in [Queues -> Version] /\ o.late \in BOOLEAN
    BY <1>1, <2>1 DEF Read, Versions
  <2>3. entry \in Entry([Queues -> Version])
    BY <2>2 DEF Entry
  <2>4. NoRead \in Read /\ Fine(NoRead)
    BY <1>1, CacheFacts DEF Fine
  <2>5. PagesFine(pages')
    <3>1. pages' \in [Pages -> Entry([Queues -> Version]) \cup {None}]
      <4>. HIDE DEF computed, entry
      <4>. QED BY <1>1, <2>1, <2>3, CacheFacts
    <3>2. pages'["metrics"] = pages["metrics"] \/ (p = "metrics" /\ pages'["metrics"] = entry)
      BY <2>1 DEF Pages
    <3>3. p = "metrics" /\ ~o.late => \A q \in Queues : o.got[q] >= since[q]
      BY <1>2, <2>1 DEF Fine
    <3>4. ASSUME pages'["metrics"] # None, ~pages'["metrics"].late, NEW q \in Queues
          PROVE  pages'["metrics"].of[q] >= since[q]
      <4>1. CASE pages'["metrics"] = pages["metrics"]
        BY <1>2, <3>4, <4>1 DEF PagesFine
      <4>2. CASE p = "metrics" /\ pages'["metrics"] = entry
        <5>1. ~o.late
          BY <3>4, <4>2
        <5>. QED BY <3>3, <4>2, <5>1
      <4>. QED BY <3>2, <4>1, <4>2
    <3>. QED BY <3>1, <3>4 DEF PagesFine
  <2>. QED BY <1>2, <2>1, <2>4, <2>5
<1>. QED BY <1>3, <1>4, <1>5, <1>6, <1>7

(* What the calls that change jobs do, and what time does.                  *)
LEMMA AccurateNext ==
  ASSUME AccurateInv, CacheStep
  PROVE  AccurateInv'
<1>1. CacheTypeOK /\ ReadsInv /\ AccurateCounts /\ Fresh("metrics")
  BY DEF AccurateInv, Accurate
<1>2. ASSUME NEW r \in Readers,
             (\E p \in Pages : Open(r, p)) \/ (\E q \in Queues : Count(r, q) \/ Answer(r, q) \/ Scan(r, q)) \/ Finish(r)
      PROVE  AccurateInv'
  <2>1. PICK to \in Read :
           /\ reads' = [reads EXCEPT ![r] = to] /\ UNCHANGED <<jobs, owed, since, told>>
           /\ ~to.late => \A q \in Queues :
                /\ to.asked[q] # None => to.asked[q] >= since[q]
                /\ to.page = "metrics" /\ to.got[q] # None => to.got[q] >= since[q]
           /\ counts' \in [Queues -> Entry(Version) \cup {None}]
           /\ \A q \in Queues : counts'[q] # None /\ ~counts'[q].late => counts'[q].of >= since[q]
           /\ pages' \in [Pages -> Entry([Queues -> Version]) \cup {None}]
           /\ pages'["metrics"] # None /\ ~pages'["metrics"].late =>
                \A q \in Queues : pages'["metrics"].of[q] >= since[q]
    BY <1>2, ReadFacts
  <2>2. CacheTypeOK'
    BY <1>1, <2>1 DEF CacheTypeOK
  <2>3. reads'[r] = to /\ \A v \in Readers \ {r} : reads'[v] = reads[v]
    BY <1>1, <2>1, CacheFacts
  <2>4. ReadsInv'
    <3>1. ASSUME NEW v \in Readers, ~reads'[v].late, NEW q \in Queues
          PROVE  /\ reads'[v].asked[q] # None => reads'[v].asked[q] >= since[q]
                 /\ reads'[v].page = "metrics" /\ reads'[v].got[q] # None => reads'[v].got[q] >= since[q]
      <4>1. CASE v = r
        BY <2>1, <2>3, <3>1, <4>1
      <4>2. CASE v # r
        BY <1>1, <2>3, <3>1, <4>2 DEF ReadsInv
      <4>. QED BY <4>1, <4>2
    <3>. QED BY <1>1, <2>1, <3>1 DEF ReadsInv
  <2>. QED BY <2>1, <2>2, <2>4 DEF AccurateInv, Accurate, AccurateCounts, Fresh
<1>3. ASSUME NEW qs \in SUBSET Queues, Changed(qs), UNCHANGED <<counts, pages, reads, since>>,
             told' \in [Queues -> Version] \/ told' = [q \in Queues |-> IF q \in qs THEN jobs'[q] ELSE told[q]],
             \/ owed' = owed
             \/ \E c \in Callers, q \in Queues, changed \in SUBSET Queues :
                  owed' = [owed EXCEPT ![c] = [queue |-> q, changed |-> changed, of |-> jobs']]
      PROVE  AccurateInv'
  <2>1. /\ jobs' = [q \in Queues |-> IF q \in qs THEN jobs[q] + 1 ELSE jobs[q]]
        /\ \A q \in qs : jobs[q] < MaxChanges
        /\ MaxChanges \in Nat /\ jobs \in [Queues -> Version] /\ told \in [Queues -> Version]
        /\ owed \in [Callers -> Owed \cup {None}]
    BY <1>1, <1>3, CacheFacts DEF Changed
  <2>2. jobs' \in [Queues -> Version] /\ \A k \in Queues : jobs[k] <= jobs'[k]
    BY <2>1 DEF Version
  <2>3. \A k \in Queues : since[k] <= jobs'[k]
    BY <1>1, <2>1, <2>2, CacheFacts DEF ReadsInv, Version
  <2>4. told' \in [Queues -> Version]
    BY <1>3, <2>1, <2>2
  <2>5. owed' \in [Callers -> Owed \cup {None}]
    <3>1. CASE owed' = owed
      BY <2>1, <3>1
    <3>2. ASSUME NEW c \in Callers, NEW q \in Queues, NEW changed \in SUBSET Queues,
                 owed' = [owed EXCEPT ![c] = [queue |-> q, changed |-> changed, of |-> jobs']]
          PROVE  owed' \in [Callers -> Owed \cup {None}]
      <4>1. [queue |-> q, changed |-> changed, of |-> jobs'] \in Owed
        BY <2>2 DEF Owed
      <4>. QED BY <2>1, <3>2, <4>1
    <3>. QED BY <1>3, <3>1, <3>2
  <2>6. ASSUME NEW b \in Callers, owed'[b] # None
        PROVE  owed'[b].of[owed'[b].queue] <= jobs'[owed'[b].queue]
    <3>1. \/ owed'[b] = owed[b]
          \/ \E q \in Queues, changed \in SUBSET Queues : owed'[b] = [queue |-> q, changed |-> changed, of |-> jobs']
      BY <1>3, <2>1
    <3>2. CASE owed'[b] = owed[b]
      <4>1. owed[b] \in Owed /\ owed[b].of[owed[b].queue] <= jobs[owed[b].queue]
        BY <1>1, <2>1, <2>6, <3>2 DEF ReadsInv
      <4>2. owed[b].queue \in Queues /\ owed[b].of[owed[b].queue] \in Version
        BY <4>1 DEF Owed
      <4>3. /\ owed[b].of[owed[b].queue] \in Nat /\ jobs[owed[b].queue] \in Nat
            /\ jobs'[owed[b].queue] \in Nat /\ jobs[owed[b].queue] <= jobs'[owed[b].queue]
        BY <2>1, <2>2, <4>2 DEF Version
      <4>. QED BY <3>2, <4>1, <4>3
    <3>3. ASSUME NEW q \in Queues, NEW changed \in SUBSET Queues,
                 owed'[b] = [queue |-> q, changed |-> changed, of |-> jobs']
          PROVE  owed'[b].of[owed'[b].queue] <= jobs'[owed'[b].queue]
      <4>1. jobs'[q] \in Nat
        BY <2>1, <2>2 DEF Version
      <4>. QED BY <3>3, <4>1
    <3>. QED BY <3>1, <3>2, <3>3
  <2>7. CacheTypeOK'
    BY <1>1, <1>3, <2>2, <2>4, <2>5 DEF CacheTypeOK
  <2>. QED BY <1>1, <1>3, <2>3, <2>6, <2>7 DEF AccurateInv, Accurate, AccurateCounts, Fresh, ReadsInv
<1>4. ASSUME NEW c \in Callers, NEW q \in Queues, Change(c, q) PROVE AccurateInv'
  <2>1. PICK others \in SUBSET (Queues \ {q}) :
          /\ Changed({q} \cup others) /\ UNCHANGED <<counts, pages, reads, since, told>>
          /\ owed' = [owed EXCEPT ![c] = [queue |-> q, changed |-> {q} \cup others, of |-> jobs']]
    BY <1>4 DEF Change
  <2>2. {q} \cup others \in SUBSET Queues /\ told' \in [Queues -> Version]
    BY <1>1, <2>1, CacheFacts
  <2>. QED BY <1>3, <2>1, <2>2
<1>5. ASSUME (\E q \in Queues : Move(q)) \/ (\E qs \in SUBSET Queues : ChangeSilently(qs)) PROVE AccurateInv'
  <2>1. CASE \E q \in Queues : Move(q)
    <3>1. PICK q \in Queues : Changed({q}) /\ UNCHANGED <<counts, pages, reads, owed, since, told>>
      BY <2>1 DEF Move
    <3>2. {q} \in SUBSET Queues /\ told' \in [Queues -> Version]
      BY <1>1, <3>1, CacheFacts
    <3>. QED BY <1>3, <3>1, <3>2
  <2>2. CASE \E qs \in SUBSET Queues : ChangeSilently(qs)
    BY <1>3, <2>2 DEF ChangeSilently
  <2>. QED BY <1>5, <2>1, <2>2
<1>6. ASSUME NEW c \in Callers, Invalidate(c) PROVE AccurateInv'
  <2>. DEFINE o == owed[c]
  <2>1. /\ o # None /\ counts' = [counts EXCEPT ![o.queue] = None]
        /\ pages' = [pages EXCEPT !["metrics"] = None, !["overview"] = None]
        /\ reads' = [r \in Readers |-> IF reads[r] = NoRead THEN NoRead ELSE [reads[r] EXCEPT !.late = TRUE]]
        /\ since' = [since EXCEPT ![o.queue] = Newer(o.of[o.queue], since[o.queue])]
        /\ told' = [q \in Queues |-> IF q \in o.changed THEN Newer(o.of[q], told[q]) ELSE told[q]]
        /\ owed' = [owed EXCEPT ![c] = None] /\ jobs' = jobs
    BY <1>6 DEF Invalidate, Returns
  <2>2. /\ o.queue \in Queues /\ o.of \in [Queues -> Version] /\ o.of[o.queue] \in Version
        /\ o.of[o.queue] <= jobs[o.queue]
    BY <1>1, <2>1, CacheFacts DEF ReadsInv, Owed
  <2>3. /\ since' \in [Queues -> Version] /\ since'[o.queue] <= jobs[o.queue]
        /\ \A q \in Queues \ {o.queue} : since'[q] = since[q]
    BY <1>1, <2>1, <2>2, CacheFacts DEF ReadsInv, Newer
  <2>9. told' \in [Queues -> Version]
    <3>1. \A q \in Queues : Newer(o.of[q], told[q]) \in Version /\ told[q] \in Version
      BY <1>1, <2>2, CacheFacts DEF Newer
    <3>. QED BY <2>1, <3>1
  <2>4. ASSUME NEW r \in Readers
        PROVE  reads'[r] \in Read /\ (~reads'[r].late => \A q \in Queues : reads'[r].asked[q] = None /\ reads'[r].got[q] = None)
    <3>1. [reads[r] EXCEPT !.late = TRUE] \in Read /\ [reads[r] EXCEPT !.late = TRUE].late
      BY <1>1, CacheFacts DEF Read
    <3>. QED BY <1>1, <2>1, <3>1, CacheFacts
  <2>5. CacheTypeOK'
    <3>1. counts' \in [Queues -> Entry(Version) \cup {None}] /\ owed' \in [Callers -> Owed \cup {None}]
      BY <1>1, <2>1, CacheFacts
    <3>2. pages' \in [Pages -> Entry([Queues -> Version]) \cup {None}]
      BY <1>1, <2>1, CacheFacts
    <3>3. reads' \in [Readers -> Read]
      BY <2>1, <2>4
    <3>. QED BY <1>1, <2>1, <2>3, <2>9, <3>1, <3>2, <3>3 DEF CacheTypeOK
  <2>6. ReadsInv'
    <3>1. \A q \in Queues : since'[q] <= jobs'[q]
      BY <1>1, <2>1, <2>3 DEF ReadsInv
    <3>2. \A b \in Callers : owed'[b] # None => owed'[b].of[owed'[b].queue] <= jobs'[owed'[b].queue]
      BY <1>1, <2>1, CacheFacts DEF ReadsInv
    <3>. QED BY <2>4, <3>1, <3>2 DEF ReadsInv
  <2>7. AccurateCounts'
    BY <1>1, <2>1, <2>2, <2>3, CacheFacts DEF AccurateCounts
  <2>8. pages'["metrics"] = None
    BY <1>1, <2>1, CacheFacts DEF Pages
  <2>. QED BY <2>5, <2>6, <2>7, <2>8 DEF AccurateInv, Accurate, Fresh
<1>7. ASSUME Expire PROVE AccurateInv'
  <2>1. /\ UNCHANGED <<jobs, reads, owed, since, told>>
        /\ counts' = counts \/ \E q \in Queues : counts' = [counts EXCEPT ![q] = None]
        /\ pages' = pages \/ (\E p \in Pages : pages' = [pages EXCEPT ![p] = None]) \/ pages' = [p \in Pages |-> None]
    BY <1>7 DEF Expire
  <2>2. counts' \in [Queues -> Entry(Version) \cup {None}] /\ \A q \in Queues : counts'[q] \in {counts[q], None}
    BY <1>1, <2>1, CacheFacts
  <2>3. pages' \in [Pages -> Entry([Queues -> Version]) \cup {None}] /\ pages'["metrics"] \in {pages["metrics"], None}
    BY <1>1, <2>1, CacheFacts DEF Pages
  <2>4. CacheTypeOK'
    BY <1>1, <2>1, <2>2, <2>3 DEF CacheTypeOK
  <2>. QED BY <1>1, <2>1, <2>2, <2>3, <2>4 DEF AccurateInv, Accurate, AccurateCounts, Fresh, ReadsInv
<1>. QED BY <1>2, <1>4, <1>5, <1>6, <1>7 DEF CacheStep

(* Whatever requests and changes overlap: once a call that invalidates the    *)
(* entries of a queue has done so, the counts of it and the pages made of its *)
(* jobs are not older than what the call made of it, unless they are of a    *)
(* read that was in flight then.                                           *)
THEOREM AccurateCorrect == Spec => []Accurate
<1>1. Init => AccurateInv
  <2>. SUFFICES ASSUME CacheInit PROVE AccurateInv
    BY DEF Init
  <2>1. /\ jobs \in [Queues -> {0, 1} \cap Version] /\ counts = Unknown /\ pages = [p \in Pages |-> None]
        /\ reads = [r \in Readers |-> NoRead] /\ owed = [c \in Callers |-> None] /\ since = [q \in Queues |-> 0]
        /\ told = [q \in Queues |-> 0]
    BY DEF CacheInit
  <2>2. /\ MaxChanges \in Nat /\ 0 \in Version /\ Version \subseteq Nat
    BY WorkbenchAssumption DEF Version
  <2>3. NoRead \in Read /\ \A q \in Queues : NoRead.asked[q] = None /\ NoRead.got[q] = None
    BY DEF NoRead, Read, Unknown, Versions
  <2>4. CacheTypeOK
    BY <2>1, <2>2, <2>3 DEF CacheTypeOK, Unknown
  <2>5. ReadsInv
    BY <2>1, <2>2, <2>3 DEF ReadsInv
  <2>. QED BY <2>1, <2>4, <2>5 DEF AccurateInv, Accurate, AccurateCounts, Fresh, Unknown, Pages
<1>2. AccurateInv /\ [Next]_vars => AccurateInv'
  <2>. SUFFICES ASSUME AccurateInv, [Next]_vars PROVE AccurateInv'
    OBVIOUS
  <2>1. CASE UNCHANGED cacheVars
    BY <2>1 DEF cacheVars, AccurateInv, Accurate, CacheTypeOK, AccurateCounts, Fresh, ReadsInv
  <2>. QED BY <2>1, AccurateNext, CacheSteps
<1>3. AccurateInv => Accurate
  BY DEF AccurateInv
<1>. QED BY <1>1, <1>2, <1>3, PTL DEF Spec

-----------------------------------------------------------------------------
(* The alerts.                                                             *)
AlertStep ==
  \/ \E x \in Checks \cup Handlers :
       \/ Start(x) \/ ReadRules(x) \/ SeeQueues(x) \/ Reject(x) \/ Delivered(x) \/ End(x)
       \/ \E k \in Keys : Evaluate(x, k)
  \/ Tick

LEMMA AlertSteps == [Next]_vars => AlertStep \/ UNCHANGED alertVars
BY DEF Next, vars, Cached, Alerting, AlertStep

(* The n-th place is where n places are at or before it: there is one for   *)
(* every n up to their number.                                             *)
LEMMA NthFacts ==
  ASSUME NEW S \in SUBSET Nat, IsFiniteSet(S)
  PROVE  /\ Cardinality(S) \in Nat
         /\ \A n \in 1 .. Cardinality(S) :
              Nth(S, n) \in S /\ Cardinality({j \in S : j <= Nth(S, n)}) = n
<1>. DEFINE size == Cardinality(S)
            upto(i) == Cardinality({j \in S : j <= i})
            rank == [i \in S |-> upto(i)]
<1>1. size \in Nat
  BY FS_CardinalityType
<1>2. ASSUME NEW i \in S PROVE upto(i) \in 1 .. size
  <2>. DEFINE T == {j \in S : j <= i}
  <2>1. T \in SUBSET S /\ i \in T
    OBVIOUS
  <2>2. IsFiniteSet(T) /\ Cardinality(T) <= size
    BY <2>1, FS_Subset
  <2>3. Cardinality(T) \in Nat /\ Cardinality(T) # 0
    BY <2>1, <2>2, FS_CardinalityType, FS_EmptySet
  <2>. QED BY <1>1, <2>2, <2>3
<1>3. ASSUME NEW i \in S, NEW k \in S, i < k PROVE upto(i) # upto(k)
  <2>. DEFINE T == {j \in S : j <= i}
              U == {j \in S : j <= k}
  <2>1. T \in SUBSET U /\ U \in SUBSET S /\ k \in U /\ k \notin T
    <3>1. i \in Nat /\ k \in Nat /\ \A j \in S : j \in Nat
      OBVIOUS
    <3>2. \A j \in S : j <= i => j <= k
      BY <1>3, <3>1
    <3>3. ~(k <= i) /\ k <= k
      BY <1>3, <3>1
    <3>. QED BY <3>2, <3>3
  <2>2. IsFiniteSet(U)
    BY <2>1, FS_Subset
  <2>3. Cardinality(T) = Cardinality(U) => T = U
    <3>. HIDE DEF T, U
    <3>. QED BY <2>1, <2>2, FS_Subset
  <2>. QED BY <2>1, <2>3
<1>4. \A i, k \in S : upto(i) = upto(k) => i = k
  <2>. HIDE DEF upto
  <2>. QED BY <1>3
<1>. HIDE DEF upto
<1>5. rank \in Injection(S, 1 .. size)
  BY <1>2, <1>4 DEF Injection, IsInjective
<1>6. IsFiniteSet(1 .. size) /\ Cardinality(1 .. size) = size
  BY <1>1, FS_Interval
<1>7. rank \in Surjection(S, 1 .. size)
  <2>. HIDE DEF rank, size
  <2>. QED BY <1>5, <1>6, FS_Injection DEF size
<1>8. ASSUME NEW n \in 1 .. size PROVE \E i \in S : upto(i) = n
  BY <1>7, <1>8 DEF Surjection
<1>9. ASSUME NEW n \in 1 .. size PROVE Nth(S, n) \in S /\ upto(Nth(S, n)) = n
  BY <1>8, <1>9 DEF Nth, upto
<1>. QED BY <1>1, <1>9 DEF upto

(* Of a finite set of places, those with at most n at or after them are at  *)
(* most n.                                                                *)
LEMMA NewestFacts ==
  ASSUME NEW S \in SUBSET Nat, IsFiniteSet(S), NEW n \in Nat,
         NEW T, T = {i \in S : Cardinality({j \in S : j >= i}) <= n}
  PROVE  IsFiniteSet(T) /\ Cardinality(T) <= n
<1>. DEFINE from(i) == Cardinality({j \in S : j >= i})
            rank == [i \in T |-> from(i)]
<1>1. T \in SUBSET S /\ IsFiniteSet(T)
  BY FS_Subset
<1>2. ASSUME NEW i \in T PROVE from(i) \in 1 .. n
  <2>. DEFINE U == {j \in S : j >= i}
  <2>1. U \in SUBSET S /\ i \in U
    BY <1>1
  <2>2. IsFiniteSet(U)
    BY <2>1, FS_Subset
  <2>3. Cardinality(U) \in Nat /\ Cardinality(U) # 0
    BY <2>1, <2>2, FS_CardinalityType, FS_EmptySet
  <2>4. Cardinality(U) <= n
    OBVIOUS
  <2>. QED BY <2>3, <2>4
<1>3. ASSUME NEW i \in T, NEW k \in T, i < k PROVE from(i) # from(k)
  <2>. DEFINE U == {j \in S : j >= k}
              V == {j \in S : j >= i}
  <2>1. U \in SUBSET V /\ V \in SUBSET S /\ i \in V /\ i \notin U
    <3>1. i \in S /\ i \in Nat /\ k \in Nat /\ \A j \in S : j \in Nat
      BY <1>1
    <3>2. \A j \in S : j >= k => j >= i
      BY <1>3, <3>1
    <3>3. ~(i >= k) /\ i >= i
      BY <1>3, <3>1
    <3>. QED BY <3>1, <3>2, <3>3
  <2>2. IsFiniteSet(V)
    BY <2>1, FS_Subset
  <2>3. Cardinality(U) = Cardinality(V) => U = V
    <3>. HIDE DEF U, V
    <3>. QED BY <2>1, <2>2, FS_Subset
  <2>. QED BY <2>1, <2>3
<1>4. \A i, k \in T : from(i) = from(k) => i = k
  <2>. HIDE DEF from
  <2>. QED BY <1>1, <1>3
<1>. HIDE DEF from
<1>5. rank \in Injection(T, 1 .. n)
  BY <1>2, <1>4 DEF Injection, IsInjective
<1>6. IsFiniteSet(1 .. n) /\ Cardinality(1 .. n) = n
  BY FS_Interval
<1>7. Cardinality(T) <= Cardinality(1 .. n)
  <2>. HIDE DEF rank
  <2>. QED BY <1>5, <1>6, FS_Injection
<1>. QED BY <1>1, <1>6, <1>7

(* A map of cooldowns: a fingerprint has one place in it.                   *)
CooldownEntry == [print : Prints, left : 0 .. Cooldown]
Single(cs) == \A i, j \in DOMAIN cs : cs[i].print = cs[j].print => i = j

(* pruneCooldowns leaves at most Cap entries, each of them one that was     *)
(* there, no two of them the same one.                                     *)
LEMMA PrunedFacts ==
  ASSUME NEW cs \in Seq(CooldownEntry), Single(cs)
  PROVE  /\ Pruned(cs) \in Seq(CooldownEntry) /\ Len(Pruned(cs)) <= Cap /\ Single(Pruned(cs))
         /\ \A n \in DOMAIN Pruned(cs) : \E i \in DOMAIN cs : Pruned(cs)[n] = cs[i]
<1>. DEFINE left == {i \in DOMAIN cs : cs[i].left > 0}
            stay == {i \in left : Cardinality({j \in left : j >= i}) <= Cap}
            size == Cardinality(stay)
            kept == [n \in 1 .. size |-> cs[Nth(stay, n)]]
<1>0. Cap \in Nat /\ Len(cs) \in Nat /\ DOMAIN cs = 1 .. Len(cs) /\ \A i \in DOMAIN cs : cs[i] \in CooldownEntry
  BY AlertsAssumption
<1>1. CASE Len(cs) <= Cap
  <2>1. Pruned(cs) = cs
    BY <1>1 DEF Pruned
  <2>. QED BY <1>1, <2>1
<1>2. CASE ~(Len(cs) <= Cap)
  <2>1. Pruned(cs) = kept
    BY <1>2 DEF Pruned
  <2>2. IsFiniteSet(DOMAIN cs) /\ left \in SUBSET DOMAIN cs /\ DOMAIN cs \in SUBSET Nat
    BY <1>0, FS_Interval
  <2>3. IsFiniteSet(left) /\ left \in SUBSET Nat
    <3>. HIDE DEF left
    <3>. QED BY <2>2, FS_Subset
  <2>4. IsFiniteSet(stay) /\ size <= Cap
    <3>. HIDE DEF left
    <3>. QED BY <1>0, <2>3, NewestFacts
  <2>5. stay \in SUBSET Nat /\ stay \in SUBSET DOMAIN cs
    BY <1>0
  <2>. HIDE DEF left, stay
  <2>6. /\ size \in Nat
        /\ \A n \in 1 .. size : Nth(stay, n) \in stay /\ Cardinality({j \in stay : j <= Nth(stay, n)}) = n
    BY <2>4, <2>5, NthFacts
  <2>. HIDE DEF size
  <2>7. DOMAIN kept = 1 .. size /\ \A n \in 1 .. size : kept[n] = cs[Nth(stay, n)] /\ Nth(stay, n) \in DOMAIN cs
    BY <2>5, <2>6
  <2>8. \A n \in 1 .. size : kept[n] \in CooldownEntry
    BY <1>0, <2>7
  <2>9. kept \in Seq(CooldownEntry) /\ Len(kept) = size
    <3>. HIDE DEF CooldownEntry
    <3>. QED BY <2>6, <2>8
  <2>10. Single(kept)
    <3>. HIDE DEF kept
    <3>. SUFFICES ASSUME NEW n \in 1 .. size, NEW m \in 1 .. size, kept[n].print = kept[m].print PROVE n = m
      BY <2>7 DEF Single
    <3>1. Nth(stay, n) = Nth(stay, m)
      BY <2>7 DEF Single
    <3>. QED BY <2>6, <3>1
  <2>. HIDE DEF kept
  <2>. QED BY <2>1, <2>4, <2>7, <2>9, <2>10
<1>. QED BY <1>1, <1>2

(* Map.set: one entry of the fingerprint, new; the others as they were.      *)
LEMMA CooledFacts ==
  ASSUME cooldowns \in Seq(CooldownEntry), Single(cooldowns), NEW f \in Prints
  PROVE  /\ Cooled(f) \in Seq(CooldownEntry) /\ Single(Cooled(f))
         /\ \E i \in DOMAIN Cooled(f) : Cooled(f)[i].print = f
         /\ \A i \in DOMAIN Cooled(f) : Cooled(f)[i].print = f => Cooled(f)[i].left = Cooldown
         /\ \A i \in DOMAIN Cooled(f) : Cooled(f)[i].print # f =>
              \E j \in DOMAIN cooldowns : Cooled(f)[i] = cooldowns[j]
         /\ \A j \in DOMAIN cooldowns : cooldowns[j].print # f =>
              \E i \in DOMAIN Cooled(f) : Cooled(f)[i] = cooldowns[j]
<1>. DEFINE entry == [print |-> f, left |-> Cooldown]
            at == {i \in DOMAIN cooldowns : cooldowns[i].print = f}
            renewed == [i \in DOMAIN cooldowns |-> IF i \in at THEN entry ELSE cooldowns[i]]
            n == Len(cooldowns)
<1>1. entry \in CooldownEntry /\ entry.print = f /\ entry.left = Cooldown
  BY AlertsAssumption DEF CooldownEntry
<1>2. n \in Nat /\ DOMAIN cooldowns = 1 .. n /\ \A i \in 1 .. n : cooldowns[i] \in CooldownEntry
  OBVIOUS
<1>3. CASE at = {}
  <2>. DEFINE more == Append(cooldowns, entry)
  <2>1. Cooled(f) = more
    BY <1>3 DEF Cooled
  <2>. HIDE DEF entry
  <2>2. /\ more \in Seq(CooldownEntry) /\ DOMAIN more = 1 .. n + 1 /\ more[n + 1] = entry
        /\ \A i \in 1 .. n : more[i] = cooldowns[i]
    BY <1>1, <1>2
  <2>3. \A i \in 1 .. n : cooldowns[i].print # f
    BY <1>2, <1>3
  <2>. HIDE DEF more
  <2>4. \A i \in DOMAIN more : i = n + 1 \/ i \in 1 .. n
    BY <1>2, <2>2
  <2>5. n + 1 \in DOMAIN more /\ \A i \in 1 .. n : i \in DOMAIN more
    BY <1>2, <2>2
  <2>6. Single(more)
    BY <1>1, <1>2, <2>2, <2>3, <2>4 DEF Single
  <2>. QED BY <1>1, <1>2, <2>1, <2>2, <2>3, <2>4, <2>5, <2>6
<1>4. CASE at # {}
  <2>1. Cooled(f) = renewed
    BY <1>4 DEF Cooled
  <2>. HIDE DEF entry
  <2>2. DOMAIN renewed = 1 .. n /\ \A i \in 1 .. n : renewed[i] = IF cooldowns[i].print = f THEN entry ELSE cooldowns[i]
    BY <1>2
  <2>3. renewed \in Seq(CooldownEntry)
    <3>1. \A i \in 1 .. n : renewed[i] \in CooldownEntry
      BY <1>1, <1>2, <2>2
    <3>. HIDE DEF renewed, CooldownEntry
    <3>2. renewed \in [1 .. n -> CooldownEntry]
      <4>1. renewed = [i \in 1 .. n |-> renewed[i]]
        BY <1>2 DEF renewed
      <4>. QED BY <3>1, <4>1
    <3>. QED BY <1>2, <3>2
  <2>4. PICK i \in 1 .. n : cooldowns[i].print = f
    BY <1>2, <1>4
  <2>. HIDE DEF renewed, at
  <2>5. \A j \in 1 .. n : renewed[j].print = cooldowns[j].print
    BY <1>1, <2>2
  <2>6. Single(renewed)
    BY <1>2, <2>2, <2>5 DEF Single
  <2>. QED BY <1>1, <1>2, <2>1, <2>2, <2>3, <2>4, <2>6
<1>. QED BY <1>3, <1>4

(* Besides what CooldownsTrue says: a fingerprint that fired within its      *)
(* cooldown has a window in the map, unless it was evicted; and a run that   *)
(* delivers has something to deliver.                                      *)
KnownInv == \A f \in Prints : gap[f] < Cooldown => f \in evicted \/ Within(cooldowns, f)
FiredInv == \A x \in Checks \cup Handlers : runs[x].pc = "deliver" => runs[x].fired \in Keys

AlertsInv == CooldownsTrue /\ KnownInv /\ FiredInv

(* What is known of the fingerprints: one conjunct of CooldownsTrue, and the *)
(* one that KnownInv adds.                                                 *)
Windows(cs, since_, gone) ==
  /\ cs \in Seq(CooldownEntry) /\ Len(cs) <= Cap /\ Single(cs)
  /\ since_ \in [Prints -> 0 .. Cooldown] /\ gone \subseteq Prints
  /\ \A f \in Prints \ gone : \A i \in DOMAIN cs : cs[i].print = f => cs[i].left + since_[f] >= Cooldown
  /\ \A f \in Prints : since_[f] < Cooldown => f \in gone \/ Within(cs, f)

Working(rs, act, last) ==
  /\ rs \in [Checks \cup Handlers -> Run]
  /\ act \subseteq {HealthKey(k[1], k[2]) : k \in Keys} /\ last \in Prints \cup {NoAlert}
  /\ \A x \in Checks \cup Handlers : rs[x].pc = "deliver" => rs[x].fired \in Keys

LEMMA AlertParts ==
  /\ AlertsInv <=> Windows(cooldowns, gap, evicted) /\ Working(runs, active, recent)
  /\ AlertsInv' <=> Windows(cooldowns', gap', evicted') /\ Working(runs', active', recent')
BY DEF AlertsInv, CooldownsTrue, KnownInv, FiredInv, AlertsTypeOK, Windows, Working, Single, CooldownEntry, Within

LEMMA KeyFacts ==
  /\ \A k \in Keys : KeyPrint(k) \in Prints /\ HealthKey(k[1], k[2]) \in {HealthKey(j[1], j[2]) : j \in Keys}
  /\ NoRun \in Run /\ NoRun.pc = "idle" /\ Cooldown \in Nat /\ Cooldown > 0 /\ Cap \in Nat
BY AlertsAssumption DEF Prints, NoRun, Run

(* Firing keeps what the map knows.                                        *)
LEMMA PushWindows ==
  ASSUME Windows(cooldowns, gap, evicted), NEW f \in Prints, Push(f)
  PROVE  Windows(cooldowns', gap', evicted')
<1>. DEFINE new == Cooled(f)
            kept == Pruned(new)
            gone == (evicted \ {f}) \cup {g \in Prints : Within(new, g) /\ ~Within(kept, g)}
<1>1. cooldowns' = kept /\ gap' = [gap EXCEPT ![f] = 0] /\ evicted' = gone
  BY DEF Push
<1>2. /\ cooldowns \in Seq(CooldownEntry) /\ Single(cooldowns)
      /\ gap \in [Prints -> 0 .. Cooldown] /\ evicted \subseteq Prints
      /\ \A g \in Prints \ evicted : \A i \in DOMAIN cooldowns :
           cooldowns[i].print = g => cooldowns[i].left + gap[g] >= Cooldown
      /\ \A g \in Prints : gap[g] < Cooldown => g \in evicted \/ Within(cooldowns, g)
  BY DEF Windows
<1>3. /\ new \in Seq(CooldownEntry) /\ Single(new)
      /\ \E i \in DOMAIN new : new[i].print = f
      /\ \A i \in DOMAIN new : new[i].print = f => new[i].left = Cooldown
      /\ \A i \in DOMAIN new : new[i].print # f => \E j \in DOMAIN cooldowns : new[i] = cooldowns[j]
      /\ \A j \in DOMAIN cooldowns : cooldowns[j].print # f => \E i \in DOMAIN new : new[i] = cooldowns[j]
  BY <1>2, CooledFacts
<1>. HIDE DEF new
<1>4. /\ kept \in Seq(CooldownEntry) /\ Len(kept) <= Cap /\ Single(kept)
      /\ \A n \in DOMAIN kept : \E i \in DOMAIN new : kept[n] = new[i]
  BY <1>3, PrunedFacts
<1>. HIDE DEF kept
<1>5. Within(new, f)
  BY <1>3, KeyFacts DEF Within
<1>6. ASSUME NEW g \in Prints, g # f, Within(cooldowns, g) PROVE Within(new, g)
  BY <1>3, <1>6 DEF Within
<1>7. gone \subseteq Prints /\ \A g \in Prints : (g \in evicted /\ g # f) \/ (Within(new, g) /\ ~Within(kept, g)) => g \in gone
  BY <1>2
<1>. HIDE DEF gone
<1>8. gap' \in [Prints -> 0 .. Cooldown] /\ gap'[f] = 0 /\ \A g \in Prints \ {f} : gap'[g] = gap[g]
  BY <1>1, <1>2, KeyFacts
<1>9. ASSUME NEW g \in Prints \ gone, NEW n \in DOMAIN kept, kept[n].print = g
      PROVE  kept[n].left + gap'[g] >= Cooldown
  <2>1. PICK i \in DOMAIN new : kept[n] = new[i]
    BY <1>4
  <2>2. CASE g = f
    <3>1. kept[n].left = Cooldown
      BY <1>3, <1>9, <2>1, <2>2
    <3>. QED BY <1>8, <2>2, <3>1, KeyFacts
  <2>3. CASE g # f
    <3>1. PICK j \in DOMAIN cooldowns : new[i] = cooldowns[j]
      BY <1>3, <1>9, <2>1, <2>3
    <3>2. g \notin evicted
      BY <1>7, <1>9, <2>3
    <3>3. cooldowns[j].left + gap[g] >= Cooldown
      BY <1>2, <1>9, <2>1, <3>1, <3>2
    <3>. QED BY <1>8, <2>1, <2>3, <3>1, <3>3
  <2>. QED BY <2>2, <2>3
<1>10. ASSUME NEW g \in Prints, gap'[g] < Cooldown PROVE g \in gone \/ Within(kept, g)
  <2>1. CASE g = f
    BY <1>5, <1>7, <2>1
  <2>2. CASE g # f
    <3>1. g \in evicted \/ Within(cooldowns, g)
      BY <1>2, <1>8, <1>10, <2>2
    <3>. QED BY <1>6, <1>7, <2>2, <3>1
  <2>. QED BY <2>1, <2>2
<1>. QED BY <1>1, <1>4, <1>7, <1>8, <1>9, <1>10 DEF Windows

(* So does time.                                                           *)
LEMMA TickWindows ==
  ASSUME Windows(cooldowns, gap, evicted), Tick
  PROVE  Windows(cooldowns', gap', evicted')
<1>. DEFINE n == Len(cooldowns)
            older(e) == [e EXCEPT !.left = IF e.left = 0 THEN 0 ELSE e.left - 1]
<1>1. /\ cooldowns' = [i \in DOMAIN cooldowns |-> older(cooldowns[i])]
      /\ gap' = [f \in Prints |-> IF gap[f] < Cooldown THEN gap[f] + 1 ELSE Cooldown]
      /\ evicted' = {f \in evicted : gap'[f] < Cooldown}
  BY DEF Tick
<1>2. /\ cooldowns \in Seq(CooldownEntry) /\ Len(cooldowns) <= Cap /\ Single(cooldowns)
      /\ gap \in [Prints -> 0 .. Cooldown] /\ evicted \subseteq Prints
      /\ \A g \in Prints \ evicted : \A i \in DOMAIN cooldowns :
           cooldowns[i].print = g => cooldowns[i].left + gap[g] >= Cooldown
      /\ \A g \in Prints : gap[g] < Cooldown => g \in evicted \/ Within(cooldowns, g)
  BY DEF Windows
<1>3. n \in Nat /\ DOMAIN cooldowns = 1 .. n /\ \A i \in 1 .. n : cooldowns[i] \in CooldownEntry
  BY <1>2
<1>4. \A e \in CooldownEntry : /\ older(e) \in CooldownEntry /\ older(e).print = e.print
                               /\ e.left \in 0 .. Cooldown
                               /\ older(e).left = IF e.left = 0 THEN 0 ELSE e.left - 1
  BY KeyFacts DEF CooldownEntry
<1>. HIDE DEF older
<1>5. /\ DOMAIN cooldowns' = 1 .. n
      /\ \A i \in 1 .. n : /\ cooldowns'[i] \in CooldownEntry /\ cooldowns'[i].print = cooldowns[i].print
                           /\ cooldowns[i].left \in 0 .. Cooldown
                           /\ cooldowns'[i].left = IF cooldowns[i].left = 0 THEN 0 ELSE cooldowns[i].left - 1
  BY <1>1, <1>3, <1>4
<1>6. cooldowns' \in Seq(CooldownEntry) /\ Len(cooldowns') = n
  <2>1. cooldowns' = [i \in 1 .. n |-> cooldowns'[i]]
    BY <1>1, <1>3
  <2>2. cooldowns' \in [1 .. n -> CooldownEntry]
    <3>. HIDE DEF CooldownEntry
    <3>. QED BY <1>5, <2>1
  <2>. HIDE DEF CooldownEntry, n
  <2>. QED BY <1>3, <1>5, <2>2 DEF n
<1>7. Single(cooldowns')
  BY <1>2, <1>3, <1>5 DEF Single
<1>8. \A f \in Prints : /\ gap[f] \in 0 .. Cooldown /\ gap'[f] \in 0 .. Cooldown
                        /\ gap'[f] = IF gap[f] < Cooldown THEN gap[f] + 1 ELSE Cooldown
  BY <1>1, <1>2, KeyFacts
<1>9. gap' \in [Prints -> 0 .. Cooldown]
  BY <1>1, <1>8
<1>10. ASSUME NEW f \in Prints \ evicted', NEW i \in 1 .. n, cooldowns'[i].print = f
       PROVE  cooldowns'[i].left + gap'[f] >= Cooldown
  <2>1. CASE f \in evicted
    BY <1>1, <1>5, <1>8, <2>1, KeyFacts
  <2>2. CASE f \notin evicted
    <3>1. cooldowns[i].left + gap[f] >= Cooldown
      BY <1>2, <1>3, <1>5, <1>10, <2>2
    <3>. QED BY <1>5, <1>8, <3>1, KeyFacts
  <2>. QED BY <2>1, <2>2
<1>11. ASSUME NEW f \in Prints, gap'[f] < Cooldown PROVE f \in evicted' \/ Within(cooldowns', f)
  <2>1. gap[f] < Cooldown /\ gap'[f] = gap[f] + 1
    BY <1>8, <1>11, KeyFacts
  <2>2. CASE f \in evicted
    BY <1>1, <1>11, <2>2
  <2>3. CASE f \notin evicted
    <3>1. PICK i \in 1 .. n : cooldowns[i].print = f /\ cooldowns[i].left > 0
      BY <1>2, <1>3, <2>1, <2>3 DEF Within
    <3>2. cooldowns[i].left + gap[f] >= Cooldown
      BY <1>2, <1>3, <2>3, <3>1
    <3>3. cooldowns'[i].left > 0 /\ cooldowns'[i].print = f
      BY <1>5, <1>8, <1>11, <2>1, <3>1, <3>2, KeyFacts
    <3>. QED BY <1>5, <3>3 DEF Within
  <2>. QED BY <2>2, <2>3
<1>12. evicted' \subseteq Prints
  BY <1>1, <1>2
<1>. QED BY <1>2, <1>5, <1>6, <1>7, <1>9, <1>10, <1>11, <1>12 DEF Windows

(* All but an evaluation leave the run they are about without a delivery.    *)
LEMMA QuietSteps ==
  ASSUME Working(runs, active, recent), NEW x \in Checks \cup Handlers,
         Start(x) \/ ReadRules(x) \/ SeeQueues(x) \/ Reject(x) \/ Delivered(x) \/ End(x)
  PROVE  \E to \in Run : runs' = [runs EXCEPT ![x] = to] /\ to.pc # "deliver"
<1>1. runs \in [Checks \cup Handlers -> Run] /\ runs[x] \in Run
  BY DEF Working
<1>2. CASE Start(x)
  <2>. DEFINE to == [runs[x] EXCEPT !.pc = "rules"]
  <2>1. to \in Run /\ to.pc = "rules"
    BY <1>1 DEF Run
  <2>2. runs' = [runs EXCEPT ![x] = to]
    BY <1>2 DEF Start
  <2>. HIDE DEF to
  <2>. QED BY <2>1, <2>2
<1>3. CASE ReadRules(x)
  <2>1. PICK ks \in SUBSET ((IF x \in Checks THEN HealthRules ELSE EventRules) \X Watched) :
          runs' = [runs EXCEPT ![x] =
            IF ks = {} THEN NoRun
            ELSE [runs[x] EXCEPT !.todo = ks, !.pc = IF x \in Checks THEN "queues" ELSE "each"]]
    BY <1>3 DEF ReadRules
  <2>. DEFINE next == IF x \in Checks THEN "queues" ELSE "each"
              to == IF ks = {} THEN NoRun ELSE [runs[x] EXCEPT !.todo = ks, !.pc = next]
  <2>2. ks \in SUBSET Keys
    BY DEF Keys, Rules
  <2>3. next \in {"queues", "each"}
    OBVIOUS
  <2>4. runs' = [runs EXCEPT ![x] = to]
    BY <2>1
  <2>. HIDE DEF next
  <2>5. to \in Run /\ to.pc # "deliver"
    <3>1. CASE ks = {}
      BY <3>1, KeyFacts
    <3>2. CASE ks # {}
      BY <1>1, <2>2, <2>3, <3>2 DEF Run
    <3>. QED BY <3>1, <3>2
  <2>. HIDE DEF to
  <2>. QED BY <2>4, <2>5
<1>4. CASE SeeQueues(x)
  <2>1. PICK qs \in SUBSET Watched : runs' = [runs EXCEPT ![x].pc = "each", ![x].behind = qs]
    BY <1>4 DEF SeeQueues
  <2>. DEFINE to == [runs[x] EXCEPT !.pc = "each", !.behind = qs]
  <2>2. to \in Run /\ to.pc = "each"
    BY <1>1 DEF Run
  <2>3. runs' = [runs EXCEPT ![x] = to]
    BY <1>1, <2>1
  <2>. HIDE DEF to
  <2>. QED BY <2>2, <2>3
<1>5. CASE Reject(x) \/ End(x)
  <2>1. runs' = [runs EXCEPT ![x] = NoRun]
    BY <1>5 DEF Reject, End
  <2>. QED BY <2>1, KeyFacts
<1>6. CASE Delivered(x)
  <2>. DEFINE to == [runs[x] EXCEPT !.pc = "each", !.fired = NoAlert]
  <2>1. to \in Run /\ to.pc = "each"
    BY <1>1 DEF Run
  <2>2. runs' = [runs EXCEPT ![x] = to]
    BY <1>1, <1>6 DEF Delivered
  <2>. HIDE DEF to
  <2>. QED BY <2>1, <2>2
<1>. QED BY <1>2, <1>3, <1>4, <1>5, <1>6

(* An evaluation fires, resolves or goes on.                                *)
LEMMA EvaluateFacts ==
  ASSUME Working(runs, active, recent), NEW x \in Checks \cup Handlers, NEW k \in Keys, Evaluate(x, k)
  PROVE  \E to \in Run :
           /\ runs' = [runs EXCEPT ![x] = to] /\ runs[x].pc = "each"
           /\ \/ /\ Push(KeyPrint(k)) /\ ~Within(cooldowns, KeyPrint(k)) /\ UNCHANGED active
                 /\ to.pc = "deliver" /\ to.fired = k
              \/ /\ recent' = KeyPrint(k) /\ UNCHANGED <<cooldowns, active, gap, evicted>>
                 /\ to.pc = "deliver" /\ to.fired = k /\ to.sent = "resolved"
              \/ /\ active' \subseteq active \cup {HealthKey(k[1], k[2])}
                 /\ UNCHANGED <<cooldowns, recent, gap, evicted>> /\ to.pc = "each"
<1>. DEFINE f == KeyPrint(k)
            key == HealthKey(k[1], k[2])
            rest == [runs[x] EXCEPT !.todo = runs[x].todo \ {k}]
            Send(what) == [rest EXCEPT !.pc = "deliver", !.fired = k, !.sent = what]
<1>1. runs[x].pc = "each" /\ runs[x] \in Run
  BY DEF Evaluate, Working
<1>2. \/ Push(f) /\ ~Within(cooldowns, f) /\ UNCHANGED active /\ runs' = [runs EXCEPT ![x] = Send("firing")]
      \/ recent' = f /\ runs' = [runs EXCEPT ![x] = Send("resolved")] /\ UNCHANGED <<cooldowns, active, gap, evicted>>
      \/ /\ runs' = [runs EXCEPT ![x] = rest]
         /\ active' \subseteq active \cup {key} /\ UNCHANGED <<cooldowns, recent, gap, evicted>>
  BY DEF Evaluate
<1>3. rest \in Run /\ rest.pc = "each"
  BY <1>1 DEF Run
<1>. HIDE DEF rest, f, key
<1>4. \A what \in {"firing", "resolved"} :
        Send(what) \in Run /\ Send(what).pc = "deliver" /\ Send(what).fired = k /\ Send(what).sent = what
  BY <1>3 DEF Run
<1>. HIDE DEF Send
<1>5. CASE Push(f) /\ ~Within(cooldowns, f) /\ UNCHANGED active /\ runs' = [runs EXCEPT ![x] = Send("firing")]
  BY <1>1, <1>4, <1>5 DEF f
<1>6. CASE recent' = f /\ runs' = [runs EXCEPT ![x] = Send("resolved")] /\ UNCHANGED <<cooldowns, active, gap, evicted>>
  BY <1>1, <1>4, <1>6 DEF f
<1>7. CASE /\ runs' = [runs EXCEPT ![x] = rest]
           /\ active' \subseteq active \cup {key} /\ UNCHANGED <<cooldowns, recent, gap, evicted>>
  BY <1>1, <1>3, <1>7 DEF key
<1>. QED BY <1>2, <1>5, <1>6, <1>7

(* Every step keeps what the map knows and what the runs deliver.            *)
LEMMA AlertsNext ==
  ASSUME AlertsInv, AlertStep
  PROVE  AlertsInv'
<1>1. Windows(cooldowns, gap, evicted) /\ Working(runs, active, recent)
  BY AlertParts
<1>2. ASSUME NEW x \in Checks \cup Handlers, NEW to \in Run, runs' = [runs EXCEPT ![x] = to],
             to.pc = "deliver" => to.fired \in Keys,
             active' \subseteq {HealthKey(k[1], k[2]) : k \in Keys}, recent' \in Prints \cup {NoAlert}
      PROVE  Working(runs', active', recent')
  <2>1. runs \in [Checks \cup Handlers -> Run]
    BY <1>1 DEF Working
  <2>2. runs' \in [Checks \cup Handlers -> Run] /\ runs'[x] = to /\ \A y \in (Checks \cup Handlers) \ {x} : runs'[y] = runs[y]
    BY <1>2, <2>1
  <2>. QED BY <1>1, <1>2, <2>2 DEF Working
<1>3. ASSUME NEW x \in Checks \cup Handlers, Start(x) \/ ReadRules(x) \/ SeeQueues(x) \/ Reject(x) \/ End(x)
      PROVE  AlertsInv'
  <2>1. /\ cooldowns' = cooldowns /\ active' = active /\ recent' = recent /\ gap' = gap /\ evicted' = evicted
        /\ active \subseteq {HealthKey(k[1], k[2]) : k \in Keys} /\ recent \in Prints \cup {NoAlert}
    BY <1>1, <1>3 DEF Start, ReadRules, SeeQueues, Reject, End, Stays, Working
  <2>2. PICK to \in Run : runs' = [runs EXCEPT ![x] = to] /\ to.pc # "deliver"
    BY <1>1, <1>3, QuietSteps
  <2>3. Working(runs', active', recent')
    BY <1>2, <2>1, <2>2
  <2>. QED BY <1>1, <2>1, <2>3, AlertParts
<1>4. ASSUME NEW x \in Checks \cup Handlers, Delivered(x) PROVE AlertsInv'
  <2>. DEFINE key == HealthKey(runs[x].fired[1], runs[x].fired[2])
  <2>1. /\ runs[x].pc = "deliver" /\ active' \subseteq active \cup {key} /\ UNCHANGED <<cooldowns, recent, gap, evicted>>
    BY <1>4 DEF Delivered
  <2>2. key \in {HealthKey(k[1], k[2]) : k \in Keys}
    BY <1>1, <2>1, KeyFacts DEF Working
  <2>. HIDE DEF key
  <2>3. PICK to \in Run : runs' = [runs EXCEPT ![x] = to] /\ to.pc # "deliver"
    BY <1>1, <1>4, QuietSteps
  <2>4. active' \subseteq {HealthKey(k[1], k[2]) : k \in Keys} /\ recent' \in Prints \cup {NoAlert}
    BY <1>1, <2>1, <2>2 DEF Working
  <2>5. Working(runs', active', recent')
    BY <1>2, <2>3, <2>4
  <2>. QED BY <1>1, <2>1, <2>5, AlertParts
<1>5. ASSUME NEW x \in Checks \cup Handlers, NEW k \in Keys, Evaluate(x, k) PROVE AlertsInv'
  <2>. DEFINE f == KeyPrint(k)
              key == HealthKey(k[1], k[2])
  <2>1. f \in Prints /\ key \in {HealthKey(j[1], j[2]) : j \in Keys}
    BY KeyFacts
  <2>2. PICK to \in Run :
           /\ runs' = [runs EXCEPT ![x] = to]
           /\ \/ Push(f) /\ UNCHANGED active /\ to.fired = k
              \/ recent' = f /\ UNCHANGED <<cooldowns, active, gap, evicted>> /\ to.fired = k
              \/ active' \subseteq active \cup {key} /\ UNCHANGED <<cooldowns, recent, gap, evicted>> /\ to.pc = "each"
    BY <1>1, <1>5, EvaluateFacts
  <2>. HIDE DEF f, key
  <2>3. to.pc = "deliver" => to.fired \in Keys
    BY <2>2
  <2>4. Push(f) => recent' = f
    BY DEF Push
  <2>5. active' \subseteq {HealthKey(j[1], j[2]) : j \in Keys} /\ recent' \in Prints \cup {NoAlert}
    BY <1>1, <2>1, <2>2, <2>4 DEF Working
  <2>6. Working(runs', active', recent')
    BY <1>2, <2>2, <2>3, <2>5
  <2>7. Windows(cooldowns', gap', evicted')
    <3>1. CASE Push(f)
      BY <1>1, <2>1, <3>1, PushWindows
    <3>2. CASE UNCHANGED <<cooldowns, gap, evicted>>
      BY <1>1, <3>2
    <3>. QED BY <2>2, <3>1, <3>2
  <2>. QED BY <2>6, <2>7, AlertParts
<1>6. ASSUME Tick PROVE AlertsInv'
  <2>1. UNCHANGED <<runs, active, recent>>
    BY <1>6 DEF Tick
  <2>2. Windows(cooldowns', gap', evicted')
    BY <1>1, <1>6, TickWindows
  <2>. QED BY <1>1, <2>1, <2>2, AlertParts
<1>. QED BY <1>3, <1>4, <1>5, <1>6 DEF AlertStep

LEMMA AlertsInvariant == Spec => []AlertsInv
<1>1. Init => AlertsInv
  <2>. SUFFICES ASSUME AlertsInit PROVE AlertsInv
    BY DEF Init
  <2>1. /\ runs = [x \in Checks \cup Handlers |-> NoRun] /\ cooldowns = <<>> /\ active = {} /\ recent = NoAlert
        /\ gap = [f \in Prints |-> Cooldown] /\ evicted = {}
    BY DEF AlertsInit
  <2>2. Windows(cooldowns, gap, evicted)
    <3>1. cooldowns \in Seq(CooldownEntry) /\ Len(cooldowns) = 0 /\ DOMAIN cooldowns = {}
      BY <2>1
    <3>2. gap \in [Prints -> 0 .. Cooldown] /\ \A f \in Prints : ~(gap[f] < Cooldown)
      BY <2>1, KeyFacts
    <3>. QED BY <2>1, <3>1, <3>2, KeyFacts DEF Windows, Single
  <2>3. Working(runs, active, recent)
    BY <2>1, KeyFacts DEF Working
  <2>. QED BY <2>2, <2>3, AlertParts
<1>2. AlertsInv /\ [Next]_vars => AlertsInv'
  <2>. SUFFICES ASSUME AlertsInv, [Next]_vars PROVE AlertsInv'
    OBVIOUS
  <2>1. CASE UNCHANGED alertVars
    BY <2>1, AlertParts DEF alertVars
  <2>. QED BY <2>1, AlertsNext, AlertSteps
<1>. QED BY <1>1, <1>2, PTL DEF Spec

(* Under any order of events, checks, evictions and ticks the cooldown map  *)
(* stays under its cap, has one entry for a fingerprint, and knows of each   *)
(* that was not evicted no less than the time since it fired.                *)
THEOREM CooldownsTrueCorrect == Spec => []CooldownsTrue
<1>1. AlertsInv => CooldownsTrue
  BY DEF AlertsInv
<1>. QED BY <1>1, AlertsInvariant, PTL

(* No check and no handler fires a fingerprint again within its cooldown,    *)
(* however many of them are between their awaits: only one whose window was  *)
(* evicted from a map over its cap.                                        *)
THEOREM SpacedCorrect == Spec => Spaced
<1>. DEFINE Fires(x) == runs[x].pc = "each" /\ runs'[x].pc = "deliver" /\ runs'[x].sent = "firing"
            Fine(x) == LET f == KeyPrint(runs'[x].fired) IN gap[f] >= Cooldown \/ f \in evicted
            Act == \A x \in DOMAIN runs : Fires(x) => Fine(x)
<1>1. AlertsInv /\ [Next]_vars => [Act]_alertVars
  <2>. SUFFICES ASSUME AlertsInv, AlertStep, NEW x \in DOMAIN runs, Fires(x) PROVE Fine(x)
    BY AlertSteps
  <2>1. Windows(cooldowns, gap, evicted) /\ Working(runs, active, recent)
    BY AlertParts
  <2>2. runs \in [Checks \cup Handlers -> Run] /\ x \in Checks \cup Handlers
    BY <2>1 DEF Working
  <2>3. ASSUME NEW y \in Checks \cup Handlers, NEW to \in Run, runs' = [runs EXCEPT ![y] = to]
        PROVE  x = y /\ runs'[x] = to
    BY <2>2, <2>3
  <2>4. CASE \E y \in Checks \cup Handlers :
               Start(y) \/ ReadRules(y) \/ SeeQueues(y) \/ Reject(y) \/ Delivered(y) \/ End(y)
    <3>1. PICK y \in Checks \cup Handlers :
            Start(y) \/ ReadRules(y) \/ SeeQueues(y) \/ Reject(y) \/ Delivered(y) \/ End(y)
      BY <2>4
    <3>2. PICK to \in Run : runs' = [runs EXCEPT ![y] = to] /\ to.pc # "deliver"
      BY <2>1, <3>1, QuietSteps
    <3>. QED BY <2>3, <3>2
  <2>5. CASE \E y \in Checks \cup Handlers : \E k \in Keys : Evaluate(y, k)
    <3>1. PICK y \in Checks \cup Handlers, k \in Keys : Evaluate(y, k)
      BY <2>5
    <3>2. PICK to \in Run :
            /\ runs' = [runs EXCEPT ![y] = to]
            /\ \/ ~Within(cooldowns, KeyPrint(k)) /\ to.fired = k
               \/ to.sent = "resolved"
               \/ to.pc = "each"
      BY <2>1, <3>1, EvaluateFacts
    <3>3. runs'[x] = to
      BY <2>3, <3>2
    <3>4. ~Within(cooldowns, KeyPrint(k)) /\ to.fired = k
      BY <3>2, <3>3
    <3>5. KeyPrint(k) \in Prints /\ gap \in [Prints -> 0 .. Cooldown] /\ Cooldown \in Nat
      BY <2>1, KeyFacts DEF Windows
    <3>6. gap[KeyPrint(k)] < Cooldown => KeyPrint(k) \in evicted
      BY <2>1, <3>4, <3>5 DEF Windows
    <3>7. gap[KeyPrint(k)] \in 0 .. Cooldown
      BY <3>5
    <3>. HIDE DEF KeyPrint
    <3>. QED BY <3>3, <3>4, <3>5, <3>6, <3>7
  <2>6. CASE Tick
    BY <2>6 DEF Tick
  <2>. QED BY <2>4, <2>5, <2>6 DEF AlertStep
<1>2. [Act]_alertVars <=> [\A x \in DOMAIN runs :
       runs[x].pc = "each" /\ runs'[x].pc = "deliver" /\ runs'[x].sent = "firing" =>
         LET f == KeyPrint(runs'[x].fired)
         IN  gap[f] >= Cooldown \/ f \in evicted]_alertVars
  OBVIOUS
<1>. QED BY <1>1, <1>2, AlertsInvariant, PTL DEF Spec, Spaced

-----------------------------------------------------------------------------
(* The listings.                                                           *)

Rank(S, i) == Cardinality({o \in S : o <= i})

(* The sorted runs: one for each rank.                                     *)
LEMMA SortedFacts ==
  ASSUME NEW S \in SUBSET Nat, IsFiniteSet(S)
  PROVE  /\ Sorted(S) \in Seq(S) /\ Len(Sorted(S)) = Cardinality(S) /\ Cardinality(S) \in Nat
         /\ \A n \in 1 .. Cardinality(S) :
              Sorted(S)[n] \in S /\ Rank(S, Sorted(S)[n]) = n
<1>1. Sorted(S) = [n \in 1 .. Cardinality(S) |-> Nth(S, n)]
  BY DEF Sorted, Nth
<1>2. /\ Cardinality(S) \in Nat
      /\ \A n \in 1 .. Cardinality(S) :
           Nth(S, n) \in S /\ Rank(S, Nth(S, n)) = n
  BY NthFacts DEF Rank
<1>. DEFINE size == Cardinality(S)
            s == [n \in 1 .. size |-> Nth(S, n)]
<1>3. s \in [1 .. size -> S]
  BY <1>2
<1>4. s \in Seq(S) /\ Len(s) = size
  <2>. HIDE DEF s, size
  <2>1. size \in Nat
    BY <1>2 DEF size
  <2>2. s \in Seq(S)
    BY <1>3, <2>1, SeqDef
  <2>3. Len(s) \in Nat /\ DOMAIN s = 1 .. Len(s)
    BY <2>2, LenProperties
  <2>4. DOMAIN s = 1 .. size
    BY <1>3
  <2>5. \A n \in Nat : Cardinality(1 .. n) = n
    BY FS_Interval
  <2>6. Len(s) = size
    <3>1. Cardinality(1 .. Len(s)) = Cardinality(1 .. size)
      BY <2>3, <2>4
    <3>. QED BY <2>1, <2>3, <2>5, <3>1
  <2>. QED BY <2>2, <2>6
<1>5. \A n \in 1 .. size : s[n] = Nth(S, n)
  OBVIOUS
<1>. HIDE DEF s
<1>6. Sorted(S) = s
  BY <1>1 DEF s
<1>. QED BY <1>2, <1>4, <1>5, <1>6

(* What has a rank is told by it.                                          *)
LEMMA RankFacts ==
  ASSUME NEW S \in SUBSET Nat, IsFiniteSet(S), NEW i \in S, NEW k \in S,
         Rank(S, i) = Rank(S, k)
  PROVE  i = k
<1>1. ASSUME NEW a \in S, NEW b \in S, a < b,
             Rank(S, a) = Rank(S, b)
      PROVE  FALSE
  <2>. DEFINE T == {o \in S : o <= a}
              U == {o \in S : o <= b}
  <2>1. T \in SUBSET U /\ U \in SUBSET S /\ b \in U /\ b \notin T
    <3>1. a \in Nat /\ b \in Nat /\ \A o \in S : o \in Nat
      OBVIOUS
    <3>2. \A o \in S : o <= a => o <= b
      BY <1>1, <3>1
    <3>3. ~(b <= a) /\ b <= b
      BY <1>1, <3>1
    <3>. QED BY <3>2, <3>3
  <2>2. Cardinality(T) = Cardinality(U)
    BY <1>1 DEF Rank
  <2>. HIDE DEF T, U
  <2>3. IsFiniteSet(U)
    BY <2>1, FS_Subset
  <2>. QED BY <2>1, <2>2, <2>3, FS_Subset
<1>2. i \in Nat /\ k \in Nat
  OBVIOUS
<1>. QED BY <1>1, <1>2

(* Runs that begin with the first m, in their order, sorted.                *)
LEMMA SortedFirst ==
  ASSUME NEW S \in SUBSET (Nat \ {0}), IsFiniteSet(S), NEW m \in Nat, 1 .. m \subseteq S
  PROVE  m <= Cardinality(S) /\ \A n \in 1 .. m : Sorted(S)[n] = n
<1>1. /\ \A n \in Nat : IsFiniteSet(1 .. n) /\ Cardinality(1 .. n) = n
      /\ S \in SUBSET Nat /\ Cardinality(S) \in Nat
  <2>1. \A n \in Nat : IsFiniteSet(1 .. n) /\ Cardinality(1 .. n) = n
    BY FS_Interval
  <2>2. Cardinality(S) \in Nat
    BY FS_CardinalityType
  <2>. QED BY <2>1, <2>2
<1>2. m <= Cardinality(S)
  <2>1. Cardinality(1 .. m) <= Cardinality(S)
    BY FS_Subset
  <2>. QED BY <1>1, <2>1
<1>3. ASSUME NEW n \in 1 .. m PROVE Sorted(S)[n] = n
  <2>1. Sorted(S)[n] \in S /\ Rank(S, Sorted(S)[n]) = n
    BY <1>1, <1>2, SortedFacts
  <2>2. {o \in S : o <= n} = 1 .. n
    <3>. DEFINE T == {o \in S : o <= n}
    <3>1. \A o \in T : o \in 1 .. n
      BY <1>1
    <3>2. \A o \in 1 .. n : o \in S /\ o <= n
      OBVIOUS
    <3>3. \A o \in 1 .. n : o \in T
      BY <3>2
    <3>. HIDE DEF T
    <3>4. T = 1 .. n
      BY <3>1, <3>3
    <3>. QED BY <3>4 DEF T
  <2>3. Rank(S, n) = n
    BY <1>1, <2>2 DEF Rank
  <2>4. n \in S
    OBVIOUS
  <2>. DEFINE r == Sorted(S)[n]
  <2>5. r \in S /\ Rank(S, r) = Rank(S, n)
    BY <2>1, <2>3
  <2>. HIDE DEF r
  <2>6. r = n
    BY <1>1, <2>4, <2>5, RankFacts
  <2>. QED BY <2>6 DEF r
<1>. QED BY <1>2, <1>3

(* A sequence in order is its elements, sorted.                             *)
LEMMA SortedIs ==
  ASSUME NEW s \in Seq(Nat), Ordered(s)
  PROVE  /\ IsFiniteSet(ToSet(s)) /\ Cardinality(ToSet(s)) = Len(s)
         /\ Sorted(ToSet(s)) = s
<1>. DEFINE S == ToSet(s)
<1>1. Len(s) \in Nat /\ s \in [1 .. Len(s) -> Nat] /\ DOMAIN s = 1 .. Len(s)
  BY LenProperties
<1>2. \A i, j \in 1 .. Len(s) : i < j => s[i] < s[j]
  BY <1>1 DEF Ordered
<1>3. \A i, j \in 1 .. Len(s) : s[i] = s[j] => i = j
  BY <1>1, <1>2
<1>4. S = {s[i] : i \in 1 .. Len(s)}
  BY <1>1 DEF ToSet
<1>5. ASSUME NEW n \in 0 .. Len(s)
      PROVE  /\ IsFiniteSet({s[i] : i \in 1 .. n}) /\ Cardinality({s[i] : i \in 1 .. n}) = n
  <2>. DEFINE f == [i \in 1 .. n |-> s[i]]
              T == {s[i] : i \in 1 .. n}
  <2>1. f \in Bijection(1 .. n, T)
    <3>1. f \in [1 .. n -> T] /\ \A i, j \in 1 .. n : f[i] = f[j] => i = j
      BY <1>1, <1>3
    <3>2. \A t \in T : \E i \in 1 .. n : f[i] = t
      OBVIOUS
    <3>. HIDE DEF f, T
    <3>. QED BY <3>1, <3>2 DEF Bijection, Injection, Surjection, IsInjective
  <2>. HIDE DEF f, T
  <2>2. ExistsBijection(1 .. n, T)
    BY <2>1 DEF ExistsBijection
  <2>3. IsFiniteSet(1 .. n) /\ Cardinality(1 .. n) = n
    BY <1>1, FS_Interval
  <2>4. IsFiniteSet(T) /\ Cardinality(T) = n
    BY <2>2, <2>3, FS_Bijection
  <2>. QED BY <2>4 DEF T
<1>6. S \in SUBSET Nat /\ IsFiniteSet(S) /\ Cardinality(S) = Len(s)
  <2>1. Len(s) \in 0 .. Len(s)
    BY <1>1
  <2>2. IsFiniteSet({s[i] : i \in 1 .. Len(s)}) /\ Cardinality({s[i] : i \in 1 .. Len(s)}) = Len(s)
    BY <1>5, <2>1
  <2>3. S \in SUBSET Nat
    BY <1>1, <1>4
  <2>. HIDE DEF S
  <2>. QED BY <1>4, <2>2, <2>3
<1>. HIDE DEF S
<1>7. ASSUME NEW n \in 1 .. Len(s) PROVE Sorted(S)[n] = s[n]
  <2>1. Sorted(S)[n] \in S /\ Rank(S, Sorted(S)[n]) = n
    BY <1>6, SortedFacts
  <2>2. {o \in S : o <= s[n]} = {s[i] : i \in 1 .. n}
    <3>1. \A i \in 1 .. Len(s) : s[i] <= s[n] <=> i <= n
      BY <1>1, <1>2
    <3>. QED BY <1>1, <1>4, <3>1
  <2>3. n \in 0 .. Len(s)
    BY <1>1
  <2>4. Rank(S, s[n]) = n
    BY <1>5, <2>2, <2>3 DEF Rank
  <2>5. s[n] \in S
    BY <1>4
  <2>. DEFINE r == Sorted(S)[n]
              o == s[n]
  <2>6. r \in S /\ o \in S /\ Rank(S, r) = Rank(S, o)
    BY <2>1, <2>4, <2>5
  <2>. HIDE DEF r, o
  <2>7. r = o
    BY <1>6, <2>6, RankFacts
  <2>. QED BY <2>7 DEF r, o
<1>8. Sorted(S) = s
  <2>1. Sorted(S) \in Seq(S) /\ Len(Sorted(S)) = Len(s)
    BY <1>6, SortedFacts
  <2>2. DOMAIN Sorted(S) = 1 .. Len(s) /\ Sorted(S) \in [1 .. Len(s) -> S]
    BY <2>1, LenProperties
  <2>. QED BY <1>1, <1>7, <2>2
<1>. QED BY <1>6, <1>8 DEF S

LEMMA MinMaxFacts ==
  ASSUME NEW a \in Int, NEW b \in Int
  PROVE  /\ Min({a, b}) \in {a, b} /\ Min({a, b}) <= a /\ Min({a, b}) <= b
         /\ Max({a, b}) \in {a, b} /\ Max({a, b}) >= a /\ Max({a, b}) >= b
<1>1. \E x \in {a, b} : \A y \in {a, b} : x =< y
  OBVIOUS
<1>2. \E x \in {a, b} : \A y \in {a, b} : x >= y
  OBVIOUS
<1>3. Min({a, b}) \in {a, b} /\ \A y \in {a, b} : Min({a, b}) =< y
  BY <1>1 DEF Min
<1>4. Max({a, b}) \in {a, b} /\ \A y \in {a, b} : Max({a, b}) >= y
  BY <1>2 DEF Max
<1>. QED BY <1>3, <1>4

(* The lists hold every run, each list once.                               *)
ListsRight ==
  /\ lists \in [1 .. Lists -> Seq(1 .. Runs)]
  /\ \A l \in 1 .. Lists : \A i, j \in 1 .. Len(lists[l]) : lists[l][i] = lists[l][j] => i = j
  /\ \A r \in 1 .. Runs : \E l \in 1 .. Lists : \E i \in 1 .. Len(lists[l]) : lists[l][i] = r

LEMMA ArrangementsRight ==
  ASSUME lists \in Arrangements
  PROVE  ListsRight
<1>1. Runs \in Nat /\ Lists \in Nat \ {0} /\ IsFiniteSet(1 .. Runs) /\ Cardinality(1 .. Runs) = Runs
  BY ListingAssumption, FS_Interval
<1>2. PICK p \in SetToSeqs(1 .. Runs), c \in Cuts :
        lists = [l \in 1 .. Lists |-> SubSeq(p, c[l - 1] + 1, c[l])]
  BY DEF Arrangements
<1>3. p \in [1 .. Runs -> 1 .. Runs] /\ \A i, j \in 1 .. Runs : i # j => p[i] # p[j]
  BY <1>1 DEF SetToSeqs
<1>4. \A r \in 1 .. Runs : \E i \in 1 .. Runs : p[i] = r
  <2>1. p \in Injection(1 .. Runs, 1 .. Runs)
    BY <1>3 DEF Injection, IsInjective
  <2>2. p \in Surjection(1 .. Runs, 1 .. Runs)
    BY <1>1, <2>1, FS_Injection
  <2>. QED BY <2>2 DEF Surjection
<1>5. /\ c \in [0 .. Lists -> 0 .. Runs] /\ c[0] = 0 /\ c[Lists] = Runs
      /\ \A l \in 1 .. Lists : c[l - 1] <= c[l]
  BY DEF Cuts
<1>6. ASSUME NEW l \in 1 .. Lists
      PROVE  /\ c[l - 1] \in 0 .. Runs /\ c[l] \in 0 .. Runs /\ c[l - 1] <= c[l]
             /\ lists[l] \in Seq(1 .. Runs) /\ Len(lists[l]) = c[l] - c[l - 1]
             /\ \A i \in 1 .. Len(lists[l]) :
                  lists[l][i] = p[c[l - 1] + i] /\ c[l - 1] + i \in 1 .. Runs
  <2>1. l - 1 \in 0 .. Lists /\ l \in 0 .. Lists
    BY <1>1
  <2>2. c[l - 1] \in 0 .. Runs /\ c[l] \in 0 .. Runs /\ c[l - 1] <= c[l]
    BY <1>5, <2>1
  <2>. DEFINE m == c[l - 1] + 1
              n == c[l]
  <2>3. lists[l] = SubSeq(p, m, n)
    BY <1>2
  <2>4. m \in Int /\ n \in Int /\ \A i \in m .. n : p[i] \in 1 .. Runs
    <3>1. m \in Int /\ n \in Int /\ m >= 1 /\ n <= Runs
      BY <1>1, <2>2
    <3>. HIDE DEF m, n
    <3>2. \A i \in m .. n : i \in 1 .. Runs
      BY <1>1, <3>1
    <3>. QED BY ONLY <1>3, <3>1, <3>2
  <2>5. m >= 1 /\ n <= Runs /\ m <= n + 1
    BY <2>2
  <2>. HIDE DEF m, n
  <2>6. /\ SubSeq(p, m, n) \in Seq(1 .. Runs)
        /\ Len(SubSeq(p, m, n)) = IF m <= n THEN n - m + 1 ELSE 0
        /\ \A i \in 1 .. n - m + 1 : SubSeq(p, m, n)[i] = p[m + i - 1]
    BY <2>4, SubSeqProperties
  <2>7. Len(SubSeq(p, m, n)) = n - m + 1
    BY <2>4, <2>5, <2>6
  <2>8. \A i \in 1 .. n - m + 1 : m + i - 1 = c[l - 1] + i /\ m + i - 1 \in 1 .. Runs
    <3>1. m - 1 = c[l - 1] /\ c[l - 1] \in Int
      BY <2>2 DEF m
    <3>. QED BY <1>1, <2>4, <2>5, <3>1
  <2>9. n - m + 1 = c[l] - c[l - 1]
    BY <2>2 DEF m, n
  <2>10. lists[l] \in Seq(1 .. Runs) /\ Len(lists[l]) = n - m + 1
    BY <2>3, <2>6, <2>7
  <2>11. \A i \in 1 .. Len(lists[l]) : lists[l][i] = p[c[l - 1] + i] /\ c[l - 1] + i \in 1 .. Runs
    BY <2>3, <2>6, <2>7, <2>8
  <2>. QED BY <2>2, <2>9, <2>10, <2>11
<1>7. lists \in [1 .. Lists -> Seq(1 .. Runs)]
  BY <1>2, <1>6
<1>8. ASSUME NEW l \in 1 .. Lists, NEW i \in 1 .. Len(lists[l]), NEW j \in 1 .. Len(lists[l]),
             lists[l][i] = lists[l][j]
      PROVE  i = j
  <2>1. c[l - 1] + i = c[l - 1] + j
    BY <1>3, <1>6, <1>8
  <2>2. c[l - 1] \in Int /\ Len(lists[l]) \in Int
    BY <1>6
  <2>. QED BY <2>1, <2>2
<1>9. ASSUME NEW r \in 1 .. Runs
      PROVE  \E l \in 1 .. Lists : \E i \in 1 .. Len(lists[l]) : lists[l][i] = r
  <2>1. PICK k \in 1 .. Runs : p[k] = r
    BY <1>4
  <2>. DEFINE Reaching == {l \in 0 .. Lists : c[l] >= k}
  <2>2. Lists \in Reaching /\ Reaching \subseteq Nat
    BY <1>1, <1>5
  <2>3. PICK l \in Reaching : \A o \in Reaching : ~ (<<o, l>> \in OpToRel(<, Nat))
    <3>. HIDE DEF Reaching
    <3>. QED BY <2>2, NatLessThanWellFounded, WFMin
  <2>4. l \in 0 .. Lists /\ c[l] >= k /\ l # 0
    BY <1>5
  <2>5. l \in 1 .. Lists /\ l - 1 \in 0 .. Lists
    BY <1>1, <2>4
  <2>6. l - 1 \notin Reaching
    <3>1. <<l - 1, l>> \in OpToRel(<, Nat)
      BY <2>5 DEF OpToRel
    <3>. HIDE DEF Reaching
    <3>. QED BY <2>3, <3>1
  <2>7. c[l - 1] < k
    <3>1. c[l - 1] \in Int
      BY <1>5, <2>5
    <3>. QED BY <2>5, <2>6, <3>1
  <2>8. k - c[l - 1] \in 1 .. Len(lists[l])
    BY <1>6, <2>4, <2>5, <2>7
  <2>9. lists[l][k - c[l - 1]] = p[c[l - 1] + (k - c[l - 1])]
    BY <1>6, <2>5, <2>8
  <2>10. c[l - 1] + (k - c[l - 1]) = k
    BY <1>6, <2>5
  <2>. QED BY <2>1, <2>5, <2>8, <2>9, <2>10
<1>. QED BY <1>7, <1>8, <1>9 DEF ListsRight

(* What is fetched of the lists: as many runs as the prefixes are long, or   *)
(* all of them; and the first ones, if the lists are in order.              *)
LEMMA FetchedFacts ==
  ASSUME ListsRight, NEW n \in Nat
  PROVE  /\ Fetched(n) \subseteq 1 .. Runs
         /\ Fetched(n) = 1 .. Runs \/ Cardinality(Fetched(n)) >= n
         /\ (\A l \in 1 .. Lists : Len(lists[l]) <= n) => Fetched(n) = 1 .. Runs
         /\ AllOrdered => \A r \in 1 .. Runs : r <= n => r \in Fetched(n)
<1>1. Runs \in Nat /\ Lists \in Nat /\ DOMAIN lists = 1 .. Lists /\ IsFiniteSet(1 .. Runs)
  BY ListingAssumption, FS_Interval DEF ListsRight
<1>2. ASSUME NEW l \in 1 .. Lists
      PROVE  /\ Len(lists[l]) \in Nat /\ DOMAIN lists[l] = 1 .. Len(lists[l])
             /\ \A i \in 1 .. Len(lists[l]) : lists[l][i] \in 1 .. Runs
  <2>1. lists[l] \in Seq(1 .. Runs)
    BY DEF ListsRight
  <2>. QED BY <2>1, LenProperties, ElementOfSeq
<1>3. ASSUME NEW l \in 1 .. Lists, NEW r
      PROVE  r \in ToSet(Prefix(lists[l], n))
               <=> \E i \in 1 .. Len(lists[l]) : i <= n /\ lists[l][i] = r
  <2>. DEFINE len == Min({n, Len(lists[l])})
              prefix == SubSeq(lists[l], 1, len)
  <2>1. len \in {n, Len(lists[l])} /\ len <= n /\ len <= Len(lists[l]) /\ len \in Nat
    <3>. DEFINE all == Len(lists[l])
    <3>1. all \in Nat
      BY <1>2
    <3>. HIDE DEF all
    <3>2. Min({n, all}) \in {n, all} /\ Min({n, all}) <= n /\ Min({n, all}) <= all
      BY <3>1, MinMaxFacts
    <3>. QED BY <3>1, <3>2 DEF all
  <2>. HIDE DEF len
  <2>2. \A i \in 1 .. len : lists[l][i] \in 1 .. Runs
    BY <1>2, <2>1
  <2>3. /\ prefix \in Seq(1 .. Runs) /\ Len(prefix) = IF 1 <= len THEN len - 1 + 1 ELSE 0
        /\ \A i \in 1 .. len - 1 + 1 : prefix[i] = lists[l][1 + i - 1]
    BY <2>1, <2>2, SubSeqProperties
  <2>. HIDE DEF prefix
  <2>4. Len(prefix) = len /\ \A i \in 1 .. len : prefix[i] = lists[l][i]
    BY <2>1, <2>3
  <2>5. DOMAIN prefix = 1 .. len
    BY <2>3, <2>4, LenProperties
  <2>6. r \in ToSet(prefix) <=> \E i \in 1 .. len : lists[l][i] = r
    BY <2>4, <2>5 DEF ToSet
  <2>7. \A i \in Int : i \in 1 .. len <=> i \in 1 .. Len(lists[l]) /\ i <= n
    BY <1>2, <2>1
  <2>8. Prefix(lists[l], n) = prefix
    BY DEF Prefix, prefix, len
  <2>. QED BY <1>2, <2>1, <2>6, <2>7, <2>8
<1>4. ASSUME NEW r
      PROVE  r \in Fetched(n)
               <=> \E l \in 1 .. Lists : \E i \in 1 .. Len(lists[l]) : i <= n /\ lists[l][i] = r
  BY <1>1, <1>3 DEF Fetched
<1>5. Fetched(n) \subseteq 1 .. Runs
  BY <1>2, <1>4
<1>6. ASSUME \A l \in 1 .. Lists : Len(lists[l]) <= n
      PROVE  Fetched(n) = 1 .. Runs
  <2>1. ASSUME NEW r \in 1 .. Runs PROVE r \in Fetched(n)
    <3>1. PICK l \in 1 .. Lists : \E i \in 1 .. Len(lists[l]) : lists[l][i] = r
      BY DEF ListsRight
    <3>2. \A i \in 1 .. Len(lists[l]) : i <= n
      BY <1>2, <1>6
    <3>. QED BY <1>4, <3>1, <3>2
  <2>. QED BY <1>5, <2>1
<1>7. ASSUME NEW l \in 1 .. Lists, ~(Len(lists[l]) <= n)
      PROVE  Cardinality(Fetched(n)) >= n
  <2>. DEFINE f == [i \in 1 .. n |-> lists[l][i]]
  <2>1. \A i \in 1 .. n : i \in 1 .. Len(lists[l]) /\ i <= n
    BY <1>2, <1>7
  <2>2. f \in [1 .. n -> Fetched(n)]
    BY <1>4, <2>1
  <2>3. \A i, j \in 1 .. n : f[i] = f[j] => i = j
    BY <2>1 DEF ListsRight
  <2>. HIDE DEF f
  <2>4. f \in Injection(1 .. n, Fetched(n))
    BY <2>2, <2>3 DEF Injection, IsInjective
  <2>5. IsFiniteSet(Fetched(n))
    BY <1>1, <1>5, FS_Subset
  <2>6. Cardinality(1 .. n) <= Cardinality(Fetched(n)) /\ Cardinality(Fetched(n)) \in Nat
    BY <2>4, <2>5, FS_Injection, FS_CardinalityType
  <2>7. Cardinality(1 .. n) = n
    BY FS_Interval
  <2>. QED BY <2>6, <2>7
<1>8. ASSUME AllOrdered, NEW r \in 1 .. Runs, r <= n
      PROVE  r \in Fetched(n)
  <2>0. PICK l \in 1 .. Lists : \E k \in 1 .. Len(lists[l]) : lists[l][k] = r
    BY DEF ListsRight
  <2>1. PICK k \in 1 .. Len(lists[l]) : lists[l][k] = r
    BY <2>0
  <2>. DEFINE f == [i \in 1 .. k |-> lists[l][i]]
  <2>2. k \in Nat /\ r \in Nat /\ \A i \in 1 .. k : i \in 1 .. Len(lists[l])
    BY <1>1, <1>2
  <2>3. ASSUME NEW i \in 1 .. k PROVE lists[l][i] \in 1 .. r
    <3>1. i < k => lists[l][i] < lists[l][k]
      BY <1>1, <1>2, <1>8, <2>2 DEF AllOrdered, Ordered
    <3>2. lists[l][i] \in 1 .. Runs
      BY <1>2, <2>2
    <3>. QED BY <1>1, <2>1, <2>2, <3>1, <3>2
  <2>4. f \in [1 .. k -> 1 .. r] /\ \A i, j \in 1 .. k : f[i] = f[j] => i = j
    BY <2>2, <2>3 DEF ListsRight
  <2>. HIDE DEF f
  <2>5. f \in Injection(1 .. k, 1 .. r)
    BY <2>4 DEF Injection, IsInjective
  <2>6. \A m \in Nat : IsFiniteSet(1 .. m) /\ Cardinality(1 .. m) = m
    BY FS_Interval
  <2>7. Cardinality(1 .. k) <= Cardinality(1 .. r)
    BY <2>2, <2>5, <2>6, FS_Injection
  <2>8. k <= n
    BY <1>8, <2>2, <2>6, <2>7
  <2>. QED BY <1>4, <2>1, <2>8
<1>. QED BY <1>5, <1>6, <1>7, <1>8

(* The invariant of the listings.                                          *)
OfWhole == mode = "other" \/ (mode \in {"latest", "queue", "state"} /\ AllOrdered)

Once(s, n) == \A i, k \in 1 .. n : s[i] = s[k] => i = k
Among(s, n, list, m, last) == \A i \in 1 .. n : \E k \in m .. last : s[i] = list[k]

PagesInv ==
  /\ ListsRight
  /\ mode \in {"latest", "time", "other", "queue", "state"}
  /\ matching \subseteq 1 .. Runs
  /\ mode \in {"latest", "queue"} => matching = 1 .. Runs
  /\ mode = "state" => matching = ToSet(lists[1])
  /\ cursor \in Nat /\ rows \in Seq(1 .. Runs)
  /\ cursor <= Runs => Len(rows) = cursor /\ cursor <= Cardinality(matching)
  /\ cursor > Runs => Len(rows) = Cardinality(matching)
  /\ OfWhole => rows = SubSeq(Sorted(matching), 1, Len(rows))
  /\ mode = "state" => Once(rows, Len(rows)) /\ Among(rows, Len(rows), lists[1], 1, Len(rows))

(* A sequence without repetition has as many elements as it is long.        *)
LEMMA OnceSet ==
  ASSUME NEW s \in Seq(1 .. Runs), Once(s, Len(s))
  PROVE  /\ Len(s) \in Nat /\ DOMAIN s = 1 .. Len(s)
         /\ ToSet(s) \subseteq 1 .. Runs /\ Cardinality(ToSet(s)) = Len(s)
         /\ \A i \in 1 .. Len(s) : s[i] \in 1 .. Runs
<1>. DEFINE f == [i \in 1 .. Len(s) |-> s[i]]
<1>1. Len(s) \in Nat /\ DOMAIN s = 1 .. Len(s) /\ \A i \in 1 .. Len(s) : s[i] \in 1 .. Runs
  BY LenProperties, ElementOfSeq
<1>2. IsFiniteSet(1 .. Len(s)) /\ Cardinality(1 .. Len(s)) = Len(s)
  BY <1>1, FS_Interval
<1>3. f \in Bijection(1 .. Len(s), ToSet(s))
  <2>1. f \in [1 .. Len(s) -> ToSet(s)] /\ \A i, k \in 1 .. Len(s) : f[i] = f[k] => i = k
    BY <1>1 DEF ToSet, Once
  <2>2. \A t \in ToSet(s) : \E i \in 1 .. Len(s) : f[i] = t
    BY <1>1 DEF ToSet
  <2>. HIDE DEF f
  <2>. QED BY <2>1, <2>2 DEF Bijection, Injection, Surjection, IsInjective
<1>4. Cardinality(ToSet(s)) = Len(s)
  <2>. HIDE DEF f
  <2>1. ExistsBijection(1 .. Len(s), ToSet(s))
    BY <1>3 DEF ExistsBijection
  <2>2. Cardinality(ToSet(s)) = Cardinality(1 .. Len(s))
    BY <1>2, <2>1, FS_Bijection
  <2>. QED BY <1>2, <2>2
<1>5. ToSet(s) \subseteq 1 .. Runs
  BY <1>1 DEF ToSet
<1>. QED BY <1>1, <1>4, <1>5

(* The one list of a state.                                                *)
LEMMA StateFacts ==
  ASSUME ListsRight
  PROVE  lists[1] \in Seq(1 .. Runs) /\ Once(lists[1], Len(lists[1]))
<1>1. 1 \in 1 .. Lists
  BY ListingAssumption
<1>. QED BY <1>1 DEF ListsRight, Once

LEMMA MatchingFacts ==
  ASSUME NEW S \in SUBSET (1 .. Runs)
  PROVE  /\ Runs \in Nat /\ Limit \in Nat \ {0} /\ IsFiniteSet(S) /\ S \in SUBSET Nat
         /\ S \in SUBSET (Nat \ {0})
         /\ Cardinality(S) \in Nat /\ Cardinality(S) <= Runs
         /\ Sorted(S) \in Seq(1 .. Runs) /\ Len(Sorted(S)) = Cardinality(S)
         /\ \A n \in 1 .. Cardinality(S) : Sorted(S)[n] \in S
<1>1. /\ Runs \in Nat /\ Limit \in Nat \ {0} /\ IsFiniteSet(1 .. Runs) /\ Cardinality(1 .. Runs) = Runs
  BY ListingAssumption, FS_Interval
<1>2. S \in SUBSET Nat /\ S \in SUBSET (Nat \ {0})
  BY <1>1
<1>3. IsFiniteSet(S) /\ Cardinality(S) <= Runs /\ Cardinality(S) \in Nat
  <2>1. IsFiniteSet(S) /\ Cardinality(S) <= Cardinality(1 .. Runs)
    BY <1>1, FS_Subset
  <2>. QED BY <1>1, <2>1, FS_CardinalityType
<1>4. /\ Sorted(S) \in Seq(S) /\ Len(Sorted(S)) = Cardinality(S)
      /\ \A n \in 1 .. Cardinality(S) : Sorted(S)[n] \in S
  BY <1>2, <1>3, SortedFacts
<1>5. Sorted(S) \in Seq(1 .. Runs)
  BY <1>4, SeqMonotonic
<1>. QED BY <1>1, <1>2, <1>3, <1>4, <1>5

(* A part of the sorted runs: a page of them.                              *)
LEMMA SliceFacts ==
  ASSUME NEW s \in Seq(1 .. Runs), NEW c \in Nat, NEW last \in Nat, c <= last, last <= Len(s)
  PROVE  /\ SubSeq(s, c + 1, last) \in Seq(1 .. Runs) /\ Len(SubSeq(s, c + 1, last)) = last - c
         /\ \A i \in 1 .. last - c : SubSeq(s, c + 1, last)[i] = s[c + i] /\ c + i \in 1 .. Len(s)
<1>1. Len(s) \in Nat /\ \A i \in 1 .. Len(s) : s[i] \in 1 .. Runs
  BY LenProperties, ElementOfSeq
<1>. DEFINE m == c + 1
<1>2. m \in Int /\ last \in Int /\ \A i \in m .. last : s[i] \in 1 .. Runs
  BY <1>1
<1>3. last - m + 1 = last - c /\ \A i \in Int : m + i - 1 = c + i
  OBVIOUS
<1>. HIDE DEF m
<1>4. /\ SubSeq(s, m, last) \in Seq(1 .. Runs)
      /\ Len(SubSeq(s, m, last)) = IF m <= last THEN last - m + 1 ELSE 0
      /\ \A i \in 1 .. last - m + 1 : SubSeq(s, m, last)[i] = s[m + i - 1]
  BY <1>2, SubSeqProperties
<1>5. Len(SubSeq(s, m, last)) = last - c
  BY <1>2, <1>3, <1>4 DEF m
<1>6. \A i \in 1 .. last - c : SubSeq(s, m, last)[i] = s[c + i]
  BY <1>3, <1>4
<1>7. \A i \in 1 .. last - c : c + i \in 1 .. Len(s)
  BY <1>1
<1>. QED BY <1>4, <1>5, <1>6, <1>7 DEF m

(* Rows that are the first of a list, and a page of what comes after them.   *)
LEMMA DistinctAdded ==
  ASSUME NEW c \in Nat, NEW last \in Nat, c <= last, NEW list, NEW old, NEW page, NEW new,
         Once(list, last), Once(old, c), Among(old, c, list, 1, c),
         Once(page, last - c), Among(page, last - c, list, c + 1, last),
         \A i \in 1 .. last : new[i] = IF i <= c THEN old[i] ELSE page[i - c]
  PROVE  Once(new, last) /\ Among(new, last, list, 1, last)
<1>1. ASSUME NEW i \in 1 .. last, i <= c
      PROVE  i \in 1 .. c /\ new[i] = old[i] /\ \E k \in 1 .. last : k <= c /\ new[i] = list[k]
  <2>1. i \in 1 .. c /\ new[i] = old[i]
    BY <1>1
  <2>2. PICK k \in 1 .. c : old[i] = list[k]
    BY <2>1 DEF Among
  <2>3. k \in 1 .. last /\ k <= c
    OBVIOUS
  <2>. QED BY <2>1, <2>2, <2>3
<1>2. ASSUME NEW i \in 1 .. last, ~(i <= c)
      PROVE  /\ i - c \in 1 .. last - c /\ new[i] = page[i - c]
             /\ \E k \in 1 .. last : ~(k <= c) /\ new[i] = list[k]
  <2>1. i - c \in 1 .. last - c /\ new[i] = page[i - c]
    BY <1>2
  <2>2. PICK k \in c + 1 .. last : page[i - c] = list[k]
    BY <2>1 DEF Among
  <2>3. k \in 1 .. last /\ ~(k <= c)
    OBVIOUS
  <2>. QED BY <2>1, <2>2, <2>3
<1>3. ASSUME NEW i \in 1 .. last, NEW k \in 1 .. last, new[i] = new[k], i <= c
      PROVE  i = k
  <2>1. k <= c
    BY <1>1, <1>2, <1>3 DEF Once
  <2>2. i \in 1 .. c /\ k \in 1 .. c /\ old[i] = old[k]
    BY <1>1, <1>3, <2>1
  <2>. QED BY <2>2 DEF Once
<1>4. ASSUME NEW i \in 1 .. last, NEW k \in 1 .. last, new[i] = new[k], ~(i <= c)
      PROVE  i = k
  <2>1. ~(k <= c)
    BY <1>1, <1>2, <1>4 DEF Once
  <2>2. /\ i - c \in 1 .. last - c /\ new[i] = page[i - c]
        /\ k - c \in 1 .. last - c /\ new[k] = page[k - c]
    BY <1>2, <1>4, <2>1
  <2>3. i - c = k - c
    BY <1>4, <2>2 DEF Once
  <2>. QED BY <2>3
<1>5. Once(new, last)
  BY <1>3, <1>4 DEF Once
<1>6. Among(new, last, list, 1, last)
  BY <1>1, <1>2 DEF Among
<1>. QED BY <1>5, <1>6

(* A page that goes on where the rows end.                                 *)
LEMMA PageAdded ==
  ASSUME PagesInv, cursor <= Runs, NEW page \in Seq(1 .. Runs), NEW last \in Nat,
         cursor <= last, last <= Cardinality(matching), Len(page) = last - cursor,
         rows' = rows \o page, UNCHANGED <<lists, matching, mode>>,
         (cursor' = last /\ last <= Runs) \/ (cursor' = Runs + 1 /\ last = Cardinality(matching)),
         OfWhole => page = SubSeq(Sorted(matching), cursor + 1, last),
         mode = "state" =>
           Once(page, Len(page)) /\ Among(page, Len(page), lists[1], cursor + 1, last)
  PROVE  PagesInv'
<1>1. /\ Runs \in Nat /\ Cardinality(matching) \in Nat /\ Cardinality(matching) <= Runs
      /\ Sorted(matching) \in Seq(1 .. Runs) /\ Len(Sorted(matching)) = Cardinality(matching)
  BY MatchingFacts DEF PagesInv
<1>2. rows \in Seq(1 .. Runs) /\ Len(rows) = cursor /\ cursor \in Nat
  BY DEF PagesInv
<1>3. /\ rows' \in Seq(1 .. Runs) /\ Len(rows') = last
      /\ \A i \in 1 .. last : rows'[i] = IF i <= cursor THEN rows[i] ELSE page[i - cursor]
  <2>. DEFINE r == rows \o page
  <2>1. /\ r \in Seq(1 .. Runs) /\ Len(r) = Len(rows) + Len(page)
        /\ \A i \in 1 .. Len(rows) + Len(page) : r[i] = IF i <= Len(rows) THEN rows[i] ELSE page[i - Len(rows)]
    BY <1>2, ConcatProperties
  <2>2. rows' = r
    OBVIOUS
  <2>. HIDE DEF r
  <2>. QED BY <1>2, <2>1, <2>2
<1>4. ListsRight' /\ (AllOrdered' <=> AllOrdered) /\ (OfWhole' <=> OfWhole)
  <2>1. lists' = lists /\ mode' = mode /\ ListsRight
    BY DEF PagesInv
  <2>2. ListsRight' /\ (AllOrdered' <=> AllOrdered)
    BY <2>1 DEF ListsRight, AllOrdered
  <2>. QED BY <2>1, <2>2 DEF OfWhole
<1>5. ASSUME OfWhole PROVE rows' = SubSeq(Sorted(matching), 1, last)
  <2>. DEFINE s == Sorted(matching)
  <2>1. s \in Seq(1 .. Runs) /\ Len(s) = Cardinality(matching)
    BY <1>1
  <2>2. rows = SubSeq(s, 1, cursor) /\ page = SubSeq(s, cursor + 1, last)
    BY <1>2, <1>5 DEF PagesInv
  <2>. HIDE DEF s
  <2>3. 1 \in 1 .. Len(s) + 1 /\ cursor \in 1 - 1 .. Len(s) /\ last \in cursor .. Len(s)
    BY <1>1, <1>2, <2>1
  <2>4. SubSeq(s, 1, cursor) \o SubSeq(s, cursor + 1, last) = SubSeq(s, 1, last)
    BY <2>1, <2>3, ConcatAdjacentSubSeq
  <2>. QED BY <2>2, <2>4 DEF s
<1>6. ASSUME mode = "state"
      PROVE  Once(rows', last) /\ Among(rows', last, lists[1], 1, last)
  <2>. DEFINE c == cursor
              new == rows'
              list == lists[1]
  <2>1. Once(rows, c) /\ Among(rows, c, list, 1, c)
    BY <1>2, <1>6 DEF PagesInv
  <2>2. Once(page, last - c) /\ Among(page, last - c, list, c + 1, last)
    BY <1>6
  <2>3. Once(list, last)
    <3>0. list \in Seq(1 .. Runs) /\ Once(list, Len(list))
      BY StateFacts DEF PagesInv
    <3>1. Cardinality(ToSet(list)) = Len(list) /\ Len(list) \in Nat /\ Once(list, Len(list))
      <4>. HIDE DEF list
      <4>. QED BY <3>0, OnceSet
    <3>2. last <= Len(list)
      BY <1>6, <3>1 DEF PagesInv
    <3>. HIDE DEF list
    <3>. QED BY <3>1, <3>2 DEF Once
  <2>4. c \in Nat /\ c <= last /\ \A i \in 1 .. last : new[i] = IF i <= c THEN rows[i] ELSE page[i - c]
    BY <1>2, <1>3
  <2>. HIDE DEF c, new, list
  <2>5. Once(new, last) /\ Among(new, last, list, 1, last)
    BY <2>1, <2>2, <2>3, <2>4, DistinctAdded
  <2>. QED BY <2>5 DEF new, list
<1>7. matching' = matching /\ mode' = mode /\ lists' = lists
  OBVIOUS
<1>8. cursor' \in Nat /\ (cursor' <= Runs => last = cursor' /\ cursor' <= Cardinality(matching))
      /\ (cursor' > Runs => last = Cardinality(matching))
  BY <1>1
<1>9. (OfWhole => rows = SubSeq(Sorted(matching), 1, Len(rows)))'
  BY <1>3, <1>4, <1>5, <1>7
<1>10. (mode = "state" => Once(rows, Len(rows)) /\ Among(rows, Len(rows), lists[1], 1, Len(rows)))'
  BY <1>3, <1>6, <1>7
<1>11. (/\ cursor \in Nat /\ rows \in Seq(1 .. Runs)
        /\ cursor <= Runs => Len(rows) = cursor /\ cursor <= Cardinality(matching)
        /\ cursor > Runs => Len(rows) = Cardinality(matching))'
  BY <1>3, <1>7, <1>8
<1>12. (/\ mode \in {"latest", "time", "other", "queue", "state"}
        /\ matching \subseteq 1 .. Runs
        /\ mode \in {"latest", "queue"} => matching = 1 .. Runs
        /\ mode = "state" => matching = ToSet(lists[1]))'
  BY <1>7 DEF PagesInv
<1>. QED BY <1>4, <1>9, <1>10, <1>11, <1>12 DEF PagesInv

(* Pages of the first runs are the same, whatever comes after.              *)
LEMMA SamePage ==
  ASSUME NEW S \in SUBSET (1 .. Runs), NEW T \in SUBSET (1 .. Runs), NEW c \in Nat, NEW last \in Nat,
         c <= last, 1 .. last \subseteq S, 1 .. last \subseteq T
  PROVE  SubSeq(Sorted(S), c + 1, last) = SubSeq(Sorted(T), c + 1, last)
<1>1. ASSUME NEW U \in SUBSET (1 .. Runs), 1 .. last \subseteq U
      PROVE  /\ SubSeq(Sorted(U), c + 1, last) \in Seq(1 .. Runs)
             /\ Len(SubSeq(Sorted(U), c + 1, last)) = last - c
             /\ \A i \in 1 .. last - c : SubSeq(Sorted(U), c + 1, last)[i] = c + i
  <2>1. /\ IsFiniteSet(U) /\ U \in SUBSET (Nat \ {0})
        /\ Sorted(U) \in Seq(1 .. Runs) /\ Len(Sorted(U)) = Cardinality(U)
    BY MatchingFacts
  <2>2. last <= Cardinality(U) /\ \A n \in 1 .. last : Sorted(U)[n] = n
    BY <1>1, <2>1, SortedFirst
  <2>. DEFINE s == Sorted(U)
  <2>3. s \in Seq(1 .. Runs) /\ last <= Len(s) /\ \A n \in 1 .. last : s[n] = n
    BY <2>1, <2>2
  <2>. HIDE DEF s
  <2>4. /\ SubSeq(s, c + 1, last) \in Seq(1 .. Runs) /\ Len(SubSeq(s, c + 1, last)) = last - c
        /\ \A i \in 1 .. last - c : SubSeq(s, c + 1, last)[i] = s[c + i]
    BY <2>3, SliceFacts
  <2>5. \A i \in 1 .. last - c : c + i \in 1 .. last
    OBVIOUS
  <2>. QED BY <2>3, <2>4, <2>5 DEF s
<1>. DEFINE a == SubSeq(Sorted(S), c + 1, last)
            b == SubSeq(Sorted(T), c + 1, last)
<1>2. /\ a \in Seq(1 .. Runs) /\ b \in Seq(1 .. Runs) /\ Len(a) = last - c /\ Len(b) = last - c
      /\ \A i \in 1 .. last - c : a[i] = b[i]
  BY <1>1
<1>. HIDE DEF a, b
<1>3. a = b
  BY <1>2, SeqEqual
<1>. QED BY <1>3 DEF a, b

(* The sorted runs go on where the rows end: a page of them.                *)
LEMMA SortedPage ==
  ASSUME PagesInv, cursor <= Runs, mode # "state", NEW S \in SUBSET matching, NEW last \in Nat,
         cursor <= last, last <= Cardinality(S),
         rows' = rows \o SubSeq(Sorted(S), cursor + 1, last), UNCHANGED <<lists, matching, mode>>,
         (cursor' = last /\ last <= Runs) \/ (cursor' = Runs + 1 /\ last = Cardinality(matching)),
         OfWhole => S = matching \/ (1 .. last \subseteq S /\ 1 .. last \subseteq matching)
  PROVE  PagesInv'
<1>. DEFINE page == SubSeq(Sorted(S), cursor + 1, last)
<1>1. S \in SUBSET (1 .. Runs) /\ matching \in SUBSET (1 .. Runs) /\ cursor \in Nat
  BY DEF PagesInv
<1>2. /\ Sorted(S) \in Seq(1 .. Runs) /\ Len(Sorted(S)) = Cardinality(S) /\ Cardinality(S) \in Nat
      /\ IsFiniteSet(matching) /\ Cardinality(matching) \in Nat
  BY <1>1, MatchingFacts
<1>3. Cardinality(S) <= Cardinality(matching)
  BY <1>2, FS_Subset
<1>4. page \in Seq(1 .. Runs) /\ Len(page) = last - cursor
  <2>. DEFINE s == Sorted(S)
  <2>1. s \in Seq(1 .. Runs) /\ last <= Len(s)
    BY <1>2
  <2>. HIDE DEF s
  <2>2. SubSeq(s, cursor + 1, last) \in Seq(1 .. Runs) /\ Len(SubSeq(s, cursor + 1, last)) = last - cursor
    BY <1>1, <2>1, SliceFacts
  <2>. QED BY <2>2 DEF s
<1>5. OfWhole => page = SubSeq(Sorted(matching), cursor + 1, last)
  BY <1>1, SamePage
<1>6. last <= Cardinality(matching) /\ rows' = rows \o page
  BY <1>2, <1>3
<1>. HIDE DEF page, OfWhole
<1>. QED BY <1>4, <1>5, <1>6, PageAdded

(* What the page is cut from: all that match, or more than it needs.         *)
LEMMA EnoughFetched ==
  ASSUME PagesInv, NEW n \in Nat, mode \in {"latest", "queue"}
  PROVE  /\ Fetched(n) \subseteq matching
         /\ Fetched(n) = matching \/ Cardinality(Fetched(n)) >= n
         /\ OfWhole => \A last \in Nat : last <= n /\ last <= Runs =>
              1 .. last \subseteq Fetched(n) /\ 1 .. last \subseteq matching
<1>1. ListsRight /\ matching = 1 .. Runs /\ Runs \in Nat
  BY ListingAssumption DEF PagesInv
<1>2. /\ Fetched(n) \subseteq 1 .. Runs
      /\ Fetched(n) = 1 .. Runs \/ Cardinality(Fetched(n)) >= n
      /\ AllOrdered => \A r \in 1 .. Runs : r <= n => r \in Fetched(n)
  BY <1>1, FetchedFacts
<1>3. OfWhole => AllOrdered
  BY DEF OfWhole
<1>4. ASSUME OfWhole, NEW last \in Nat, last <= n, last <= Runs
      PROVE  1 .. last \subseteq Fetched(n) /\ 1 .. last \subseteq matching
  <2>1. \A r \in 1 .. last : r \in 1 .. Runs /\ r <= n
    BY <1>1, <1>4
  <2>. QED BY <1>1, <1>2, <1>3, <1>4, <2>1
<1>. QED BY <1>1, <1>2, <1>4

LEMMA EnoughMatching ==
  ASSUME PagesInv, mode \in {"time", "other"}
  PROVE  /\ AllFetched(cursor) \subseteq matching
         /\ \/ AllFetched(cursor) = matching
            \/ mode = "time" /\ Cardinality(AllFetched(cursor)) >= cursor + Limit + 1
<1>. DEFINE Until == {n \in 1 .. Runs + 1 : Exhausted(n) \/ (mode = "time" /\ Enough(cursor, n))}
            rounds == Min(Until)
<1>1. ListsRight /\ matching \subseteq 1 .. Runs /\ Runs \in Nat /\ Batch \in Nat \ {0}
      /\ DOMAIN lists = 1 .. Lists
  BY ListingAssumption DEF PagesInv, ListsRight
<1>2. ASSUME NEW l \in 1 .. Lists
      PROVE  Len(lists[l]) \in Nat /\ Len(lists[l]) <= Runs
  <2>1. lists[l] \in Seq(1 .. Runs) /\ Once(lists[l], Len(lists[l]))
    BY <1>1 DEF ListsRight, Once
  <2>. DEFINE s == lists[l]
  <2>2. s \in Seq(1 .. Runs) /\ Once(s, Len(s))
    BY <2>1
  <2>. HIDE DEF s
  <2>3. Len(s) \in Nat /\ ToSet(s) \subseteq 1 .. Runs /\ Cardinality(ToSet(s)) = Len(s)
    BY <2>2, OnceSet
  <2>4. Cardinality(ToSet(s)) <= Runs
    BY <2>3, MatchingFacts
  <2>. QED BY <2>3, <2>4 DEF s
<1>3. Runs + 1 \in Until
  <2>1. (Runs + 1) * Batch >= Runs + 1
    BY <1>1
  <2>2. (Runs + 1) * Batch \in Int
    BY <1>1
  <2>3. \A l \in 1 .. Lists : Len(lists[l]) < (Runs + 1) * Batch
    BY <1>1, <1>2, <2>1, <2>2
  <2>. QED BY <1>1, <2>3 DEF Exhausted
<1>4. rounds \in Until
  <2>1. Until \subseteq Nat
    BY <1>1
  <2>. HIDE DEF Until
  <2>2. PICK n \in Until : \A m \in Until : ~ (<<m, n>> \in OpToRel(<, Nat))
    BY <1>3, <2>1, NatLessThanWellFounded, WFMin
  <2>3. \A m \in Until : n =< m
    <3>1. ASSUME NEW m \in Until PROVE ~(m < n)
      <4>1. m < n => <<m, n>> \in OpToRel(<, Nat)
        BY <2>1 DEF OpToRel
      <4>. QED BY <2>2, <4>1
    <3>. QED BY <2>1, <3>1
  <2>. QED BY <2>3 DEF Min
<1>5. AllFetched(cursor) = Fetched(rounds * Batch) \cap matching
  BY DEF AllFetched
<1>6. rounds \in 1 .. Runs + 1 /\ (Exhausted(rounds) \/ (mode = "time" /\ Enough(cursor, rounds)))
  BY <1>4
<1>. HIDE DEF rounds
<1>7. rounds * Batch \in Nat
  BY <1>1, <1>6
<1>8. CASE Exhausted(rounds)
  <2>1. \A l \in 1 .. Lists : Len(lists[l]) <= rounds * Batch
    BY <1>1, <1>2, <1>7, <1>8 DEF Exhausted
  <2>2. Fetched(rounds * Batch) = 1 .. Runs
    BY <1>1, <1>7, <2>1, FetchedFacts
  <2>. QED BY <1>1, <1>5, <2>2
<1>9. CASE mode = "time" /\ Enough(cursor, rounds)
  BY <1>5, <1>9 DEF Enough
<1>. QED BY <1>6, <1>8, <1>9

LEMMA NextPageInv ==
  ASSUME PagesInv, NextPage
  PROVE  PagesInv'
<1>. DEFINE runs0 == IF mode = "latest" THEN LatestFetched(cursor) ELSE AllFetched(cursor)
            size == Cardinality(runs0)
            last == Min({cursor + Limit, size})
<1>1. /\ mode \in {"latest", "time", "other"}
      /\ mode # "state" /\ cursor <= Runs /\ cursor \in Nat
      /\ rows' = rows \o SubSeq(Sorted(runs0), cursor + 1, last)
      /\ cursor' = IF size > cursor + Limit THEN last ELSE Runs + 1
      /\ UNCHANGED <<lists, matching, mode>>
  BY DEF NextPage, PagesInv
<1>2. /\ Limit \in Nat \ {0} /\ MinFetch \in Nat /\ Runs \in Nat
      /\ matching \in SUBSET (1 .. Runs) /\ cursor <= Cardinality(matching)
  BY <1>1, ListingAssumption DEF PagesInv
<1>3. /\ runs0 \subseteq matching /\ (runs0 = matching \/ size >= cursor + Limit + 1)
      /\ OfWhole => runs0 = matching \/ \A n \in Nat : n <= cursor + Limit /\ n <= Runs =>
                     1 .. n \subseteq runs0 /\ 1 .. n \subseteq matching
  <2>1. CASE mode = "latest"
    <3>. DEFINE n == Max({MinFetch, cursor + Limit + 1})
    <3>1. n \in Nat /\ n >= cursor + Limit + 1
      <4>. DEFINE m == cursor + Limit + 1
      <4>1. m \in Nat
        BY <1>1, <1>2
      <4>. HIDE DEF m
      <4>2. Max({MinFetch, m}) \in {MinFetch, m} /\ Max({MinFetch, m}) >= m
        BY <1>2, <4>1, MinMaxFacts
      <4>. QED BY <1>2, <4>1, <4>2 DEF m
    <3>2. runs0 = Fetched(n)
      BY <2>1 DEF LatestFetched
    <3>. HIDE DEF n, OfWhole
    <3>3. /\ Fetched(n) \subseteq matching
          /\ Fetched(n) = matching \/ Cardinality(Fetched(n)) >= n
          /\ OfWhole => \A k \in Nat : k <= n /\ k <= Runs =>
               1 .. k \subseteq Fetched(n) /\ 1 .. k \subseteq matching
      BY <2>1, <3>1, EnoughFetched
    <3>4. Cardinality(Fetched(n)) \in Nat
      BY <1>2, <3>3, MatchingFacts
    <3>5. \A k \in Nat : k <= cursor + Limit => k <= n
      BY <1>1, <1>2, <3>1
    <3>. HIDE DEF runs0
    <3>. QED BY <1>1, <1>2, <3>1, <3>2, <3>3, <3>4, <3>5
  <2>2. CASE mode # "latest"
    <3>1. /\ AllFetched(cursor) \subseteq matching
          /\ \/ AllFetched(cursor) = matching
             \/ mode = "time" /\ Cardinality(AllFetched(cursor)) >= cursor + Limit + 1
      BY <1>1, <2>2, EnoughMatching
    <3>2. mode = "time" => ~OfWhole
      BY DEF OfWhole
    <3>. QED BY <2>2, <3>1, <3>2
  <2>. QED BY <2>1, <2>2
<1>. HIDE DEF runs0
<1>4. size \in Nat /\ Cardinality(matching) \in Nat /\ size <= Runs /\ Cardinality(matching) <= Runs
  BY <1>2, <1>3, MatchingFacts
<1>. HIDE DEF size
<1>5. last \in {cursor + Limit, size} /\ last <= cursor + Limit /\ last <= size
  <2>. DEFINE m == cursor + Limit
  <2>1. m \in Int
    BY <1>1, <1>2
  <2>. HIDE DEF m
  <2>2. size \in Int
    BY <1>4
  <2>3. Min({m, size}) \in {m, size} /\ Min({m, size}) <= m /\ Min({m, size}) <= size
    BY <2>1, <2>2, MinMaxFacts
  <2>. QED BY <2>3 DEF m
<1>. HIDE DEF last
<1>6. last \in Nat /\ cursor <= last /\ last <= Runs
  BY <1>1, <1>2, <1>3, <1>4, <1>5 DEF size
<1>7. \/ cursor' = last
      \/ cursor' = Runs + 1 /\ last = Cardinality(matching)
  <2>1. CASE size > cursor + Limit
    BY <1>1, <2>1
  <2>2. CASE ~(size > cursor + Limit)
    <3>1. runs0 = matching /\ last = size
      BY <1>1, <1>2, <1>3, <1>4, <1>5, <2>2
    <3>. QED BY <1>1, <2>2, <3>1 DEF size
  <2>. QED BY <2>1, <2>2
<1>8. OfWhole => runs0 = matching \/ (1 .. last \subseteq runs0 /\ 1 .. last \subseteq matching)
  BY <1>3, <1>5, <1>6
<1>9. last <= Cardinality(runs0) /\ mode # "state" /\ runs0 \in SUBSET matching
  BY <1>1, <1>3, <1>5 DEF size
<1>. HIDE DEF OfWhole
<1>. QED BY <1>1, <1>6, <1>7, <1>8, <1>9, SortedPage

LEMMA NextJobsInv ==
  ASSUME PagesInv, NextJobs
  PROVE  PagesInv'
<1>. DEFINE total == Cardinality(matching)
            end == cursor + Limit
            last == Min({end, total})
            sub == SubSeq(lists[1], cursor + 1, last)
<1>1. /\ mode \in {"queue", "state"} /\ cursor <= Runs /\ cursor \in Nat
      /\ rows' = rows \o (IF mode = "queue" THEN SubSeq(Sorted(Fetched(end)), cursor + 1, last)
                          ELSE Sorted(ToSet(sub)))
      /\ cursor' = IF end < total THEN end ELSE Runs + 1
      /\ UNCHANGED <<lists, matching, mode>>
  BY DEF NextJobs, PagesInv
<1>2. /\ Limit \in Nat \ {0} /\ Runs \in Nat /\ matching \in SUBSET (1 .. Runs)
      /\ cursor <= total /\ end \in Nat
  BY <1>1, ListingAssumption DEF PagesInv
<1>3. total \in Nat /\ total <= Runs
  BY <1>2, MatchingFacts
<1>4. last \in {end, total} /\ last <= end /\ last <= total
  <2>. HIDE DEF end, total
  <2>. QED BY <1>2, <1>3, MinMaxFacts
<1>. HIDE DEF last
<1>5. last \in Nat /\ cursor <= last /\ last <= Runs
  BY <1>1, <1>2, <1>3, <1>4
<1>6. \/ cursor' = last
      \/ cursor' = Runs + 1 /\ last = Cardinality(matching)
  BY <1>1, <1>2, <1>3, <1>4
<1>7. CASE mode = "queue"
  <2>. HIDE DEF end, OfWhole
  <2>1. /\ Fetched(end) \subseteq matching
        /\ Fetched(end) = matching \/ Cardinality(Fetched(end)) >= end
        /\ OfWhole => \A n \in Nat : n <= end /\ n <= Runs =>
             1 .. n \subseteq Fetched(end) /\ 1 .. n \subseteq matching
    BY <1>2, <1>7, EnoughFetched
  <2>2. Cardinality(Fetched(end)) \in Nat
    BY <1>2, <2>1, MatchingFacts
  <2>3. last <= Cardinality(Fetched(end)) /\ mode # "state" /\ Fetched(end) \in SUBSET matching
    BY <1>2, <1>3, <1>4, <1>5, <1>7, <2>1, <2>2
  <2>4. OfWhole => 1 .. last \subseteq Fetched(end) /\ 1 .. last \subseteq matching
    BY <1>4, <1>5, <2>1
  <2>5. rows' = rows \o SubSeq(Sorted(Fetched(end)), cursor + 1, last)
    BY <1>1, <1>7
  <2>. QED BY <1>1, <1>5, <1>6, <2>3, <2>4, <2>5, SortedPage
<1>8. CASE mode = "state"
  <2>. DEFINE list == lists[1]
              page == Sorted(ToSet(sub))
  <2>1. ListsRight /\ matching = ToSet(list)
    BY <1>8 DEF PagesInv
  <2>2. list \in Seq(1 .. Runs) /\ Once(list, Len(list))
    BY <2>1, StateFacts
  <2>. HIDE DEF list
  <2>3. Len(list) \in Nat /\ DOMAIN list = 1 .. Len(list) /\ Cardinality(ToSet(list)) = Len(list)
    BY <2>2, OnceSet
  <2>4. last <= Len(list)
    BY <1>4, <2>1, <2>3
  <2>5. /\ sub \in Seq(1 .. Runs) /\ Len(sub) = last - cursor
        /\ \A i \in 1 .. last - cursor : sub[i] = list[cursor + i] /\ cursor + i \in 1 .. Len(list)
    <3>1. /\ SubSeq(list, cursor + 1, last) \in Seq(1 .. Runs)
          /\ Len(SubSeq(list, cursor + 1, last)) = last - cursor
          /\ \A i \in 1 .. last - cursor :
               SubSeq(list, cursor + 1, last)[i] = list[cursor + i] /\ cursor + i \in 1 .. Len(list)
      BY <1>1, <1>5, <2>2, <2>4, SliceFacts
    <3>. QED BY <3>1 DEF list
  <2>. HIDE DEF sub
  <2>6. Once(sub, Len(sub))
    <3>1. ASSUME NEW i \in 1 .. last - cursor, NEW k \in 1 .. last - cursor, sub[i] = sub[k] PROVE i = k
      <4>1. cursor + i = cursor + k
        BY <2>2, <2>5, <3>1 DEF Once
      <4>. QED BY <1>1, <4>1
    <3>. QED BY <2>5, <3>1 DEF Once
  <2>7. /\ DOMAIN sub = 1 .. last - cursor
        /\ ToSet(sub) \subseteq 1 .. Runs /\ Cardinality(ToSet(sub)) = last - cursor
    BY <2>5, <2>6, OnceSet
  <2>8. /\ IsFiniteSet(ToSet(sub)) /\ ToSet(sub) \in SUBSET Nat
        /\ page \in Seq(1 .. Runs) /\ Len(page) = last - cursor
    BY <2>7, MatchingFacts
  <2>9. \A n \in 1 .. last - cursor : page[n] \in ToSet(sub) /\ Rank(ToSet(sub), page[n]) = n
    BY <2>7, <2>8, SortedFacts
  <2>10. OfWhole => page = SubSeq(Sorted(matching), cursor + 1, last)
    <3>1. SUFFICES ASSUME AllOrdered PROVE page = SubSeq(Sorted(matching), cursor + 1, last)
      BY <1>8 DEF OfWhole
    <3>2. Ordered(list)
      <4>1. 1 \in DOMAIN lists
        BY <2>1, ListingAssumption DEF ListsRight
      <4>. QED BY <3>1, <4>1 DEF AllOrdered, list
    <3>3. list \in Seq(Nat) /\ sub \in Seq(Nat)
      <4>1. 1 .. Runs \subseteq Nat
        OBVIOUS
      <4>. QED BY <2>2, <2>5, <4>1, SeqMonotonic
    <3>4. Ordered(sub)
      <4>1. ASSUME NEW i \in 1 .. last - cursor, NEW k \in 1 .. last - cursor, i < k
            PROVE  sub[i] < sub[k]
        <5>1. cursor + i < cursor + k
          BY <1>1, <1>5, <4>1
        <5>2. list[cursor + i] < list[cursor + k]
          BY <2>3, <2>5, <3>2, <5>1 DEF Ordered
        <5>. QED BY <2>5, <5>2
      <4>. QED BY <2>7, <4>1 DEF Ordered
    <3>5. Sorted(ToSet(list)) = list
      BY <3>2, <3>3, SortedIs
    <3>6. Sorted(ToSet(sub)) = sub
      BY <3>3, <3>4, SortedIs
    <3>. QED BY <2>1, <3>5, <3>6 DEF sub, list
  <2>. HIDE DEF page
  <2>11. Once(page, Len(page))
    <3>1. ASSUME NEW i \in 1 .. last - cursor, NEW k \in 1 .. last - cursor, page[i] = page[k] PROVE i = k
      BY <2>9, <3>1
    <3>. QED BY <2>8, <3>1 DEF Once
  <2>12. Among(page, Len(page), list, cursor + 1, last)
    <3>1. ASSUME NEW i \in 1 .. last - cursor PROVE \E k \in cursor + 1 .. last : page[i] = list[k]
      <4>1. PICK k \in 1 .. last - cursor : page[i] = sub[k]
        BY <2>7, <2>9 DEF ToSet
      <4>2. cursor + k \in cursor + 1 .. last
        BY <1>1, <1>5
      <4>. QED BY <2>5, <4>1, <4>2
    <3>. QED BY <2>8, <3>1 DEF Among
  <2>13. rows' = rows \o page
    BY <1>1, <1>8 DEF page
  <2>14. last <= Cardinality(matching)
    BY <1>4
  <2>. HIDE DEF OfWhole
  <2>. QED BY <1>1, <1>5, <1>6, <2>8, <2>10, <2>11, <2>12, <2>13, <2>14, PageAdded DEF list
<1>. QED BY <1>1, <1>7, <1>8

-----------------------------------------------------------------------------
(* The metrics.                                                            *)
MetricsTyped == instant \in Nat /\ ended \in [Jobs -> Job]

MetricsInv == (part = "metrics" => MetricsTyped) /\ MetricsRight

(* A quotient tells the multiple of the divisor that lies below.           *)
LEMMA Quotient ==
  ASSUME NEW x \in Int, NEW d \in Nat \ {0}
  PROVE  x \div d \in Int /\ (x \div d) * d <= x /\ x < (x \div d) * d + d
OBVIOUS

LEMMA QuotientIs ==
  ASSUME NEW x \in Int, NEW d \in Nat \ {0}, NEW k \in Int
  PROVE  x \div d = k <=> k * d <= x /\ x < k * d + d
<1>. DEFINE q == x \div d
<1>1. q \in Int /\ q * d <= x /\ x < q * d + d
  BY Quotient
<1>. HIDE DEF q
<1>2. ASSUME k * d <= x, x < k * d + d PROVE q = k
  <2>1. q * d < (k + 1) * d /\ k * d < (q + 1) * d
    BY <1>1, <1>2
  <2>2. q < k + 1 /\ k < q + 1
    BY <1>1, <2>1
  <2>. QED BY <1>1, <2>2
<1>. QED BY <1>1, <1>2 DEF q

(* The first, or the newest, of a finite set of jobs are all of them when    *)
(* there are no more than are read.                                        *)
LEMMA CutFacts ==
  ASSUME NEW js \in SUBSET Jobs
  PROVE  /\ IsFiniteSet(js) /\ FirstOf(js) \subseteq js /\ NewestOf(js) \subseteq js
         /\ Cardinality(js) <= Cut => FirstOf(js) = js /\ NewestOf(js) = js
<1>1. IsFiniteSet(Jobs) /\ Cut \in Nat /\ Jobs \subseteq Int
  BY FS_Interval, MetricsAssumption DEF Jobs
<1>2. IsFiniteSet(js)
  BY <1>1, FS_Subset
<1>3. ASSUME NEW j \in js, NEW some \in SUBSET js, j \notin some, Cardinality(js) <= Cut
      PROVE  Cardinality(some) < Cut
  <2>1. Cardinality(some) <= Cardinality(js) /\ Cardinality(some) # Cardinality(js)
    BY <1>2, <1>3, FS_Subset
  <2>2. Cardinality(some) \in Nat /\ Cardinality(js) \in Nat
    BY <1>2, FS_Subset, FS_CardinalityType
  <2>. QED BY <1>1, <1>3, <2>1, <2>2
<1>4. ASSUME NEW j \in js, Cardinality(js) <= Cut
      PROVE  Cardinality({i \in js : i < j}) < Cut /\ Cardinality({i \in js : i > j}) < Cut
  <2>1. j \notin {i \in js : i < j} /\ j \notin {i \in js : i > j}
    BY <1>1
  <2>. QED BY <1>3, <1>4, <2>1
<1>. QED BY <1>2, <1>4 DEF FirstOf, NewestOf

(* What is read of the lists is of the window, and all of it when no list is  *)
(* longer than the limit.                                                  *)
LEMMA ReadWindow ==
  ASSUME MetricsTyped, NEW rejected \in SUBSET JobLists, NEW start \in Int
  PROVE  /\ JobsRead(rejected, start) \subseteq Since(Jobs, start)
         /\ Whole => JobsRead(rejected, start) = Since(Jobs, start)
<1>1. ASSUME NEW l \in JobLists
      PROVE  /\ InList(l) \subseteq Jobs /\ IsFiniteSet(InList(l))
             /\ Since(InList(l), start) \in SUBSET InList(l)
             /\ Cardinality(Since(InList(l), start)) <= Cardinality(InList(l))
  <2>1. InList(l) \subseteq Jobs /\ Since(InList(l), start) \in SUBSET InList(l)
    BY DEF InList, Since
  <2>2. IsFiniteSet(InList(l))
    BY <2>1, CutFacts
  <2>. QED BY <2>1, <2>2, FS_Subset
<1>2. ASSUME NEW l \in JobLists
      PROVE  /\ FirstOf(Since(InList(l), start)) \subseteq Since(InList(l), start)
             /\ Since(NewestOf(InList(l)), start) \subseteq Since(InList(l), start)
  BY <1>1, CutFacts DEF Since
<1>3. ASSUME Whole, NEW l \in JobLists
      PROVE  /\ FirstOf(Since(InList(l), start)) = Since(InList(l), start)
             /\ Since(NewestOf(InList(l)), start) = Since(InList(l), start)
  <2>1. Cardinality(InList(l)) <= Cut /\ Cut \in Nat
    BY <1>3, MetricsAssumption DEF Whole
  <2>2. Cardinality(Since(InList(l), start)) <= Cut
    BY <1>1, <2>1, FS_CardinalityType, FS_Subset
  <2>. QED BY <1>1, <2>1, <2>2, CutFacts
<1>4. ASSUME NEW j \in Jobs
      PROVE  \E l \in JobLists : j \in InList(l)
  <2>1. ended[j].kind \in Kinds
    BY DEF MetricsTyped, Job
  <2>2. <<ended[j].kind[1], ended[j].error # NoError>> \in JobLists
    BY <2>1 DEF JobLists
  <2>. QED BY <2>2 DEF InList
<1>5. \A l \in JobLists : Since(InList(l), start) \subseteq Since(Jobs, start)
  BY <1>1 DEF Since
<1>6. JobsRead(rejected, start) \subseteq Since(Jobs, start)
  BY <1>2, <1>5 DEF JobsRead
<1>7. ASSUME Whole PROVE Since(Jobs, start) \subseteq JobsRead(rejected, start)
  <2>1. ASSUME NEW j \in Since(Jobs, start)
        PROVE  \E l \in JobLists : j \in Since(InList(l), start)
    BY <1>4 DEF Since
  <2>. QED BY <1>3, <1>7, <2>1 DEF JobsRead
<1>. QED BY <1>6, <1>7

(* A bucket begins at its hour: the first of them within the window.        *)
Reports == {"metrics", "activity"}

Begin(what, h) ==
  IF what = "metrics" THEN (instant \div Hour + h - Hours) * Hour
  ELSE ((instant \div (Day * Hour)) * Day + Day - Hours + h - 1) * Hour

LEMMA HourFacts ==
  ASSUME MetricsTyped, NEW what \in Reports, NEW h \in 1 .. Hours
  PROVE  /\ WindowStart(what) \in Int /\ FirstBucket(what) \in Int
         /\ Begin(what, h) = FirstBucket(what) + (h - 1) * Hour
         /\ Begin(what, h + 1) = Begin(what, h) + Hour
         /\ WindowStart(what) <= FirstBucket(what) /\ FirstBucket(what) <= Begin(what, h)
<1>1. instant \in Nat /\ Hour \in Nat \ {0} /\ Day \in Nat \ {0} /\ Hours \in Nat /\ h \in Nat /\ h >= 1
  BY MetricsAssumption DEF MetricsTyped
<1>2. (h - 1) * Hour >= 0
  BY <1>1
<1>3. CASE what = "metrics"
  <2>. DEFINE n == instant \div Hour
  <2>1. n \in Int /\ instant < n * Hour + Hour
    BY <1>1, Quotient
  <2>2. /\ WindowStart(what) = instant - Hours * Hour
        /\ FirstBucket(what) = (n - (Hours - 1)) * Hour
        /\ Begin(what, h) = (n + h - Hours) * Hour
        /\ Begin(what, h + 1) = (n + (h + 1) - Hours) * Hour
    BY <1>3 DEF WindowStart, FirstBucket, Begin
  <2>. HIDE DEF n
  <2>3. (n - (Hours - 1)) * Hour = n * Hour + Hour - Hours * Hour
    BY <1>1, <2>1
  <2>4. (n + h - Hours) * Hour = (n - (Hours - 1)) * Hour + (h - 1) * Hour
    BY <1>1, <2>1
  <2>5. (n + (h + 1) - Hours) * Hour = (n + h - Hours) * Hour + Hour
    BY <1>1, <2>1
  <2>6. n * Hour \in Int /\ Hours * Hour \in Int /\ (h - 1) * Hour \in Int
    BY <1>1, <2>1
  <2>. QED BY <1>1, <1>2, <2>1, <2>2, <2>3, <2>4, <2>5, <2>6
<1>4. CASE what = "activity"
  <2>. DEFINE n == (instant \div (Day * Hour)) * Day
  <2>1. n \in Int
    <3>1. Day * Hour \in Nat \ {0}
      BY <1>1
    <3>. QED BY <1>1, <3>1, Quotient
  <2>2. /\ WindowStart(what) = (n - (Hours - Day)) * Hour
        /\ FirstBucket(what) = (n - (Hours - Day)) * Hour
        /\ Begin(what, h) = (n + Day - Hours + h - 1) * Hour
        /\ Begin(what, h + 1) = (n + Day - Hours + (h + 1) - 1) * Hour
    BY <1>4 DEF WindowStart, FirstBucket, Begin
  <2>. HIDE DEF n
  <2>3. (n + Day - Hours + h - 1) * Hour = (n - (Hours - Day)) * Hour + (h - 1) * Hour
    BY <1>1, <2>1
  <2>4. (n + Day - Hours + (h + 1) - 1) * Hour = (n + Day - Hours + h - 1) * Hour + Hour
    BY <1>1, <2>1
  <2>5. (n - (Hours - Day)) * Hour \in Int /\ (h - 1) * Hour \in Int
    BY <1>1, <2>1
  <2>. QED BY <1>1, <1>2, <2>2, <2>3, <2>4, <2>5
<1>. QED BY <1>3, <1>4 DEF Reports

(* The bucket of an hour has those of the jobs read that ended in it.       *)
LEMMA BucketHours ==
  ASSUME MetricsTyped, NEW what \in Reports, NEW h \in 1 .. Hours, NEW js \in SUBSET Jobs
  PROVE  Bucketed(js, what)[h]
           = {j \in js : Begin(what, h) <= ended[j].at /\ ended[j].at < Begin(what, h + 1)}
<1>. DEFINE f == FirstBucket(what)
<1>1. /\ f \in Int /\ f <= Begin(what, h) /\ Begin(what, h) = f + (h - 1) * Hour
      /\ Begin(what, h + 1) = Begin(what, h) + Hour
  BY HourFacts
<1>2. Hour \in Nat \ {0} /\ (h - 1) * Hour \in Int /\ h - 1 \in Int
  BY MetricsAssumption
<1>3. Bucketed(js, what)[h]
        = {j \in js : ended[j].at >= f /\ (ended[j].at - f) \div Hour = h - 1}
  BY DEF Bucketed
<1>. HIDE DEF f
<1>4. ASSUME NEW j \in js
      PROVE  ended[j].at >= f /\ (ended[j].at - f) \div Hour = h - 1
               <=> Begin(what, h) <= ended[j].at /\ ended[j].at < Begin(what, h + 1)
  <2>1. ended[j].at \in Int
    BY DEF MetricsTyped, Job
  <2>2. ended[j].at - f \in Int
    BY <1>1, <2>1
  <2>3. (ended[j].at - f) \div Hour = h - 1
          <=> (h - 1) * Hour <= ended[j].at - f /\ ended[j].at - f < (h - 1) * Hour + Hour
    BY <1>2, <2>2, QuotientIs
  <2>. QED BY <1>1, <1>2, <2>1, <2>3
<1>. QED BY <1>3, <1>4

(* What is added up of the jobs that were read.                            *)
LEMMA BucketsAdded ==
  ASSUME MetricsTyped, NEW what \in Reports, NEW rejected \in SUBSET JobLists,
         report' = [what |-> what, read |-> JobsRead(rejected, WindowStart(what)),
                    groups |-> report'.groups,
                    buckets |-> Added(JobsRead(rejected, WindowStart(what)), what)],
         UNCHANGED <<ended, instant>>
  PROVE  BucketsRight'
<1>. DEFINE js == JobsRead(rejected, WindowStart(what))
            In(h) == {j \in Jobs : Begin(what, h) <= ended[j].at /\ ended[j].at < Begin(what, h + 1)}
            B(h) == Bucketed(js, what)[h]
<1>1. ASSUME NEW h \in 1 .. Hours
      PROVE  /\ B(h) \subseteq In(h) /\ (Whole => B(h) = In(h))
  <2>1. WindowStart(what) \in Int
    BY HourFacts
  <2>2. /\ js \subseteq Since(Jobs, WindowStart(what))
        /\ Whole => js = Since(Jobs, WindowStart(what))
    BY <2>1, ReadWindow
  <2>3. js \in SUBSET Jobs
    BY <2>2 DEF Since
  <2>. HIDE DEF js
  <2>4. B(h) = {j \in js : Begin(what, h) <= ended[j].at /\ ended[j].at < Begin(what, h + 1)}
    BY <2>3, BucketHours
  <2>5. WindowStart(what) <= Begin(what, h) /\ Begin(what, h) \in Int
    <3>1. /\ FirstBucket(what) \in Int /\ WindowStart(what) <= FirstBucket(what)
          /\ Begin(what, h) = FirstBucket(what) + (h - 1) * Hour /\ FirstBucket(what) <= Begin(what, h)
      BY HourFacts
    <3>2. (h - 1) * Hour \in Int
      BY MetricsAssumption
    <3>. QED BY <2>1, <3>1, <3>2
  <2>6. ASSUME NEW j \in Jobs, Begin(what, h) <= ended[j].at
        PROVE  j \in Since(Jobs, WindowStart(what))
    <3>1. ended[j].at \in Int
      BY DEF MetricsTyped, Job
    <3>. QED BY <2>1, <2>5, <2>6, <3>1 DEF Since
  <2>. HIDE DEF B
  <2>. QED BY <2>2, <2>3, <2>4, <2>6
<1>2. ASSUME NEW h \in 1 .. Hours
      PROVE  EndedIn(h)' = In(h)
  <2>1. report'.what = what /\ ended' = ended /\ instant' = instant
    OBVIOUS
  <2>2. HourStart(h)' = Begin(what, h) /\ HourStart(h + 1)' = Begin(what, h + 1)
    BY <2>1 DEF HourStart, Begin
  <2>. QED BY <2>1, <2>2 DEF EndedIn
<1>3. Whole' <=> Whole
  BY DEF Whole, InList, JobLists
<1>4. ASSUME NEW h \in 1 .. Hours
      PROVE  /\ report'.buckets[h].failed = Cardinality(Failed(B(h)))
             /\ report'.buckets[h].completed = Cardinality(B(h) \ Failed(B(h)))
             /\ report'.buckets[h] = [failed |-> Cardinality(Failed(B(h))),
                                      completed |-> Cardinality(B(h) \ Failed(B(h)))]
  <2>1. report'.buckets = Added(js, what)
    OBVIOUS
  <2>. QED BY <2>1 DEF Added
<1>. HIDE DEF js
<1>5. ASSUME NEW h \in 1 .. Hours
      PROVE  LET failed == Cardinality(Failed(In(h)))
                 completed == Cardinality(In(h)) - failed
             IN  /\ report'.buckets[h].failed <= failed /\ report'.buckets[h].completed <= completed
                 /\ Whole => report'.buckets[h] = [failed |-> failed, completed |-> completed]
  <2>. DEFINE In0 == In(h)
              B0 == B(h)
  <2>1. In0 \in SUBSET Jobs /\ B0 \subseteq In0 /\ (Whole => B0 = In0)
    BY <1>1
  <2>2. /\ report'.buckets[h].failed = Cardinality(Failed(B0))
        /\ report'.buckets[h].completed = Cardinality(B0 \ Failed(B0))
        /\ report'.buckets[h] = [failed |-> Cardinality(Failed(B0)),
                                 completed |-> Cardinality(B0 \ Failed(B0))]
    BY <1>4
  <2>. HIDE DEF In0, B0
  <2>3. IsFiniteSet(In0)
    BY <2>1, CutFacts
  <2>4. /\ Failed(B0) \subseteq Failed(In0) /\ B0 \ Failed(B0) \subseteq In0 \ Failed(In0)
        /\ Failed(In0) \subseteq In0
    BY <2>1 DEF Failed
  <2>5. /\ IsFiniteSet(Failed(In0)) /\ IsFiniteSet(In0 \ Failed(In0))
        /\ Cardinality(In0 \ Failed(In0)) = Cardinality(In0) - Cardinality(Failed(In0))
    <3>1. IsFiniteSet(Failed(In0))
      BY <2>3, <2>4, FS_Subset
    <3>2. In0 \cap Failed(In0) = Failed(In0)
      BY <2>4
    <3>. QED BY <2>3, <3>1, <3>2, FS_Difference
  <2>6. /\ Cardinality(Failed(B0)) <= Cardinality(Failed(In0))
        /\ Cardinality(B0 \ Failed(B0)) <= Cardinality(In0 \ Failed(In0))
    BY <2>4, <2>5, FS_Subset
  <2>. QED BY <2>1, <2>2, <2>5, <2>6 DEF In0
<1>. HIDE DEF In, B
<1>6. ASSUME NEW h \in 1 .. Hours
      PROVE  (LET failed == Cardinality(Failed(EndedIn(h)))
                  completed == Cardinality(EndedIn(h)) - failed
              IN  /\ report.buckets[h].failed <= failed /\ report.buckets[h].completed <= completed
                  /\ Whole => report.buckets[h] = [failed |-> failed, completed |-> completed])'
  <2>1. EndedIn(h)' = In(h)
    BY <1>2
  <2>2. Failed(EndedIn(h))' = Failed(In(h))
    BY <2>1 DEF Failed
  <2>. QED BY <1>3, <1>5, <2>1, <2>2
<1>. QED BY <1>6 DEF BucketsRight

-----------------------------------------------------------------------------
(* The groups of failures.                                                 *)

(* The failures of a group in the bucket of an hour.                        *)
FailedIn(js, g, h) ==
  {j \in js : /\ ended[j].kind = g.kind /\ ended[j].error = g.error
              /\ j \in Bucketed(js, "metrics")[h]}

LEMMA GroupFacts ==
  ASSUME MetricsTyped, NEW js \in SUBSET Jobs, NEW g \in Groups(js, "metrics"), NEW h \in 1 .. Hours
  PROVE  /\ g.failed \in 1 .. g.total
         /\ g.error # NoError
         /\ g = Group(g.kind, g.error, js, "metrics")
         /\ g.trend[h] = Cardinality(FailedIn(js, g, h))
         /\ FailedIn(js, g, h) \subseteq Failed(Bucketed(js, "metrics")[h])
<1>1. PICK j \in Failed(js) : g = Group(ended[j].kind, ended[j].error, js, "metrics")
  BY DEF Groups
<1>. DEFINE k == ended[j].kind
            e == ended[j].error
            named == {i \in js : ended[i].kind = k}
            failed == {i \in js : ended[i].kind = k /\ ended[i].error = e}
<1>2. /\ g.kind = k /\ g.error = e /\ g.failed = Cardinality(failed) /\ g.total = Cardinality(named)
      /\ g.trend = [n \in 1 .. Hours |-> Cardinality(Bucketed(failed, "metrics")[n])]
  BY <1>1 DEF Group
<1>3. j \in failed /\ failed \subseteq named /\ named \in SUBSET Jobs /\ e # NoError
  BY DEF Failed
<1>4. Cardinality(failed) \in 1 .. Cardinality(named)
  <2>. HIDE DEF named, failed
  <2>1. IsFiniteSet(named) /\ IsFiniteSet(failed)
    BY <1>3, CutFacts
  <2>2. Cardinality(failed) <= Cardinality(named) /\ Cardinality(failed) \in Nat /\ Cardinality(named) \in Nat
    BY <1>3, <2>1, FS_Subset, FS_CardinalityType
  <2>3. Cardinality(failed) # 0
    BY <1>3, <2>1, FS_EmptySet
  <2>. QED BY <2>2, <2>3
<1>5. Bucketed(failed, "metrics")[h] = FailedIn(js, g, h)
  BY <1>2 DEF Bucketed, FailedIn
<1>6. FailedIn(js, g, h) \subseteq Failed(Bucketed(js, "metrics")[h])
  BY <1>2, <1>3 DEF FailedIn, Failed, Bucketed
<1>. QED BY <1>1, <1>2, <1>3, <1>4, <1>5, <1>6

(* The sum that MapThenSumSet takes of the trends is the number of the       *)
(* failures of all groups, since no failure is of two groups.               *)
LEMMA TrendSum ==
  ASSUME MetricsTyped, NEW js \in SUBSET Jobs, NEW some \in SUBSET Groups(js, "metrics"), IsFiniteSet(some),
         NEW h \in 1 .. Hours
  PROVE  FailuresOf(some, h)
           = Cardinality(UNION {FailedIn(js, g, h) : g \in some})
<1>. DEFINE One(s) == CHOOSE g \in s : TRUE
            Failures(s) == UNION {FailedIn(js, g, h) : g \in s}
            Step(f) == [s \in SUBSET some |-> IF s = {} THEN 0 ELSE One(s).trend[h] + f[s \ {One(s)}]]
            sums == [s \in SUBSET some |-> Cardinality(Failures(s))]
            sum == CHOOSE f : f = Step(f)
<1>1. FailuresOf(some, h) = sum[some]
  BY DEF FailuresOf, MapThenSumSet, MapThenFoldSet
<1>2. ASSUME NEW s \in SUBSET some
      PROVE  IsFiniteSet(s) /\ Failures(s) \subseteq js /\ IsFiniteSet(Failures(s))
  <2>1. Failures(s) \subseteq js
    BY DEF FailedIn
  <2>. HIDE DEF Failures
  <2>. QED BY <2>1, CutFacts, FS_Subset
<1>3. ASSUME NEW s \in SUBSET some, NEW g \in s
      PROVE  Cardinality(Failures(s)) = g.trend[h] + Cardinality(Failures(s \ {g}))
  <2>1. Failures(s) = FailedIn(js, g, h) \cup Failures(s \ {g})
    OBVIOUS
  <2>2. FailedIn(js, g, h) \cap Failures(s \ {g}) = {}
    <3>1. ASSUME NEW o \in s \ {g} PROVE FailedIn(js, g, h) \cap FailedIn(js, o, h) = {}
      <4>1. g = Group(g.kind, g.error, js, "metrics") /\ o = Group(o.kind, o.error, js, "metrics")
        BY GroupFacts
      <4>2. g.kind # o.kind \/ g.error # o.error
        BY <4>1
      <4>. QED BY <4>2 DEF FailedIn
    <3>. QED BY <3>1
  <2>3. g.trend[h] = Cardinality(FailedIn(js, g, h))
    BY GroupFacts
  <2>4. s \ {g} \in SUBSET some /\ FailedIn(js, g, h) \in SUBSET js
    BY DEF FailedIn
  <2>. HIDE DEF Failures
  <2>5. IsFiniteSet(FailedIn(js, g, h)) /\ IsFiniteSet(Failures(s \ {g}))
    BY <1>2, <2>4, CutFacts, FS_Subset
  <2>6. Cardinality(FailedIn(js, g, h) \cup Failures(s \ {g}))
          = Cardinality(FailedIn(js, g, h)) + Cardinality(Failures(s \ {g})) - Cardinality({})
    BY <2>2, <2>5, FS_Union
  <2>7. /\ Cardinality({}) = 0 /\ Cardinality(FailedIn(js, g, h)) \in Nat
        /\ Cardinality(Failures(s \ {g})) \in Nat
    BY <2>5, FS_EmptySet, FS_CardinalityType
  <2>. QED BY <2>1, <2>3, <2>6, <2>7
<1>4. Failures({}) = {}
  OBVIOUS
<1>. HIDE DEF Failures
<1>5. sums = Step(sums)
  <2>1. ASSUME NEW s \in SUBSET some, s # {}
        PROVE  sums[s] = One(s).trend[h] + sums[s \ {One(s)}]
    <3>1. One(s) \in s
      BY <2>1
    <3>. HIDE DEF One
    <3>2. s \ {One(s)} \in SUBSET some
      OBVIOUS
    <3>. QED BY <1>3, <3>1, <3>2
  <2>2. sums[{}] = 0
    BY <1>4, FS_EmptySet
  <2>. HIDE DEF One
  <2>3. ASSUME NEW s \in SUBSET some PROVE sums[s] = Step(sums)[s]
    BY <2>1, <2>2
  <2>4. sums \in [SUBSET some -> {sums[s] : s \in SUBSET some}] /\ Step(sums) \in [SUBSET some -> {Step(sums)[s] : s \in SUBSET some}]
    OBVIOUS
  <2>. QED BY <2>3
<1>6. sum = Step(sum)
  <2>. HIDE DEF Step, sums
  <2>. QED BY <1>5
<1>. HIDE DEF sum
<1>7. /\ sum[{}] = 0
      /\ \A s \in SUBSET some : s # {} => sum[s] = One(s).trend[h] + sum[s \ {One(s)}]
  <2>. DEFINE body == [s \in SUBSET some |-> IF s = {} THEN 0 ELSE One(s).trend[h] + sum[s \ {One(s)}]]
  <2>1. sum = body
    BY <1>6
  <2>2. \A s \in SUBSET some : body[s] = IF s = {} THEN 0 ELSE One(s).trend[h] + sum[s \ {One(s)}]
    OBVIOUS
  <2>. HIDE DEF body, One
  <2>3. \A s \in SUBSET some : sum[s] = IF s = {} THEN 0 ELSE One(s).trend[h] + sum[s \ {One(s)}]
    BY <2>1, <2>2
  <2>. QED BY <2>3
<1>. HIDE DEF Step
<1>8. \A s \in SUBSET some : sum[s] = sums[s]
  <2>. DEFINE Wrong == {n \in Nat : \E s \in SUBSET some : Cardinality(s) = n /\ sum[s] # sums[s]}
  <2>1. SUFFICES ASSUME NEW t \in SUBSET some, sum[t] # sums[t] PROVE FALSE
    OBVIOUS
  <2>2. Cardinality(t) \in Wrong
    BY <1>2, <2>1, FS_CardinalityType
  <2>3. PICK n \in Wrong : \A m \in Wrong : ~ (<<m, n>> \in OpToRel(<, Nat))
    <3>. HIDE DEF Wrong
    <3>1. Wrong \subseteq Nat
      BY DEF Wrong
    <3>. QED BY <2>2, <3>1, NatLessThanWellFounded, WFMin
  <2>4. PICK s \in SUBSET some : Cardinality(s) = n /\ sum[s] # sums[s]
    OBVIOUS
  <2>5. s # {}
    BY <1>4, <1>7, <2>4, FS_EmptySet
  <2>6. One(s) \in s
    BY <2>5
  <2>. HIDE DEF One
  <2>7. s \ {One(s)} \in SUBSET some /\ Cardinality(s \ {One(s)}) = n - 1 /\ n \in Nat \ {0}
    BY <1>2, <2>4, <2>5, <2>6, FS_RemoveElement, FS_EmptySet, FS_CardinalityType
  <2>8. n - 1 \notin Wrong
    <3>1. <<n - 1, n>> \in OpToRel(<, Nat)
      BY <2>7 DEF OpToRel
    <3>. QED BY <2>3, <3>1
  <2>9. sum[s \ {One(s)}] = sums[s \ {One(s)}]
    BY <2>7, <2>8
  <2>10. sum[s] = One(s).trend[h] + sum[s \ {One(s)}]
    BY <1>7, <2>4, <2>5
  <2>11. Cardinality(Failures(s)) = One(s).trend[h] + Cardinality(Failures(s \ {One(s)}))
    BY <1>3, <2>4, <2>6
  <2>12. sums[s] = Cardinality(Failures(s)) /\ sums[s \ {One(s)}] = Cardinality(Failures(s \ {One(s)}))
    BY <2>7
  <2>. QED BY <2>4, <2>9, <2>10, <2>11, <2>12
<1>9. sums[some] = Cardinality(Failures(some))
  OBVIOUS
<1>. QED BY <1>1, <1>8, <1>9 DEF Failures

(* There are no more groups than failures.                                 *)
LEMMA GroupsFinite ==
  ASSUME NEW js \in SUBSET Jobs
  PROVE  IsFiniteSet(Groups(js, "metrics"))
<1>. DEFINE grouped == [j \in Failed(js) |-> Group(ended[j].kind, ended[j].error, js, "metrics")]
<1>1. IsFiniteSet(Failed(js))
  <2>1. Failed(js) \in SUBSET Jobs
    BY DEF Failed
  <2>. QED BY <2>1, CutFacts
<1>2. grouped \in Surjection(Failed(js), Groups(js, "metrics"))
  BY DEF Surjection, Groups
<1>. HIDE DEF grouped
<1>. QED BY <1>1, <1>2, FS_Surjection

LEMMA GroupsMade ==
  ASSUME MetricsTyped, NEW js \in SUBSET Jobs, NEW shown \in Shown(Groups(js, "metrics")),
         report' = [what |-> "metrics", read |-> js, groups |-> shown,
                    buckets |-> Added(js, "metrics")]
  PROVE  GroupsRight'
<1>0. report'.groups = shown /\ report'.buckets = Added(js, "metrics")
  OBVIOUS
<1>1. shown \in SUBSET Groups(js, "metrics") /\ IsFiniteSet(Groups(js, "metrics")) /\ IsFiniteSet(shown)
  BY GroupsFinite, FS_Subset DEF Shown
<1>2. Cardinality(shown) < Top => shown = Groups(js, "metrics")
  <2>. DEFINE gs == Groups(js, "metrics")
  <2>1. Cardinality(shown) = Min({Top, Cardinality(gs)})
    BY DEF Shown
  <2>2. Top \in Nat /\ Cardinality(gs) \in Nat
    BY <1>1, MetricsAssumption, FS_CardinalityType
  <2>. HIDE DEF gs
  <2>3. Min({Top, Cardinality(gs)}) \in {Top, Cardinality(gs)}
    <3>1. \E x \in {Top, Cardinality(gs)} : \A y \in {Top, Cardinality(gs)} : x =< y
      BY <2>2
    <3>. QED BY <3>1 DEF Min
  <2>4. Cardinality(shown) < Top => Cardinality(shown) = Cardinality(gs)
    BY <2>1, <2>2, <2>3
  <2>. QED BY <1>1, <2>4, FS_Subset DEF gs
<1>3. ASSUME NEW g \in shown
      PROVE  g.failed \in 1 .. g.total
  <2>1. 1 \in 1 .. Hours
    <3>1. Hours \in Nat /\ Hours >= 1
      BY MetricsAssumption
    <3>. QED BY <3>1
  <2>. QED BY <1>1, <2>1, GroupFacts
<1>4. ASSUME NEW h \in 1 .. Hours
      PROVE  /\ FailuresOf(shown, h) <= Added(js, "metrics")[h].failed
             /\ Cardinality(shown) < Top => FailuresOf(shown, h) = Added(js, "metrics")[h].failed
  <2>. DEFINE hour == Failed(Bucketed(js, "metrics")[h])
              all == UNION {FailedIn(js, g, h) : g \in shown}
  <2>1. FailuresOf(shown, h) = Cardinality(all)
    BY <1>1, TrendSum
  <2>2. Added(js, "metrics")[h].failed = Cardinality(hour)
    BY DEF Added
  <2>3. all \subseteq hour
    BY <1>1, GroupFacts
  <2>4. IsFiniteSet(hour)
    <3>1. hour \in SUBSET Jobs
      BY DEF Failed, Bucketed
    <3>. HIDE DEF hour
    <3>. QED BY <3>1, CutFacts
  <2>5. ASSUME Cardinality(shown) < Top
        PROVE  hour \subseteq all
    <3>1. ASSUME NEW j \in hour PROVE \E g \in shown : j \in FailedIn(js, g, h)
      <4>. DEFINE g == Group(ended[j].kind, ended[j].error, js, "metrics")
      <4>1. j \in js /\ j \in Bucketed(js, "metrics")[h] /\ j \in Failed(js)
        BY DEF Failed, Bucketed
      <4>2. g \in shown
        BY <1>2, <2>5, <4>1 DEF Groups
      <4>3. g.kind = ended[j].kind /\ g.error = ended[j].error
        BY DEF Group
      <4>. QED BY <4>1, <4>2, <4>3 DEF FailedIn
    <3>. QED BY <3>1
  <2>. HIDE DEF hour, all
  <2>6. Cardinality(all) <= Cardinality(hour)
    BY <2>3, <2>4, FS_Subset
  <2>7. Cardinality(shown) < Top => all = hour
    BY <2>3, <2>5
  <2>. QED BY <2>1, <2>2, <2>6, <2>7
<1>. QED BY <1>0, <1>3, <1>4 DEF GroupsRight

LEMMA MetricsSteps ==
  [Next]_vars =>
    part' = part /\ ((part = "metrics" /\ (GetMetrics \/ GetActivityStats)) \/ UNCHANGED metricsVars)
BY DEF Next, vars, Cached, Alerting

LEMMA ReportMade ==
  ASSUME MetricsTyped, GetMetrics \/ GetActivityStats
  PROVE  MetricsRight'
<1>1. CASE GetMetrics
  <2>1. PICK rejected \in SUBSET JobLists :
          \E shown \in Shown(Groups(JobsRead(rejected, WindowStart("metrics")), "metrics")) :
            report' = [what |-> "metrics", read |-> JobsRead(rejected, WindowStart("metrics")),
                       groups |-> shown,
                       buckets |-> Added(JobsRead(rejected, WindowStart("metrics")), "metrics")]
    BY <1>1 DEF GetMetrics
  <2>. DEFINE js == JobsRead(rejected, WindowStart("metrics"))
  <2>2. PICK shown \in Shown(Groups(js, "metrics")) :
          report' = [what |-> "metrics", read |-> js, groups |-> shown, buckets |-> Added(js, "metrics")]
    BY <2>1
  <2>3. UNCHANGED <<ended, instant>> /\ "metrics" \in Reports
    BY <1>1 DEF GetMetrics, Reports
  <2>4. js \in SUBSET Jobs
    <3>1. 1 \in 1 .. Hours
      BY MetricsAssumption
    <3>2. WindowStart("metrics") \in Int
      BY <2>3, <3>1, HourFacts
    <3>3. js \subseteq Since(Jobs, WindowStart("metrics"))
      BY <3>2, ReadWindow
    <3>. QED BY <3>3 DEF Since
  <2>5. report'.groups = shown
    BY <2>2
  <2>6. BucketsRight'
    BY <2>2, <2>3, <2>5, BucketsAdded
  <2>. HIDE DEF js
  <2>7. GroupsRight'
    BY <2>2, <2>4, GroupsMade
  <2>. QED BY <2>6, <2>7 DEF MetricsRight
<1>2. CASE GetActivityStats
  <2>1. PICK rejected \in SUBSET JobLists :
          report' = [what |-> "activity", read |-> JobsRead(rejected, WindowStart("activity")),
                     groups |-> {},
                     buckets |-> Added(JobsRead(rejected, WindowStart("activity")), "activity")]
    BY <1>2 DEF GetActivityStats
  <2>2. UNCHANGED <<ended, instant>> /\ "activity" \in Reports /\ report'.groups = {}
    BY <1>2, <2>1 DEF GetActivityStats, Reports
  <2>3. BucketsRight'
    BY <2>1, <2>2, BucketsAdded
  <2>4. report'.what = "activity"
    BY <2>1
  <2>5. GroupsRight'
    BY <2>4 DEF GroupsRight
  <2>. QED BY <2>3, <2>5 DEF MetricsRight
<1>. QED BY <1>1, <1>2

LEMMA MetricsInvariant == Spec => []MetricsInv
<1>1. Init => MetricsInv
  <2>. SUFFICES ASSUME Init PROVE MetricsInv
    OBVIOUS
  <2>1. report = NoReport
    BY DEF Init, NoMetrics, MetricsInit
  <2>2. CASE part = "metrics"
    <3>1. MetricsInit
      BY <2>2 DEF Init
    <3>2. instant \in Nat
      BY <3>1, MetricsAssumption DEF MetricsInit
    <3>. QED BY <2>1, <3>1, <3>2
         DEF MetricsInit, MetricsInv, MetricsTyped, MetricsRight, BucketsRight, GroupsRight
  <2>. QED BY <2>1, <2>2 DEF MetricsInv, MetricsRight, BucketsRight, GroupsRight
<1>2. ASSUME MetricsInv, [Next]_vars PROVE MetricsInv'
  <2>1. part' = part
    BY <1>2, MetricsSteps
  <2>2. CASE UNCHANGED metricsVars
    <3>1. (part = "metrics" => MetricsTyped)' /\ BucketsRight'
      BY <1>2, <2>1, <2>2 DEF MetricsInv, MetricsTyped, metricsVars, Jobs, Job, MetricsRight,
         BucketsRight, Failed, EndedIn, HourStart, Whole, InList, JobLists
    <3>2. GroupsRight'
      BY <1>2, <2>2 DEF MetricsInv, MetricsRight, metricsVars, GroupsRight
    <3>. QED BY <3>1, <3>2 DEF MetricsInv, MetricsRight
  <2>3. CASE part = "metrics" /\ (GetMetrics \/ GetActivityStats)
    <3>1. MetricsTyped /\ MetricsTyped'
      BY <1>2, <2>3 DEF MetricsInv, MetricsTyped, GetMetrics, GetActivityStats, Jobs, Job
    <3>2. MetricsRight'
      BY <2>3, <3>1, ReportMade
    <3>. QED BY <3>1, <3>2 DEF MetricsInv
  <2>. QED BY <1>2, <2>2, <2>3, MetricsSteps
<1>. QED BY <1>1, <1>2, PTL DEF Spec

-----------------------------------------------------------------------------
(* Both together: what the dashboard shows of the jobs.                     *)
ListInv == IF part = "listings" THEN PagesInv ELSE NoList

LEMMA ListSteps ==
  [Next]_vars =>
    part' = part /\ ((part = "listings" /\ (NextPage \/ NextJobs)) \/ UNCHANGED listVars)
BY DEF Next, vars, Cached, Alerting

LEMMA NothingSorted == Sorted({}) = <<>>
<1>1. Cardinality({}) = 0
  BY FS_EmptySet
<1>. QED BY <1>1 DEF Sorted

(* Before the first page.                                                  *)
LEMMA PagesBegin ==
  ASSUME ListInit
  PROVE  PagesInv
<1>1. ListsRight
  BY ArrangementsRight DEF ListInit
<1>2. Runs \in Nat
  BY ListingAssumption
<1>3. /\ cursor = 0 /\ rows = <<>> /\ Len(rows) = 0 /\ rows \in Seq(1 .. Runs)
      /\ mode \in {"latest", "time", "other", "queue", "state"}
  BY DEF ListInit
<1>4. /\ matching \subseteq 1 .. Runs
      /\ mode \in {"latest", "queue"} => matching = 1 .. Runs
      /\ mode = "state" => matching = ToSet(lists[1])
  <2>1. CASE mode \in {"latest", "queue"}
    BY <2>1 DEF ListInit
  <2>2. CASE mode = "state"
    <3>1. matching = ToSet(lists[1])
      BY <2>2 DEF ListInit
    <3>2. ToSet(lists[1]) \subseteq 1 .. Runs
      BY <1>1, StateFacts, OnceSet
    <3>. QED BY <2>2, <3>1, <3>2
  <2>3. CASE mode \in {"time", "other"}
    BY <2>3 DEF ListInit
  <2>. QED BY <1>3, <2>1, <2>2, <2>3
<1>5. 0 <= Cardinality(matching) /\ SubSeq(Sorted(matching), 1, 0) = <<>>
  <2>1. Cardinality(matching) \in Nat /\ Sorted(matching) \in Seq(1 .. Runs)
    BY <1>4, MatchingFacts
  <2>. HIDE DEF Sorted
  <2>2. SubSeq(Sorted(matching), 1, 0) = <<>>
    BY <2>1, SubSeqEmpty
  <2>. QED BY <2>1, <2>2
<1>6. Once(rows, Len(rows)) /\ Among(rows, Len(rows), lists[1], 1, Len(rows))
  BY <1>3 DEF Once, Among
<1>. QED BY <1>1, <1>2, <1>3, <1>4, <1>5, <1>6 DEF PagesInv

LEMMA ListInvariant == Spec => []ListInv
<1>1. Init => ListInv
  BY PagesBegin DEF Init, ListInv
<1>2. ASSUME ListInv, [Next]_vars PROVE ListInv'
  <2>1. part' = part
    BY <1>2, ListSteps
  <2>2. CASE UNCHANGED listVars
    <3>. USE <2>2 DEF listVars
    <3>1. ListsRight' = ListsRight /\ NoList' = NoList /\ OfWhole' = OfWhole
      BY DEF ListsRight, NoList, OfWhole, AllOrdered, Ordered
    <3>2. PagesInv => PagesInv'
      <4>. SUFFICES ASSUME PagesInv PROVE PagesInv'
        OBVIOUS
      <4>1. Sorted(matching)' = Sorted(matching) /\ ToSet(lists[1])' = ToSet(lists[1])
        OBVIOUS
      <4>. QED BY <3>1, <4>1 DEF PagesInv, Once, Among
    <3>. QED BY <1>2, <2>1, <3>1, <3>2 DEF ListInv
  <2>3. CASE part = "listings" /\ (NextPage \/ NextJobs)
    <3>1. PagesInv
      BY <1>2, <2>3 DEF ListInv
    <3>2. PagesInv'
      BY <2>3, <3>1, NextPageInv, NextJobsInv
    <3>. QED BY <2>1, <2>3, <3>2 DEF ListInv
  <2>. QED BY <1>2, <2>2, <2>3, ListSteps
<1>. QED BY <1>1, <1>2, PTL DEF Spec

LEMMA PagesShown == ListInv => PagesRight
<1>. SUFFICES ASSUME ListInv PROVE PagesRight
  OBVIOUS
<1>1. Runs \in Nat
  BY ListingAssumption
<1>2. CASE part = "listings"
  <2>1. PagesInv
    BY <1>2 DEF ListInv
  <2>2. Len(rows) \in Nat /\ DOMAIN rows = 1 .. Len(rows) /\ Cardinality(matching) \in Nat
    BY <2>1, MatchingFacts, LenProperties DEF PagesInv
  <2>3. PagesOfWhole
    BY <2>1 DEF PagesInv, PagesOfWhole, OfWhole
  <2>4. PagesEnd
    <3>. DEFINE shown == Len(rows)
                all == Cardinality(matching)
    <3>1. /\ cursor \in Nat /\ shown \in Nat /\ all \in Nat
          /\ cursor <= Runs => shown = cursor /\ cursor <= all
          /\ cursor > Runs => shown = all
      BY <2>1, <2>2 DEF PagesInv
    <3>2. shown <= all /\ (cursor > Runs => shown = all)
      <4>. HIDE DEF shown, all
      <4>. QED BY <1>1, <3>1
    <3>. QED BY <3>2 DEF PagesEnd
  <2>5. mode = "state" => Distinct
    <3>1. mode = "state" => \A i, k \in 1 .. Len(rows) : rows[i] = rows[k] => i = k
      BY ONLY <2>1 DEF PagesInv, Once
    <3>. QED BY ONLY <2>2, <3>1 DEF Distinct
  <2>. QED BY <2>3, <2>4, <2>5 DEF PagesRight
<1>3. CASE part # "listings"
  <2>1. matching = {} /\ mode = "latest" /\ cursor = 0 /\ rows = <<>>
    BY <1>3 DEF ListInv, NoList
  <2>2. Len(rows) = 0 /\ Cardinality(matching) = 0
    BY <2>1, FS_EmptySet
  <2>3. PagesOfWhole
    <3>1. rows = SubSeq(Sorted(matching), 1, 0)
      BY <2>1, NothingSorted
    <3>. QED BY <2>2, <3>1 DEF PagesOfWhole
  <2>. QED BY <1>1, <2>1, <2>2, <2>3 DEF PagesRight, PagesEnd
<1>. QED BY <1>2, <1>3

(* What the dashboard shows of the jobs is what the lists hold, whatever the  *)
(* jobs, the lists and their limits: pages that are put together from the    *)
(* prefixes of lists are the pages of the whole and come to its end          *)
(* (queue-manager.ts: getLatestRuns, getAllRuns, getJobs); each bucket of the  *)
(* metrics counts what ended in its hour, and the groups of the failures add *)
(* up to the buckets (getMetrics, getActivityStats).                         *)
THEOREM ViewsRightCorrect == Spec => []ViewsRight
<1>1. ListInv /\ MetricsInv => ViewsRight
  BY PagesShown DEF MetricsInv, ViewsRight
<1>. QED BY <1>1, ListInvariant, MetricsInvariant, PTL
=============================================================================
