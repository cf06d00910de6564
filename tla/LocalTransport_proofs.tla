------------------------- MODULE LocalTransport_proofs -------------------------
(***************************************************************************)
(* What the in-process transport guarantees for any jobs, flows, queues,    *)
(* consumers, handles and attempts, and what the world around it does.      *)
(***************************************************************************)
EXTENDS LocalWorld, FiniteSetTheorems, WellFoundedInduction, TLAPS

-----------------------------------------------------------------------------
(* The invariants, of a memory m: they hold between the parts of a step,    *)
(* too.                                                                    *)

Born(m, j, i) == m.rec[j][i].state # "unborn"
Insertions == 1 .. MaxEnqueues

(* The records of an id are made one after the other, and the map has the   *)
(* last one or none.                                                       *)
InTurn(m) ==
  \A j \in Jobs : \E b \in 0 .. MaxEnqueues :
    m.held[j] \in {0, b} /\ \A i \in Insertions : Born(m, j, i) <=> i <= b

(* The order in which they were made tells them apart.                      *)
Numbered(m) ==
  /\ \A j \in Jobs, i \in Insertions : Born(m, j, i) => m.rec[j][i].seq < m.seq
  /\ \A j, k \in Jobs, i, l \in Insertions :
       Born(m, j, i) /\ Born(m, k, l) /\ m.rec[j][i].seq = m.rec[k][l].seq => j = k /\ i = l

(* Only a delay has a timer, and what waits for children has some to wait for. *)
Timed(m) ==
  \A j \in Jobs, i \in Insertions :
    /\ m.rec[j][i].timer => m.rec[j][i].state = "delayed"
    /\ m.rec[j][i].state = "waiting-children" => m.rec[j][i].pending > 0

(* A handler runs for an active record and is its latest attempt.           *)
Tries(m, a) ==
  /\ a.inc \in Insertions /\ Born(m, a.job, a.inc)
  /\ a.phase = "process" =>
       m.rec[a.job][a.inc].state = "active" /\ a.number = m.rec[a.job][a.inc].made
  /\ a.phase = "callback" => a.number < m.rec[a.job][a.inc].made
Trying(m) ==
  /\ IsFiniteSet(m.attempts)
  /\ \A a \in m.attempts : Tries(m, a)
  /\ \A a, b \in m.attempts : Ref(a) = Ref(b) /\ a.number = b.number => a = b

(* The slots in use, one more for each consumer of X.                       *)
Of(m, c) == {a \in m.attempts : a.cons = c}
Slots(m, X) ==
  \A c \in Consumers :
    m.active[c] <= Concurrency /\ m.active[c] = Cardinality(Of(m, c)) + (IF c \in X THEN 1 ELSE 0)

(* What is in the map will go on: by its timer or its handler.               *)
Moving(m, open) ==
  \A j \in Held(m) :
    /\ The(m, j).state = "delayed" /\ open => The(m, j).timer
    /\ The(m, j).state = "active" => \E a \in m.attempts : Ref(a) = <<j, m.held[j]>> /\ a.phase = "process"

Sound(m, X, open) ==
  m \in Memory /\ InTurn(m) /\ Numbered(m) /\ Timed(m) /\ Trying(m) /\ Slots(m, X) /\ Moving(m, open)

(* No job waits for a slot that is free, but for those of J.                 *)
Filled(m, ph, J) ==
  \A c \in Consumers : ph[c] = "open" => Free(m, c) = 0 \/ Waiting(m, ServedBy[c]) \subseteq J

OneOpen(ph) == \A c, d \in Consumers : ph[c] = "open" /\ ph[d] = "open" /\ ServedBy[c] = ServedBy[d] => c = d

(* What a step adds to the memory is in the map, and what was there stays.   *)
Kept(m, n) ==
  /\ \A j \in Jobs : m.held[j] # 0 => n.held[j] = m.held[j]
  /\ \A a \in n.attempts : a \in m.attempts \/ n.held[a.job] = a.inc

(* Only a job that a handle removed is still tried.                          *)
Astray(m, gone) ==
  \A a \in m.attempts :
    a.phase = "process" /\ m.held[a.job] # a.inc => \E i \in Insertions : <<a.job, i>> \in gone

TransportInv ==
  /\ TypeOK /\ Sound(mem, {}, transport = "open")
  /\ OneOpen(phase) /\ Filled(mem, phase, {}) /\ Astray(mem, removed)

-----------------------------------------------------------------------------
(* Facts about sets of numbers, records and edits of the memory.            *)

(* A set of naturals has a least element.                                   *)
LEMMA Least ==
  ASSUME NEW T, T \subseteq Nat, T # {}
  PROVE  \E t \in T : \A s \in T : t <= s
<1>1. \E x \in T : \A y \in T : ~ (<<y, x>> \in OpToRel(<, Nat))
  BY NatLessThanWellFounded, WFMin, Zenon
<1>2. PICK x \in T : \A y \in T : ~ (<<y, x>> \in OpToRel(<, Nat))
  BY <1>1
<1>3. \A y \in T : ~ (y < x)
  BY <1>2, Zenon DEF OpToRel
<1>. QED BY <1>3

LEMMA MemFacts ==
  ASSUME NEW m \in Memory
  PROVE  /\ m.held \in [Jobs -> 0 .. MaxEnqueues] /\ m.rec \in [Jobs -> [Insertions -> Record]]
         /\ m.seq \in Nat /\ m.active \in [Consumers -> Nat] /\ m.attempts \subseteq Attempt
         /\ \A j \in Jobs : m.held[j] \in 0 .. MaxEnqueues /\ (m.held[j] # 0 => m.held[j] \in Insertions)
         /\ \A j \in Jobs, i \in Insertions : m.rec[j][i] \in Record
BY ConstantsAssumption DEF Memory, Insertions

LEMMA RecordFacts ==
  ASSUME NEW r \in Record
  PROVE  /\ r.state \in {"unborn", "delayed", "waiting", "waiting-children", "active"}
         /\ r.made \in Nat /\ r.seq \in Nat /\ r.timer \in BOOLEAN
         /\ r.parent \in Refs \cup {None} /\ r.pending \in Nat
BY DEF Record

LEMMA AttemptFacts ==
  ASSUME NEW a \in Attempt
  PROVE  /\ a.job \in Jobs /\ a.inc \in Nat /\ a.cons \in Consumers /\ a.number \in Nat
         /\ a.phase \in {"process", "callback"} /\ a.ok \in BOOLEAN /\ a.done \in BOOLEAN
BY DEF Attempt

(* A memory whose record <<j, i>> is R.                                     *)
Put(m, j, i, R) == [m EXCEPT !.rec[j][i] = R]

LEMMA PutFacts ==
  ASSUME NEW m \in Memory, NEW j \in Jobs, NEW i \in Insertions, NEW R \in Record
  PROVE  /\ Put(m, j, i, R) \in Memory
         /\ Put(m, j, i, R).held = m.held /\ Put(m, j, i, R).seq = m.seq
         /\ Put(m, j, i, R).active = m.active /\ Put(m, j, i, R).attempts = m.attempts
         /\ \A k \in Jobs, l \in Insertions :
              Put(m, j, i, R).rec[k][l] = IF k = j /\ l = i THEN R ELSE m.rec[k][l]
<1>. DEFINE rec == [m.rec EXCEPT ![j] = [m.rec[j] EXCEPT ![i] = R]]
<1>1. Put(m, j, i, R) = [m EXCEPT !.rec = rec]
  BY DEF Put
<1>2. rec \in [Jobs -> [Insertions -> Record]]
  BY MemFacts
<1>3. \A k \in Jobs, l \in Insertions : rec[k][l] = IF k = j /\ l = i THEN R ELSE m.rec[k][l]
  BY MemFacts
<1>. HIDE DEF rec
<1>4. [m EXCEPT !.rec = rec] \in Memory
  BY <1>2 DEF Memory, Insertions
<1>5. /\ [m EXCEPT !.rec = rec].held = m.held /\ [m EXCEPT !.rec = rec].seq = m.seq
      /\ [m EXCEPT !.rec = rec].active = m.active /\ [m EXCEPT !.rec = rec].attempts = m.attempts
      /\ [m EXCEPT !.rec = rec].rec = rec
  BY DEF Memory
<1>. QED BY <1>1, <1>3, <1>4, <1>5

LEMMA EditFacts ==
  ASSUME NEW R \in Record, NEW s \in {"delayed", "waiting", "waiting-children", "active"},
         NEW t \in BOOLEAN, NEW n \in Nat, NEW p \in Refs \cup {None}, NEW q \in Nat
  PROVE  /\ [R EXCEPT !.state = s] \in Record /\ [R EXCEPT !.state = s, !.timer = t] \in Record
         /\ [R EXCEPT !.timer = t] \in Record /\ [R EXCEPT !.pending = n] \in Record
         /\ [R EXCEPT !.made = n] \in Record
         /\ [state |-> s, made |-> 0, seq |-> q, timer |-> FALSE, parent |-> p, pending |-> n] \in Record
BY DEF Record

(* The edits of one record that the operators make.                         *)
LEMMA EditsPut ==
  ASSUME NEW m \in Memory, NEW j \in Jobs, NEW i \in Insertions, NEW s, NEW t, NEW n
  PROVE  /\ [m EXCEPT !.rec[j][i].state = s] = Put(m, j, i, [m.rec[j][i] EXCEPT !.state = s])
         /\ [m EXCEPT !.rec[j][i].timer = t] = Put(m, j, i, [m.rec[j][i] EXCEPT !.timer = t])
         /\ [m EXCEPT !.rec[j][i].pending = n] = Put(m, j, i, [m.rec[j][i] EXCEPT !.pending = n])
         /\ [m EXCEPT !.rec[j][i] = [@ EXCEPT !.state = s, !.timer = t]]
              = Put(m, j, i, [m.rec[j][i] EXCEPT !.state = s, !.timer = t])
BY DEF Put

Fired(m, j, i) == [m EXCEPT !.rec[j][i].timer = FALSE, !.rec[j][i].state = "waiting"]

LEMMA TimerPut ==
  ASSUME NEW m \in Memory, NEW j \in Jobs, NEW i \in Insertions
  PROVE  Fired(m, j, i)
           = Put(m, j, i, [m.rec[j][i] EXCEPT !.timer = FALSE, !.state = "waiting"])
<1>1. /\ m.rec[j] = [k \in DOMAIN m.rec[j] |-> m.rec[j][k]]
      /\ j \in DOMAIN m.rec /\ i \in DOMAIN m.rec[j]
  BY MemFacts
<1>. QED BY <1>1, ZenonT(60) DEF Put, Fired

Backoff(R, t) == [R EXCEPT !.state = "delayed", !.timer = t]
Backed(m, j, i, t) == [m EXCEPT !.rec[j][i].state = "delayed", !.rec[j][i].timer = t]

LEMMA BackedPut ==
  ASSUME NEW m \in Memory, NEW j \in Jobs, NEW i \in Insertions, NEW t
  PROVE  Backed(m, j, i, t) = Put(m, j, i, Backoff(m.rec[j][i], t))
<1>1. /\ m.rec[j] = [k \in DOMAIN m.rec[j] |-> m.rec[j][k]]
      /\ j \in DOMAIN m.rec /\ i \in DOMAIN m.rec[j]
  BY MemFacts
<1>. QED BY <1>1, ZenonT(60) DEF Put, Backed, Backoff

(* How many records of an id there are.                                     *)
LEMMA BirthsFacts ==
  ASSUME NEW m \in Memory, InTurn(m), NEW j \in Jobs
  PROVE  /\ Births(m, j) \in 0 .. MaxEnqueues /\ m.held[j] \in {0, Births(m, j)}
         /\ \A i \in Insertions : Born(m, j, i) <=> i <= Births(m, j)
<1>1. PICK b \in 0 .. MaxEnqueues : /\ m.held[j] \in {0, b}
                                    /\ \A i \in Insertions : Born(m, j, i) <=> i <= b
  BY DEF InTurn
<1>2. {i \in 1 .. MaxEnqueues : m.rec[j][i].state # "unborn"} = 1 .. b
  BY <1>1, ConstantsAssumption DEF Born, Insertions
<1>3. Cardinality(1 .. b) = b
  BY FS_Interval
<1>. QED BY <1>1, <1>2, <1>3 DEF Births

-----------------------------------------------------------------------------
(* nextWaiting: the order is total, so that there is a first job of every   *)
(* set and there are the first n of it.                                    *)
LEMMA HeldFacts ==
  ASSUME NEW m \in Memory, InTurn(m), NEW j \in Held(m)
  PROVE  j \in Jobs /\ m.held[j] \in Insertions /\ Born(m, j, m.held[j]) /\ The(m, j) \in Record
<1>1. j \in Jobs /\ m.held[j] # 0 /\ m.held[j] \in Insertions
  BY MemFacts DEF Held
<1>2. Born(m, j, m.held[j])
  BY <1>1, BirthsFacts
<1>. QED BY <1>1, <1>2, MemFacts DEF The

LEMMA Earliest ==
  ASSUME NEW m \in Memory, InTurn(m), Numbered(m), NEW S \in SUBSET Held(m), S # {}
  PROVE  \E x \in S : \A j \in S : j # x => Before(m, x, j)
<1>. DEFINE ranks == {Rank[i] : i \in S}
<1>1. ranks \subseteq Nat /\ ranks # {}
  BY ConstantsAssumption DEF Held
<1>2. PICK r \in ranks : \A s \in ranks : r <= s
  BY <1>1, Least
<1>. DEFINE tied == {i \in S : Rank[i] = r}
            seqs == {The(m, i).seq : i \in tied}
<1>3. \A i \in S : The(m, i).seq \in Nat /\ Rank[i] \in Nat /\ r <= Rank[i]
  BY <1>2, HeldFacts, RecordFacts, ConstantsAssumption
<1>4. seqs \subseteq Nat /\ seqs # {}
  BY <1>2, <1>3
<1>5. PICK q \in seqs : \A s \in seqs : q <= s
  BY <1>4, Least
<1>6. PICK x \in tied : The(m, x).seq = q
  BY <1>5
<1>7. ASSUME NEW j \in S, j # x PROVE Before(m, x, j)
  <2>1. CASE j \in tied
    <3>1. The(m, j).seq # The(m, x).seq
      BY <1>6, <1>7, HeldFacts DEF Numbered, The
    <3>2. q <= The(m, j).seq
      BY <1>5, <2>1
    <3>. QED BY <1>3, <1>6, <2>1, <3>1, <3>2 DEF Before
  <2>2. CASE j \notin tied
    BY <1>3, <1>6, <2>2 DEF Before
  <2>. QED BY <2>1, <2>2
<1>. QED BY <1>6, <1>7

LEMMA FirstFacts ==
  ASSUME NEW m \in Memory, InTurn(m), Numbered(m), NEW S \in SUBSET Held(m), NEW n \in Nat
  PROVE  /\ First(m, S, n) \in SUBSET S /\ IsFiniteSet(S)
         /\ Cardinality(First(m, S, n)) = IF n < Cardinality(S) THEN n ELSE Cardinality(S)
<1>. DEFINE Good(T, k) == /\ Cardinality(T) = IF k < Cardinality(S) THEN k ELSE Cardinality(S)
                          /\ \A i \in T, j \in S \ T : Before(m, i, j)
            bad == {k \in Nat : \A T \in SUBSET S : ~Good(T, k)}
<1>1. IsFiniteSet(S) /\ Cardinality(S) \in Nat
  BY ConstantsAssumption, FS_Subset, FS_CardinalityType DEF Held
<1>2. ASSUME NEW k \in bad, \A l \in bad : k <= l PROVE FALSE
  <2>1. CASE k = 0
    <3>1. Good({}, 0)
      BY <1>1, FS_EmptySet
    <3>. QED BY <1>2, <2>1, <3>1
  <2>2. CASE k # 0
    <3>1. k - 1 \in Nat /\ k - 1 \notin bad
      BY <1>2, <2>2
    <3>2. PICK T \in SUBSET S : Good(T, k - 1)
      BY <3>1
    <3>3. IsFiniteSet(T) /\ Cardinality(T) \in Nat
      BY <1>1, FS_Subset, FS_CardinalityType
    <3>4. CASE S \ T = {}
      <4>1. T = S
        BY <3>4
      <4>2. Good(T, k)
        BY <1>1, <1>2, <2>2, <3>2, <4>1
      <4>. QED BY <1>2, <4>2
    <3>5. CASE S \ T # {}
      <4>1. S \ T \in SUBSET Held(m)
        OBVIOUS
      <4>2. PICK x \in S \ T : \A j \in S \ T : j # x => Before(m, x, j)
        BY <3>5, <4>1, Earliest
      <4>3. Cardinality(T \cup {x}) = Cardinality(T) + 1
        BY <3>3, <4>2, FS_AddElement
      <4>4. Cardinality(T) # Cardinality(S)
        BY <1>1, <3>5, FS_Subset
      <4>5. Cardinality(T \cup {x}) = IF k < Cardinality(S) THEN k ELSE Cardinality(S)
        BY <1>1, <1>2, <2>2, <3>2, <3>3, <4>3, <4>4
      <4>6. \A i \in T \cup {x}, j \in S \ (T \cup {x}) : Before(m, i, j)
        BY <3>2, <4>2
      <4>7. Good(T \cup {x}, k) /\ T \cup {x} \in SUBSET S
        BY <4>2, <4>5, <4>6
      <4>. QED BY <1>2, <4>7
    <3>. QED BY <3>4, <3>5
  <2>. QED BY <2>1, <2>2
<1>3. bad = {}
  <2>. SUFFICES ASSUME bad # {} PROVE FALSE
    OBVIOUS
  <2>1. bad \subseteq Nat
    OBVIOUS
  <2>2. PICK k \in bad : \A l \in bad : k <= l
    BY <2>1, Least
  <2>. QED BY <1>2, <2>2
<1>4. \E T \in SUBSET S : Good(T, n)
  BY <1>3
<1>5. First(m, S, n) = CHOOSE T \in SUBSET S : Good(T, n)
  BY DEF First
<1>. HIDE DEF Good
<1>6. First(m, S, n) \in SUBSET S /\ Good(First(m, S, n), n)
  BY <1>4, <1>5
<1>. QED BY <1>1, <1>6 DEF Good

-----------------------------------------------------------------------------
(* pump.                                                                   *)
Try(m, j, c) == [job |-> j, inc |-> m.held[j], cons |-> c, number |-> The(m, j).made,
                 phase |-> "process", ok |-> FALSE, done |-> FALSE]
Tried(m, T, c) == {Try(m, j, c) : j \in T}

(* What pump, admit and a retry leave alone of memory m: they start jobs of  *)
(* the map, and move those that wait.                                      *)
Carried(m, n) ==
  /\ n \in Memory /\ n.held = m.held /\ n.seq = m.seq
  /\ \A j \in Jobs, i \in Insertions :
       /\ n.rec[j][i].parent = m.rec[j][i].parent /\ n.rec[j][i].made = m.rec[j][i].made
       /\ n.rec[j][i].seq = m.rec[j][i].seq /\ n.rec[j][i].pending = m.rec[j][i].pending
       /\ n.rec[j][i].state = "waiting-children" <=> m.rec[j][i].state = "waiting-children"
       /\ Born(n, j, i) <=> Born(m, j, i)
       /\ m.rec[j][i].state = "active" => n.rec[j][i].state = "active"
  /\ m.attempts \subseteq n.attempts
  /\ \A a \in n.attempts \ m.attempts :
       a.phase = "process" /\ ~a.ok /\ ~a.done /\ a.job \in Held(m) /\ a.inc = m.held[a.job]

LEMMA TryFacts ==
  ASSUME NEW m \in Memory, InTurn(m), NEW j \in Held(m), NEW c \in Consumers
  PROVE  /\ Try(m, j, c) \in Attempt /\ Try(m, j, c).job = j /\ Try(m, j, c).inc = m.held[j]
         /\ Try(m, j, c).cons = c /\ Try(m, j, c).number = The(m, j).made
         /\ Try(m, j, c).phase = "process" /\ ~Try(m, j, c).ok /\ ~Try(m, j, c).done
<1>1. j \in Jobs /\ m.held[j] \in Nat /\ The(m, j).made \in Nat
  BY HeldFacts, RecordFacts DEF Insertions
<1>. QED BY <1>1 DEF Try, Attempt

LEMMA StartedFacts ==
  ASSUME NEW m \in Memory, InTurn(m), NEW T \in SUBSET Held(m), NEW c \in Consumers, IsFiniteSet(T)
  PROVE  /\ Started(m, T, c) \in Memory
         /\ Started(m, T, c).held = m.held /\ Started(m, T, c).seq = m.seq
         /\ \A d \in Consumers : Started(m, T, c).active[d] =
              IF d = c THEN m.active[d] + Cardinality(T) ELSE m.active[d]
         /\ Started(m, T, c).attempts = m.attempts \cup Tried(m, T, c)
         /\ \A k \in Jobs, l \in Insertions : Started(m, T, c).rec[k][l] =
              IF k \in T /\ l = m.held[k] THEN [m.rec[k][l] EXCEPT !.state = "active"] ELSE m.rec[k][l]
<1>. DEFINE rec == [j \in Jobs |-> IF j \in T THEN [m.rec[j] EXCEPT ![m.held[j]].state = "active"] ELSE m.rec[j]]
            active == [m.active EXCEPT ![c] = m.active[c] + Cardinality(T)]
            attempts == m.attempts \cup Tried(m, T, c)
<1>1. Started(m, T, c) = [m EXCEPT !.rec = rec, !.active = active, !.attempts = attempts]
  BY DEF Started, Tried, Try
<1>2. \A k \in Jobs, l \in Insertions : rec[k][l] =
        IF k \in T /\ l = m.held[k] THEN [m.rec[k][l] EXCEPT !.state = "active"] ELSE m.rec[k][l]
  BY MemFacts
<1>3. rec \in [Jobs -> [Insertions -> Record]]
  <2>1. ASSUME NEW k \in Jobs PROVE rec[k] \in [Insertions -> Record]
    <3>1. CASE k \in T
      <4>1. m.rec[k] \in [Insertions -> Record] /\ m.held[k] \in Insertions
        BY <3>1, MemFacts, HeldFacts
      <4>2. [m.rec[k][m.held[k]] EXCEPT !.state = "active"] \in Record
        BY <4>1 DEF Record
      <4>3. rec[k] = [m.rec[k] EXCEPT ![m.held[k]] = [m.rec[k][m.held[k]] EXCEPT !.state = "active"]]
        BY <3>1
      <4>. QED BY <4>1, <4>2, <4>3
    <3>2. CASE k \notin T
      BY <3>2, MemFacts
    <3>. QED BY <3>1, <3>2
  <2>. QED BY <2>1
<1>4. active \in [Consumers -> Nat] /\ Cardinality(T) \in Nat
  BY MemFacts, FS_CardinalityType
<1>5. attempts \subseteq Attempt
  BY MemFacts, TryFacts DEF Tried
<1>6. \A d \in Consumers : active[d] = IF d = c THEN m.active[d] + Cardinality(T) ELSE m.active[d]
  BY MemFacts
<1>. HIDE DEF rec, active, attempts
<1>. DEFINE e == [m EXCEPT !.rec = rec, !.active = active, !.attempts = attempts]
<1>7. /\ e \in Memory /\ e.held = m.held /\ e.seq = m.seq /\ e.rec = rec /\ e.active = active
      /\ e.attempts = attempts
  BY <1>3, <1>4, <1>5 DEF Memory, Insertions
<1>. HIDE DEF e
<1>. QED BY <1>1, <1>2, <1>6, <1>7 DEF e, attempts

LEMMA TriedFacts ==
  ASSUME NEW m \in Memory, InTurn(m), NEW T \in SUBSET Held(m), NEW c \in Consumers, IsFiniteSet(T)
  PROVE  IsFiniteSet(Tried(m, T, c)) /\ Cardinality(Tried(m, T, c)) = Cardinality(T)
<1>. DEFINE f == [j \in T |-> Try(m, j, c)]
<1>1. \A j \in T : Try(m, j, c).job = j
  BY TryFacts
<1>2. f \in Bijection(T, Tried(m, T, c))
  BY <1>1 DEF Tried, Bijection, Injection, Surjection, IsInjective
<1>. QED BY <1>2, FS_Bijection DEF ExistsBijection

LEMMA StartedSound ==
  ASSUME NEW m, NEW X, NEW open, Sound(m, X, open), NEW c \in Consumers,
         NEW T \in SUBSET Held(m), \A j \in T : The(m, j).state = "waiting",
         IsFiniteSet(T), Cardinality(T) <= Free(m, c)
  PROVE  /\ Sound(Started(m, T, c), X, open) /\ Carried(m, Started(m, T, c))
         /\ \A j \in Jobs : Started(m, T, c).held[j] # 0 =>
              The(Started(m, T, c), j).state = IF j \in T THEN "active" ELSE The(m, j).state
<1>. DEFINE e == Started(m, T, c)
<1>0. m \in Memory /\ InTurn(m) /\ Numbered(m) /\ Timed(m) /\ Trying(m) /\ Slots(m, X) /\ Moving(m, open)
  BY DEF Sound
<1>1. /\ e \in Memory /\ e.held = m.held /\ e.seq = m.seq
      /\ \A d \in Consumers : e.active[d] = IF d = c THEN m.active[d] + Cardinality(T) ELSE m.active[d]
      /\ e.attempts = m.attempts \cup Tried(m, T, c)
      /\ \A k \in Jobs, l \in Insertions : e.rec[k][l] =
              IF k \in T /\ l = m.held[k] THEN [m.rec[k][l] EXCEPT !.state = "active"] ELSE m.rec[k][l]
  BY <1>0, StartedFacts
<1>. HIDE DEF e
<1>2. \A k \in Jobs, l \in Insertions :
        /\ e.rec[k][l].parent = m.rec[k][l].parent /\ e.rec[k][l].pending = m.rec[k][l].pending
        /\ e.rec[k][l].made = m.rec[k][l].made /\ e.rec[k][l].seq = m.rec[k][l].seq
        /\ e.rec[k][l].timer = m.rec[k][l].timer
        /\ e.rec[k][l].state = IF k \in T /\ l = m.held[k] THEN "active" ELSE m.rec[k][l].state
  <2>. SUFFICES ASSUME NEW k \in Jobs, NEW l \in Insertions
                PROVE  /\ e.rec[k][l].parent = m.rec[k][l].parent /\ e.rec[k][l].pending = m.rec[k][l].pending
                       /\ e.rec[k][l].made = m.rec[k][l].made /\ e.rec[k][l].seq = m.rec[k][l].seq
                       /\ e.rec[k][l].timer = m.rec[k][l].timer
                       /\ e.rec[k][l].state = IF k \in T /\ l = m.held[k] THEN "active" ELSE m.rec[k][l].state
    OBVIOUS
  <2>1. m.rec[k][l] \in Record
    BY <1>0, MemFacts
  <2>2. CASE k \in T /\ l = m.held[k]
    <3>1. e.rec[k][l] = [m.rec[k][l] EXCEPT !.state = "active"]
      BY <1>1, <2>2
    <3>. QED BY <2>1, <2>2, <3>1 DEF Record
  <2>3. CASE ~(k \in T /\ l = m.held[k])
    BY <1>1, <2>3
  <2>. QED BY <2>2, <2>3
<1>3. \A k \in T : k \in Jobs /\ m.held[k] \in Insertions /\ m.rec[k][m.held[k]].state = "waiting"
  BY <1>0, HeldFacts DEF The
<1>4. \A k \in Jobs, l \in Insertions : Born(e, k, l) <=> Born(m, k, l)
  BY <1>2, <1>3 DEF Born
<1>5. \A a \in Tried(m, T, c) :
        /\ a.job \in T /\ a.inc = m.held[a.job] /\ a.cons = c /\ a.number = The(m, a.job).made
        /\ a.phase = "process" /\ ~a.ok /\ ~a.done
  BY <1>0, TryFacts DEF Tried
<1>6. InTurn(e) /\ Numbered(e)
  BY <1>0, <1>1, <1>2, <1>4 DEF InTurn, Numbered
<1>7. Timed(e)
  BY <1>0, <1>2, <1>3 DEF Timed
<1>8. IsFiniteSet(Tried(m, T, c)) /\ Cardinality(Tried(m, T, c)) = Cardinality(T) /\ Cardinality(T) \in Nat
  BY <1>0, TriedFacts, FS_CardinalityType
<1>9. \A a \in m.attempts : a.job \in Jobs /\ a.inc \in Insertions /\ Tries(m, a) /\ Tries(e, a)
  <2>. SUFFICES ASSUME NEW a \in m.attempts PROVE a.job \in Jobs /\ a.inc \in Insertions /\ Tries(m, a) /\ Tries(e, a)
    OBVIOUS
  <2>1. Tries(m, a) /\ a.job \in Jobs /\ a.inc \in Insertions
    BY <1>0, MemFacts, AttemptFacts DEF Trying, Tries
  <2>. QED BY <1>2, <1>4, <2>1 DEF Tries
<1>10. \A a \in Tried(m, T, c) : Tries(e, a)
  <2>. SUFFICES ASSUME NEW a \in Tried(m, T, c) PROVE Tries(e, a)
    OBVIOUS
  <2>1. /\ a.job \in T /\ a.inc = m.held[a.job] /\ a.phase = "process"
        /\ a.number = m.rec[a.job][a.inc].made
    BY <1>5 DEF The
  <2>2. a.job \in Jobs /\ a.inc \in Insertions /\ Born(m, a.job, a.inc)
    BY <1>0, <2>1, HeldFacts
  <2>. QED BY <1>2, <1>4, <2>1, <2>2 DEF Tries
<1>11. \A a \in m.attempts, b \in Tried(m, T, c) : ~(Ref(a) = Ref(b) /\ a.number = b.number)
  <2>. SUFFICES ASSUME NEW a \in m.attempts, NEW b \in Tried(m, T, c), Ref(a) = Ref(b), a.number = b.number
                PROVE  FALSE
    OBVIOUS
  <2>1. a.job = b.job /\ a.inc = b.inc /\ a.phase \in {"process", "callback"}
    BY <1>0, MemFacts, AttemptFacts DEF Ref
  <2>2. m.rec[a.job][a.inc].state = "waiting" /\ a.number = m.rec[a.job][a.inc].made
    BY <1>3, <1>5, <2>1 DEF The
  <2>3. a.job \in Jobs /\ a.inc \in Insertions /\ a.number \in Nat
    BY <1>0, <1>9, MemFacts, AttemptFacts
  <2>4. Tries(m, a)
    BY <1>9
  <2>5. CASE a.phase = "process"
    BY <2>2, <2>4, <2>5 DEF Tries
  <2>6. CASE a.phase = "callback"
    BY <2>2, <2>3, <2>4, <2>6 DEF Tries
  <2>. QED BY <2>1, <2>5, <2>6
<1>12. Trying(e)
  <2>1. IsFiniteSet(m.attempts \cup Tried(m, T, c))
    <3>1. IsFiniteSet(m.attempts)
      BY <1>0 DEF Trying
    <3>. QED BY <1>8, <3>1, FS_Union
  <2>4. IsFiniteSet(e.attempts)
    BY <1>1, <2>1
  <2>2. \A a, b \in Tried(m, T, c) : Ref(a) = Ref(b) => a = b
    BY <1>0, TryFacts DEF Tried, Ref
  <2>. QED BY <1>0, <1>1, <1>9, <1>10, <1>11, <2>2, <2>4 DEF Trying
<1>13. Slots(e, X)
  <2>. SUFFICES ASSUME NEW d \in Consumers
                PROVE  e.active[d] <= Concurrency /\ e.active[d] = Cardinality(Of(e, d)) + (IF d \in X THEN 1 ELSE 0)
    BY DEF Slots
  <2>0. /\ m.active[d] <= Concurrency /\ m.active[d] = Cardinality(Of(m, d)) + (IF d \in X THEN 1 ELSE 0)
        /\ m.active[d] \in Nat /\ Concurrency \in Nat
    BY <1>0, MemFacts, ConstantsAssumption DEF Slots
  <2>1. IsFiniteSet(Of(m, d)) /\ Cardinality(Of(m, d)) \in Nat
    BY <1>0, FS_Subset, FS_CardinalityType DEF Of, Trying
  <2>2. CASE d = c
    <3>1. Of(e, d) = Of(m, d) \cup Tried(m, T, c)
      BY <1>1, <1>5, <2>2 DEF Of
    <3>2. Of(m, d) \cap Tried(m, T, c) = {}
      BY <1>11 DEF Of
    <3>3. Cardinality(Of(e, d)) = Cardinality(Of(m, d)) + Cardinality(T)
      <4>1. /\ IsFiniteSet(Of(m, d) \cap Tried(m, T, c))
            /\ Cardinality(Of(m, d) \cup Tried(m, T, c))
                 = Cardinality(Of(m, d)) + Cardinality(Tried(m, T, c)) - Cardinality(Of(m, d) \cap Tried(m, T, c))
        BY <1>8, <2>1, FS_Union, FS_EmptySet, <3>2
      <4>2. Cardinality(Of(m, d) \cap Tried(m, T, c)) = 0
        BY <3>2, FS_EmptySet
      <4>. QED BY <1>8, <2>1, <3>1, <4>1, <4>2
    <3>4. Cardinality(T) <= IF m.active[d] < Concurrency THEN Concurrency - m.active[d] ELSE 0
      BY <2>2 DEF Free
    <3>. QED BY <1>1, <1>8, <2>0, <2>1, <2>2, <3>3, <3>4
  <2>3. CASE d # c
    <3>1. Of(e, d) = Of(m, d)
      BY <1>1, <1>5, <2>3 DEF Of
    <3>. QED BY <1>1, <2>0, <2>3, <3>1
  <2>. QED BY <2>2, <2>3
<1>14. \A j \in Jobs : e.held[j] # 0 =>
         /\ The(e, j).state = IF j \in T THEN "active" ELSE The(m, j).state
         /\ The(e, j).timer = The(m, j).timer /\ m.held[j] \in Insertions
  BY <1>0, <1>1, <1>2, MemFacts DEF The
<1>15. Moving(e, open)
  <2>. SUFFICES ASSUME NEW j \in Held(e)
                PROVE  /\ The(e, j).state = "delayed" /\ open => The(e, j).timer
                       /\ The(e, j).state = "active" =>
                            \E a \in e.attempts : Ref(a) = <<j, e.held[j]>> /\ a.phase = "process"
    BY DEF Moving
  <2>1. j \in Held(m) /\ j \in Jobs /\ e.held[j] # 0
    BY <1>1 DEF Held
  <2>2. CASE j \in T
    <3>1. Try(m, j, c) \in e.attempts
      BY <1>1, <2>2 DEF Tried
    <3>2. Ref(Try(m, j, c)) = <<j, e.held[j]>> /\ Try(m, j, c).phase = "process"
      BY <1>0, <1>1, <2>1, TryFacts DEF Ref
    <3>. QED BY <1>14, <2>1, <2>2, <3>1, <3>2
  <2>3. CASE j \notin T
    BY <1>0, <1>1, <1>14, <2>1, <2>3 DEF Moving
  <2>. QED BY <2>2, <2>3
<1>16. Carried(m, e)
  <2>1. \A a \in e.attempts \ m.attempts :
          a.phase = "process" /\ ~a.ok /\ ~a.done /\ a.job \in Held(m) /\ a.inc = m.held[a.job]
    BY <1>1, <1>5
  <2>2. \A k \in Jobs, l \in Insertions :
          /\ e.rec[k][l].state = "waiting-children" <=> m.rec[k][l].state = "waiting-children"
          /\ m.rec[k][l].state = "active" => e.rec[k][l].state = "active"
    BY <1>2, <1>3
  <2>. QED BY <1>1, <1>2, <1>4, <2>1, <2>2 DEF Carried
<1>. QED BY <1>1, <1>6, <1>7, <1>12, <1>13, <1>14, <1>15, <1>16 DEF Sound, e


LEMMA FillFacts ==
  ASSUME NEW m, NEW X, NEW open, Sound(m, X, open), NEW ph, OneOpen(ph), NEW c \in Consumers, ph[c] = "open",
         \A d \in Consumers : ph[d] = "open" /\ d # c => Free(m, d) = 0 \/ Waiting(m, ServedBy[d]) = {},
         NEW e, e = Started(m, First(m, Waiting(m, ServedBy[c]), Free(m, c)), c)
  PROVE  Sound(e, X, open) /\ Carried(m, e) /\ Filled(e, ph, {})
<1>0. m \in Memory /\ InTurn(m) /\ Numbered(m)
  BY DEF Sound
<1>. DEFINE W == Waiting(m, ServedBy[c])
            T == First(m, W, Free(m, c))
<1>1. e = Started(m, T, c)
  OBVIOUS
<1>3. Free(m, c) \in Nat /\ m.active[c] \in Nat /\ Concurrency \in Nat
  BY <1>0, MemFacts, ConstantsAssumption DEF Free
<1>4. W \in SUBSET Held(m) /\ \A j \in W : The(m, j).state = "waiting"
  BY DEF Waiting
<1>. HIDE DEF W
<1>5. T \in SUBSET W /\ IsFiniteSet(W) /\ Cardinality(T) = IF Free(m, c) < Cardinality(W) THEN Free(m, c) ELSE Cardinality(W)
  BY <1>0, <1>3, <1>4, FirstFacts
<1>. HIDE DEF T
<1>6. IsFiniteSet(T) /\ Cardinality(T) \in Nat /\ Cardinality(W) \in Nat /\ T \in SUBSET Held(m)
  BY <1>4, <1>5, FS_Subset, FS_CardinalityType
<1>7. /\ Sound(e, X, open) /\ Carried(m, e)
      /\ \A j \in Jobs : e.held[j] # 0 => The(e, j).state = IF j \in T THEN "active" ELSE The(m, j).state
  <2>1. Cardinality(T) <= Free(m, c) /\ \A j \in T : The(m, j).state = "waiting"
    BY <1>3, <1>4, <1>5, <1>6
  <2>. QED BY <1>1, <1>6, <2>1, StartedSound
<1>8. \A d \in Consumers : e.active[d] = IF d = c THEN m.active[d] + Cardinality(T) ELSE m.active[d]
  BY <1>0, <1>1, <1>6, StartedFacts
<1>9. \A d \in Consumers : Waiting(e, ServedBy[d]) \subseteq Waiting(m, ServedBy[d]) \ T
  BY <1>7 DEF Waiting, Held, Carried
<1>10. ASSUME NEW d \in Consumers, ph[d] = "open"
       PROVE  Free(e, d) = 0 \/ Waiting(e, ServedBy[d]) = {}
  <2>1. CASE d = c
    <3>1. CASE Free(m, c) < Cardinality(W)
      <4>1. Cardinality(T) = Free(m, c) /\ e.active[c] = m.active[c] + Free(m, c)
        BY <1>5, <1>8, <3>1
      <4>. QED BY <1>3, <2>1, <4>1 DEF Free
    <3>2. CASE ~(Free(m, c) < Cardinality(W))
      <4>1. Cardinality(T) = Cardinality(W)
        BY <1>5, <3>2
      <4>2. T = W
        BY <1>5, <4>1, FS_Subset
      <4>. QED BY <1>9, <2>1, <4>2 DEF W
    <3>. QED BY <3>1, <3>2
  <2>2. CASE d # c
    <3>1. Free(m, d) = 0 \/ Waiting(m, ServedBy[d]) = {}
      BY <1>10, <2>2
    <3>2. Free(e, d) = Free(m, d)
      BY <1>8, <2>2 DEF Free
    <3>. QED BY <1>9, <3>1, <3>2
  <2>. QED BY <2>1, <2>2
<1>. QED BY <1>7, <1>10 DEF Filled

LEMMA PumpFacts ==
  ASSUME NEW m, NEW X, NEW open, Sound(m, X, open), OneOpen(phase),
         NEW J \in SUBSET Jobs, Filled(m, phase, J), NEW q \in Queues, \A j \in J : QueueOf[j] = q
  PROVE  /\ Sound(Pump(m, q), X, open) /\ Carried(m, Pump(m, q)) /\ Filled(Pump(m, q), phase, {})
<1>0. m \in Memory
  BY DEF Sound
<1>1. CASE Serving(q) = {}
  <2>1. Pump(m, q) = m
    BY <1>1 DEF Pump
  <2>2. Filled(m, phase, {})
    BY <1>1 DEF Filled, Serving, Waiting
  <2>3. Carried(m, m)
    BY <1>0 DEF Carried
  <2>. QED BY <2>1, <2>2, <2>3
<1>2. CASE Serving(q) # {}
  <2>. DEFINE c == CHOOSE c \in Serving(q) : TRUE
              e == Started(m, First(m, Waiting(m, ServedBy[c]), Free(m, c)), c)
  <2>1. c \in Consumers /\ ServedBy[c] = q /\ phase[c] = "open"
    BY <1>2 DEF Serving
  <2>2. Pump(m, q) = e
    BY <1>2, <2>1 DEF Pump
  <2>. HIDE DEF c
  <2>3. \A d \in Consumers : phase[d] = "open" /\ d # c => Free(m, d) = 0 \/ Waiting(m, ServedBy[d]) = {}
    <3>. SUFFICES ASSUME NEW d \in Consumers, phase[d] = "open", d # c
                  PROVE  Free(m, d) = 0 \/ Waiting(m, ServedBy[d]) = {}
      OBVIOUS
    <3>1. ServedBy[d] # q
      BY <2>1 DEF OneOpen
    <3>. QED BY <3>1 DEF Filled, Waiting
  <2>. HIDE DEF e
  <2>. QED BY <2>1, <2>2, <2>3, FillFacts DEF e
<1>. QED BY <1>1, <1>2

-----------------------------------------------------------------------------
(* The edits of one record.                                                *)
(* Memory e is m with record <<j, i>> edited; its number, its attempts and    *)
(* its parent are as they were.                                            *)
Edited(m, e, j, i) ==
  /\ e \in Memory /\ e.held = m.held /\ e.seq = m.seq /\ e.active = m.active /\ e.attempts = m.attempts
  /\ \A k \in Jobs, l \in Insertions : k # j \/ l # i => e.rec[k][l] = m.rec[k][l]
  /\ e.rec[j][i].seq = m.rec[j][i].seq /\ e.rec[j][i].made = m.rec[j][i].made
  /\ e.rec[j][i].parent = m.rec[j][i].parent

LEMMA EditedPut ==
  ASSUME NEW m \in Memory, NEW j \in Jobs, NEW i \in Insertions, NEW c, Edited(m, c, j, i), NEW R \in Record,
         R.seq = m.rec[j][i].seq, R.made = m.rec[j][i].made, R.parent = m.rec[j][i].parent
  PROVE  Edited(m, Put(c, j, i, R), j, i) /\ Put(c, j, i, R).rec[j][i] = R
<1>. DEFINE e == Put(c, j, i, R)
<1>1. c \in Memory
  BY DEF Edited
<1>2. /\ e \in Memory /\ e.held = c.held /\ e.seq = c.seq /\ e.active = c.active /\ e.attempts = c.attempts
      /\ \A k \in Jobs, l \in Insertions : e.rec[k][l] = IF k = j /\ l = i THEN R ELSE c.rec[k][l]
  BY <1>1, PutFacts
<1>. HIDE DEF e
<1>. QED BY <1>2 DEF Edited, e

LEMMA EditSound ==
  ASSUME NEW m, NEW X, NEW open, Sound(m, X, open), NEW j \in Jobs, NEW i \in Insertions,
         NEW e, Edited(m, e, j, i), NEW R, R = e.rec[j][i], R.state # "unborn" <=> Born(m, j, i),
         R.timer => R.state = "delayed", R.state = "waiting-children" => R.pending > 0,
         R.state = "active" <=> m.rec[j][i].state = "active",
         m.held[j] = i /\ R.state = "delayed" /\ open => R.timer
  PROVE  Sound(e, X, open)
<1>0. m \in Memory /\ InTurn(m) /\ Numbered(m) /\ Timed(m) /\ Trying(m) /\ Slots(m, X) /\ Moving(m, open)
  BY DEF Sound
<1>1. /\ e \in Memory /\ e.held = m.held /\ e.seq = m.seq /\ e.active = m.active /\ e.attempts = m.attempts
      /\ \A k \in Jobs, l \in Insertions : e.rec[k][l] = IF k = j /\ l = i THEN R ELSE m.rec[k][l]
  BY DEF Edited
<1>2. \A k \in Jobs, l \in Insertions :
        /\ e.rec[k][l].made = m.rec[k][l].made /\ e.rec[k][l].seq = m.rec[k][l].seq
        /\ e.rec[k][l].state = "active" <=> m.rec[k][l].state = "active"
        /\ Born(e, k, l) <=> Born(m, k, l)
  BY <1>1 DEF Born, Edited
<1>3. InTurn(e) /\ Numbered(e)
  BY <1>0, <1>1, <1>2 DEF InTurn, Numbered
<1>4. Timed(e)
  BY <1>0, <1>1 DEF Timed
<1>5. Trying(e)
  <2>1. \A a \in m.attempts : Tries(e, a)
    <3>. SUFFICES ASSUME NEW a \in m.attempts PROVE Tries(e, a)
      OBVIOUS
    <3>1. Tries(m, a) /\ a.job \in Jobs /\ a.inc \in Insertions
      BY <1>0, MemFacts, AttemptFacts DEF Trying, Tries
    <3>. QED BY <1>2, <3>1 DEF Tries
  <2>. QED BY <1>0, <1>1, <2>1 DEF Trying
<1>6. Slots(e, X)
  BY <1>0, <1>1 DEF Slots, Of
<1>7. Moving(e, open)
  <2>. SUFFICES ASSUME NEW k \in Held(e)
                PROVE  /\ The(e, k).state = "delayed" /\ open => The(e, k).timer
                       /\ The(e, k).state = "active" =>
                            \E a \in e.attempts : Ref(a) = <<k, e.held[k]>> /\ a.phase = "process"
    BY DEF Moving
  <2>1. k \in Held(m) /\ k \in Jobs /\ m.held[k] \in Insertions
    BY <1>0, <1>1, MemFacts DEF Held
  <2>2. The(e, k).state = "active" <=> The(m, k).state = "active"
    BY <1>1, <1>2, <2>1 DEF The
  <2>3. The(e, k).state = "delayed" /\ open => The(e, k).timer
    BY <1>0, <1>1, <2>1 DEF The, Moving
  <2>. QED BY <1>0, <1>1, <2>1, <2>2, <2>3 DEF Moving
<1>. QED BY <1>1, <1>3, <1>4, <1>5, <1>6, <1>7 DEF Sound

LEMMA EditFilled ==
  ASSUME NEW m \in Memory, NEW ph, NEW J, Filled(m, ph, J), NEW j \in Jobs, NEW i \in Insertions,
         NEW e, Edited(m, e, j, i), NEW P, J \ {j} \subseteq P, j \in P \/ j \notin J \/ m.held[j] = i,
         e.rec[j][i].state = "waiting" => j \in P
  PROVE  Filled(e, ph, P)
<1>. DEFINE R == e.rec[j][i]
<1>1. /\ e.held = m.held /\ e.active = m.active
      /\ \A k \in Jobs, l \in Insertions : e.rec[k][l] = IF k = j /\ l = i THEN R ELSE m.rec[k][l]
  BY DEF Edited
<1>. HIDE DEF R
<1>2. \A k \in Held(m) : k \in Jobs /\ m.held[k] \in Insertions
  BY MemFacts DEF Held
<1>3. \A q \in Queues : Waiting(m, q) \subseteq J => Waiting(e, q) \subseteq P
  <2>. SUFFICES ASSUME NEW q \in Queues, Waiting(m, q) \subseteq J, NEW k \in Waiting(e, q) PROVE k \in P
    OBVIOUS
  <2>1. /\ k \in Held(m) /\ QueueOf[k] = q /\ The(e, k).state = "waiting"
        /\ The(e, k) = IF k = j /\ m.held[k] = i THEN R ELSE The(m, k)
    BY <1>1, <1>2 DEF Waiting, Held, The
  <2>2. CASE k = j /\ m.held[k] = i
    BY <2>1, <2>2 DEF R
  <2>3. CASE ~(k = j /\ m.held[k] = i)
    BY <2>1, <2>3 DEF Waiting
  <2>. QED BY <2>2, <2>3
<1>4. \A c \in Consumers : Free(e, c) = Free(m, c) /\ ServedBy[c] \in Queues
  BY <1>1, ConstantsAssumption DEF Free
<1>. QED BY <1>3, <1>4 DEF Filled

(* What these edits and pump leave as it was.                               *)
Alike(m, n) ==
  /\ n \in Memory /\ n.held = m.held
  /\ \A j \in Jobs, i \in Insertions :
       n.rec[j][i].parent = m.rec[j][i].parent /\ (Born(n, j, i) <=> Born(m, j, i))

LEMMA CarriedFacts ==
  ASSUME NEW m \in Memory, NEW n, Carried(m, n)
  PROVE  Alike(m, n) /\ Kept(m, n)
BY DEF Carried, Alike, Kept

LEMMA KeptTransitive ==
  ASSUME NEW m \in Memory, NEW n \in Memory, NEW o \in Memory, InTurn(n), Trying(n), Kept(m, n), Kept(n, o)
  PROVE  Kept(m, o)
<1>1. \A a \in n.attempts : a.job \in Jobs /\ a.inc # 0
  BY MemFacts, AttemptFacts DEF Trying, Tries, Insertions
<1>. QED BY <1>1 DEF Kept

LEMMA EditedFacts ==
  ASSUME NEW m \in Memory, NEW j \in Jobs, NEW i \in Insertions, NEW e, Edited(m, e, j, i),
         Born(m, j, i), e.rec[j][i].state # "unborn"
  PROVE  Alike(m, e) /\ Kept(m, e)
BY DEF Edited, Alike, Kept, Born

(* The records that may still be tried: those in the map, and those whose   *)
(* handler runs.                                                           *)
Going(m) ==
  {r \in Refs : m.held[r[1]] = r[2] \/ \E a \in m.attempts : Ref(a) = r /\ a.phase = "process"}

(* A step from m to n that makes no record and completes no job.             *)
Onward(m, n) ==
  /\ n \in Memory /\ \A j \in Jobs : n.held[j] \in {0, m.held[j]}
  /\ \A j \in Jobs, i \in Insertions :
       /\ n.rec[j][i].parent = m.rec[j][i].parent /\ (Born(n, j, i) <=> Born(m, j, i))
       /\ m.rec[j][i].state = "active" /\ n.rec[j][i].state # "active" => <<j, i>> \in Going(m)
  /\ \A b \in n.attempts : (b.phase = "process" => Ref(b) \in Going(m)) /\ (b.ok => b \in m.attempts)

(* Of these, one that leaves alone what a record waits for, and one that     *)
(* releases job j from it.                                                 *)
Same(m, n, k) ==
  /\ The(n, k).state = "waiting-children" <=> The(m, k).state = "waiting-children"
  /\ The(n, k).pending = The(m, k).pending
Quiet(m, n) == Onward(m, n) /\ \A k \in Held(n) : Same(m, n, k)
Released(m, n, j) ==
  /\ Onward(m, n) /\ n.held = m.held
  /\ \A k \in Held(n) : k # j => Same(m, n, k)
  /\ The(n, j).state # "waiting-children"

LEMMA GoingFewer ==
  ASSUME NEW m, NEW n, Onward(m, n)
  PROVE  Going(n) \subseteq Going(m)
<1>. SUFFICES ASSUME NEW r \in Going(n) PROVE r \in Going(m)
  OBVIOUS
<1>1. r \in Refs /\ r[1] \in Jobs /\ r[2] \in Insertions /\ r[2] # 0
  BY DEF Going, Refs, Insertions
<1>2. CASE n.held[r[1]] = r[2]
  BY <1>1, <1>2 DEF Going, Onward
<1>3. CASE \E a \in n.attempts : Ref(a) = r /\ a.phase = "process"
  BY <1>3 DEF Onward
<1>. QED BY <1>2, <1>3 DEF Going

LEMMA OnwardTransitive ==
  ASSUME NEW m, NEW n, NEW o, Onward(m, n), Onward(n, o)
  PROVE  Onward(m, o)
<1>1. Going(n) \subseteq Going(m)
  BY GoingFewer
<1>2. o \in Memory /\ \A j \in Jobs : o.held[j] \in {0, m.held[j]}
  BY DEF Onward
<1>3. ASSUME NEW j \in Jobs, NEW i \in Insertions
      PROVE  /\ o.rec[j][i].parent = m.rec[j][i].parent /\ (Born(o, j, i) <=> Born(m, j, i))
             /\ m.rec[j][i].state = "active" /\ o.rec[j][i].state # "active" => <<j, i>> \in Going(m)
  BY <1>1 DEF Onward
<1>4. ASSUME NEW b \in o.attempts
      PROVE  (b.phase = "process" => Ref(b) \in Going(m)) /\ (b.ok => b \in m.attempts)
  BY <1>1 DEF Onward
<1>. QED BY <1>2, <1>3, <1>4 DEF Onward

LEMMA HeldFewer ==
  ASSUME NEW m, NEW n, Onward(m, n)
  PROVE  \A k \in Held(n) : k \in Jobs /\ k \in Held(m) /\ n.held[k] = m.held[k]
BY DEF Onward, Held

LEMMA QuietTransitive ==
  ASSUME NEW m, NEW n, NEW o, Quiet(n, o)
  PROVE  /\ Quiet(m, n) => Quiet(m, o)
         /\ \A j \in Jobs : Released(m, n, j) /\ o.held = n.held /\ n.held[j] # 0 => Released(m, o, j)
<1>1. Onward(n, o) /\ \A k \in Held(o) : k \in Held(n) /\ Same(n, o, k)
  BY HeldFewer DEF Quiet
<1>2. ASSUME Quiet(m, n) PROVE Quiet(m, o)
  <2>1. Onward(m, o)
    BY <1>1, <1>2, OnwardTransitive DEF Quiet
  <2>. QED BY <1>1, <1>2, <2>1 DEF Quiet, Same
<1>3. ASSUME NEW j \in Jobs, Released(m, n, j), o.held = n.held, n.held[j] # 0 PROVE Released(m, o, j)
  <2>1. Onward(m, o)
    BY <1>1, <1>3, OnwardTransitive DEF Released
  <2>2. \A k \in Held(o) : k # j => Same(m, o, k)
    BY <1>1, <1>3 DEF Released, Same
  <2>3. The(o, j).state # "waiting-children"
    BY <1>1, <1>3 DEF Released, Same, Held
  <2>. QED BY <1>3, <2>1, <2>2, <2>3 DEF Released
<1>. QED BY <1>2, <1>3

(* What an attempt in memory refers to.                                     *)
LEMMA Referred ==
  ASSUME NEW m, NEW X, NEW open, Sound(m, X, open)
  PROVE  /\ \A a \in m.attempts : a \in Attempt /\ a.job \in Jobs /\ a.inc \in Insertions /\ Ref(a) = <<a.job, a.inc>>
                                  /\ Ref(a) \in Refs /\ Born(m, a.job, a.inc)
         /\ \A j \in Held(m) : j \in Jobs /\ m.held[j] \in Insertions /\ <<j, m.held[j]>> \in Refs
                               /\ <<j, m.held[j]>> \in Going(m)
<1>0. m \in Memory /\ InTurn(m) /\ Trying(m)
  BY DEF Sound
<1>1. ASSUME NEW a \in m.attempts
      PROVE  a \in Attempt /\ a.job \in Jobs /\ a.inc \in Insertions /\ Ref(a) \in Refs /\ Born(m, a.job, a.inc)
  <2>1. a \in Attempt /\ a.job \in Jobs /\ a.inc \in Insertions /\ Born(m, a.job, a.inc)
    BY <1>0, MemFacts, AttemptFacts DEF Trying, Tries
  <2>. QED BY <2>1 DEF Ref, Refs, Insertions
<1>2. ASSUME NEW j \in Held(m)
      PROVE  j \in Jobs /\ m.held[j] \in Insertions /\ <<j, m.held[j]>> \in Refs /\ <<j, m.held[j]>> \in Going(m)
  <2>1. j \in Jobs /\ m.held[j] \in Insertions
    BY <1>0, HeldFacts
  <2>. QED BY <2>1 DEF Refs, Insertions, Going
<1>. QED BY <1>1, <1>2 DEF Ref

LEMMA CarriedQuiet ==
  ASSUME NEW m, NEW X, NEW open, Sound(m, X, open), NEW n, Carried(m, n)
  PROVE  Quiet(m, n)
<1>1. n \in Memory /\ n.held = m.held
  BY DEF Carried
<1>2. ASSUME NEW b \in n.attempts
      PROVE  (b.phase = "process" => Ref(b) \in Going(m)) /\ (b.ok => b \in m.attempts)
  <2>1. CASE b \in m.attempts
    <3>1. Ref(b) \in Refs
      BY <2>1, Referred
    <3>. QED BY <2>1, <3>1 DEF Going
  <2>2. CASE b \notin m.attempts
    <3>1. ~b.ok /\ b.job \in Held(m) /\ b.inc = m.held[b.job]
      BY <1>2, <2>2 DEF Carried
    <3>2. Ref(b) \in Going(m)
      BY <3>1, Referred DEF Ref
    <3>. QED BY <3>1, <3>2
  <2>. QED BY <2>1, <2>2
<1>3. Onward(m, n)
  BY <1>1, <1>2 DEF Carried, Onward
<1>4. \A k \in Held(n) : Same(m, n, k)
  <2>1. \A k \in Held(n) : k \in Jobs /\ n.held[k] = m.held[k] /\ m.held[k] \in Insertions
    BY <1>1, Referred DEF Held
  <2>. QED BY <2>1 DEF Same, The, Carried
<1>. QED BY <1>3, <1>4 DEF Quiet

(* An edit of a record: its effect on what is still to be tried.             *)
LEMMA EditOnward ==
  ASSUME NEW m, NEW X, NEW open, Sound(m, X, open), NEW j \in Jobs, NEW i \in Insertions,
         NEW e, Edited(m, e, j, i), Born(m, j, i), e.rec[j][i].state # "unborn",
         m.rec[j][i].state = "active" /\ e.rec[j][i].state # "active" => <<j, i>> \in Going(m)
  PROVE  /\ Onward(m, e)
         /\ \A k \in Held(e) : k # j \/ m.held[j] # i => Same(m, e, k)
<1>1. /\ e \in Memory /\ e.held = m.held /\ e.attempts = m.attempts
      /\ \A k \in Jobs, l \in Insertions : k # j \/ l # i => e.rec[k][l] = m.rec[k][l]
      /\ e.rec[j][i].parent = m.rec[j][i].parent
  BY DEF Edited
<1>2. \A b \in e.attempts : (b.phase = "process" => Ref(b) \in Going(m)) /\ (b.ok => b \in m.attempts)
  BY <1>1, Referred DEF Going
<1>3. ASSUME NEW k \in Jobs, NEW l \in Insertions
      PROVE  /\ e.rec[k][l].parent = m.rec[k][l].parent /\ (Born(e, k, l) <=> Born(m, k, l))
             /\ m.rec[k][l].state = "active" /\ e.rec[k][l].state # "active" => <<k, l>> \in Going(m)
  <2>1. CASE k = j /\ l = i
    BY <1>1, <2>1 DEF Born
  <2>2. CASE ~(k = j /\ l = i)
    BY <1>1, <2>2 DEF Born
  <2>. QED BY <2>1, <2>2
<1>4. Onward(m, e)
  BY <1>1, <1>2, <1>3 DEF Onward
<1>5. ASSUME NEW k \in Held(e), k # j \/ m.held[j] # i PROVE Same(m, e, k)
  <2>1. k \in Jobs /\ e.held[k] = m.held[k] /\ m.held[k] \in Insertions
    BY <1>1, Referred DEF Held
  <2>2. The(e, k) = The(m, k)
    BY <1>1, <1>5, <2>1 DEF The
  <2>. QED BY <2>2 DEF Same
<1>. QED BY <1>4, <1>5

(* A record that has just been edited, or not, is admitted.                 *)
LEMMA AdmittedFacts ==
  ASSUME NEW m, NEW X, Sound(m, X, transport = "open"), OneOpen(phase), NEW j \in Held(m),
         NEW J \in SUBSET {j}, Filled(m, phase, J), The(m, j).state \in {"waiting", "waiting-children"},
         NEW c, Edited(m, c, j, m.held[j]), ~The(c, j).timer
  PROVE  /\ Sound(Admitted(c, j), X, transport = "open") /\ Filled(Admitted(c, j), phase, {})
         /\ Alike(m, Admitted(c, j)) /\ Kept(m, Admitted(c, j)) /\ Released(m, Admitted(c, j), j)
<1>. DEFINE i == m.held[j]
            R == c.rec[j][i]
            open == transport = "open"
<1>0. m \in Memory /\ InTurn(m) /\ c \in Memory /\ c.held = m.held
  BY DEF Sound, Edited
<1>1. j \in Jobs /\ i \in Insertions /\ R \in Record /\ Born(m, j, i) /\ R = The(c, j)
  BY <1>0, HeldFacts, MemFacts DEF The
<1>2. ~R.timer /\ m.rec[j][i].state # "active"
  BY <1>1 DEF The
<1>5. R.seq = m.rec[j][i].seq /\ R.made = m.rec[j][i].made /\ R.parent = m.rec[j][i].parent
  BY DEF Edited
<1>6. Edited(m, c, j, i)
  OBVIOUS
<1>. HIDE DEF i
<1>3. CASE j \in Delayed
  <2>. DEFINE S == [R EXCEPT !.state = "delayed", !.timer = open]
              e == Put(c, j, i, S)
  <2>0. open \in BOOLEAN /\ (open <=> transport = "open")
    OBVIOUS
  <2>1. Admitted(c, j) = [c EXCEPT !.rec[j][c.held[j]] = [@ EXCEPT !.state = "delayed", !.timer = open]]
    BY <1>3 DEF Admitted, Postponed
  <2>. HIDE DEF open
  <2>2. [c EXCEPT !.rec[j][i] = [@ EXCEPT !.state = "delayed", !.timer = open]] = e
    BY DEF Put
  <2>3. S \in Record
    <3>. HIDE DEF R
    <3>. QED BY <1>1, <2>0, EditFacts
  <2>4. /\ S.seq = R.seq /\ S.made = R.made /\ S.parent = R.parent /\ S.state = "delayed"
        /\ S.timer = open
    <3>. HIDE DEF R
    <3>. QED BY <1>1 DEF Record
  <2>. HIDE DEF S, R
  <2>5. Edited(m, e, j, i) /\ e.rec[j][i] = S
    BY <1>0, <1>1, <1>5, <1>6, <2>3, <2>4, EditedPut
  <2>. HIDE DEF e
  <2>6. Sound(e, X, open)
    <3>1. m.held[j] = i /\ S.state = "delayed" /\ open => S.timer
      BY <2>4, Zenon
    <3>2. S.timer => S.state = "delayed"
      BY <2>4
    <3>3. Sound(m, X, open)
      BY DEF open
    <3>. QED BY <1>1, <1>2, <2>4, <2>5, <3>1, <3>2, <3>3, EditSound
  <2>7. Filled(e, phase, {})
    BY <1>0, <1>1, <2>4, <2>5, EditFilled DEF i
  <2>8. Alike(m, e) /\ Kept(m, e)
    BY <1>0, <1>1, <2>4, <2>5, EditedFacts
  <2>9. Admitted(c, j) = e
    BY <1>0, <2>1, <2>2 DEF i
  <2>10. Released(m, e, j)
    <3>1. Onward(m, e) /\ \A k \in Held(e) : k # j \/ m.held[j] # i => Same(m, e, k)
      <4>1. e.rec[j][i].state # "unborn"
        BY <2>4, <2>5
      <4>. QED BY <1>1, <1>2, <2>5, <4>1, EditOnward
    <3>2. The(e, j).state # "waiting-children" /\ e.held = m.held
      BY <2>4, <2>5 DEF The, Edited, i
    <3>. QED BY <3>1, <3>2 DEF Released
  <2>. QED BY <2>6, <2>7, <2>8, <2>9, <2>10 DEF open
<1>4. CASE j \notin Delayed
  <2>. DEFINE S == [R EXCEPT !.state = "waiting"]
              e == Put(c, j, i, S)
              o == Pump(e, QueueOf[j])
  <2>1. [c EXCEPT !.rec[j][i].state = "waiting"] = e
    BY DEF Put
  <2>2. Admitted(c, j) = o
    BY <1>0, <1>4, <2>1 DEF Admitted, Ready, i
  <2>3. S \in Record
    <3>. HIDE DEF R
    <3>. QED BY <1>1, EditFacts
  <2>4. /\ S.seq = R.seq /\ S.made = R.made /\ S.parent = R.parent /\ S.state = "waiting"
        /\ S.timer = R.timer
    <3>. HIDE DEF R
    <3>. QED BY <1>1 DEF Record
  <2>. HIDE DEF S, R
  <2>5. Edited(m, e, j, i) /\ e.rec[j][i] = S
    BY <1>0, <1>1, <1>5, <1>6, <2>3, <2>4, EditedPut
  <2>. HIDE DEF e
  <2>6. Sound(e, X, open)
    BY <1>1, <1>2, <2>4, <2>5, EditSound
  <2>7. Filled(e, phase, {j})
    BY <1>0, <1>1, <2>4, <2>5, EditFilled
  <2>8. Alike(m, e) /\ Kept(m, e)
    BY <1>0, <1>1, <2>4, <2>5, EditedFacts
  <2>9. QueueOf[j] \in Queues
    BY <1>1, ConstantsAssumption
  <2>10. Sound(o, X, open) /\ Carried(e, o) /\ Filled(o, phase, {})
    BY <1>1, <2>6, <2>7, <2>9, PumpFacts
  <2>11. e \in Memory /\ o \in Memory /\ InTurn(e) /\ Trying(e)
    BY <2>6, <2>10 DEF Sound
  <2>12. Alike(e, o) /\ Kept(e, o)
    BY <2>10, <2>11, CarriedFacts
  <2>. HIDE DEF o
  <2>13. Alike(m, o)
    BY <2>8, <2>11, <2>12 DEF Alike
  <2>14. Kept(m, o)
    BY <1>0, <2>8, <2>11, <2>12, KeptTransitive
  <2>15. Released(m, e, j)
    <3>1. Onward(m, e) /\ \A k \in Held(e) : k # j \/ m.held[j] # i => Same(m, e, k)
      <4>1. e.rec[j][i].state # "unborn"
        BY <2>4, <2>5
      <4>. QED BY <1>1, <1>2, <2>5, <4>1, EditOnward
    <3>2. The(e, j).state # "waiting-children" /\ e.held = m.held
      BY <2>4, <2>5 DEF The, Edited, i
    <3>. QED BY <3>1, <3>2 DEF Released
  <2>16. Released(m, o, j)
    <3>1. Quiet(e, o)
      BY <2>6, <2>10, CarriedQuiet
    <3>2. o.held = e.held /\ e.held[j] # 0
      BY <2>10, <1>0, <2>8 DEF Carried, Alike, Held
    <3>. QED BY <1>1, <2>15, <3>1, <3>2, QuietTransitive
  <2>. QED BY <2>2, <2>10, <2>13, <2>14, <2>16
<1>. QED BY <1>3, <1>4

LEMMA AdmittedAsIs ==
  ASSUME NEW m, NEW X, Sound(m, X, transport = "open"), OneOpen(phase), NEW j \in Held(m),
         NEW J \in SUBSET {j}, Filled(m, phase, J), The(m, j).state \in {"waiting", "waiting-children"}
  PROVE  /\ Sound(Admitted(m, j), X, transport = "open") /\ Filled(Admitted(m, j), phase, {})
         /\ Alike(m, Admitted(m, j)) /\ Kept(m, Admitted(m, j)) /\ Released(m, Admitted(m, j), j)
<1>1. m \in Memory /\ InTurn(m) /\ Timed(m)
  BY DEF Sound
<1>2. Edited(m, m, j, m.held[j])
  BY <1>1 DEF Edited
<1>3. ~The(m, j).timer
  BY <1>1, HeldFacts DEF Timed, The
<1>. QED BY <1>2, <1>3, AdmittedFacts

-----------------------------------------------------------------------------
(* A new record.                                                           *)
Added(m, j, b, R) == [m EXCEPT !.held[j] = b, !.rec[j][b] = R, !.seq = @ + 1]

LEMMA AddedFacts ==
  ASSUME NEW m \in Memory, NEW j \in Jobs, NEW b \in Insertions, NEW R \in Record
  PROVE  /\ Added(m, j, b, R) \in Memory /\ Added(m, j, b, R).seq = m.seq + 1
         /\ Added(m, j, b, R).active = m.active /\ Added(m, j, b, R).attempts = m.attempts
         /\ \A k \in Jobs : Added(m, j, b, R).held[k] = IF k = j THEN b ELSE m.held[k]
         /\ \A k \in Jobs, l \in Insertions :
              Added(m, j, b, R).rec[k][l] = IF k = j /\ l = b THEN R ELSE m.rec[k][l]
<1>. DEFINE f == Put(m, j, b, R)
            held == [m.held EXCEPT ![j] = b]
            e == Added(m, j, b, R)
            g == [f EXCEPT !.held = held, !.seq = m.seq + 1]
<1>1. /\ f \in Memory /\ f.held = m.held /\ f.seq = m.seq /\ f.active = m.active /\ f.attempts = m.attempts
      /\ \A k \in Jobs, l \in Insertions : f.rec[k][l] = IF k = j /\ l = b THEN R ELSE m.rec[k][l]
  BY PutFacts
<1>2. e = g
  BY DEF Added, Put, Memory
<1>3. held \in [Jobs -> 0 .. MaxEnqueues] /\ \A k \in Jobs : held[k] = IF k = j THEN b ELSE m.held[k]
  <2>1. b \in 0 .. MaxEnqueues
    BY ConstantsAssumption DEF Insertions
  <2>. QED BY <2>1, MemFacts
<1>. HIDE DEF f, e, held
<1>4. /\ g \in Memory /\ g.held = held /\ g.seq = m.seq + 1 /\ g.rec = f.rec /\ g.active = f.active
      /\ g.attempts = f.attempts
  <2>1. m.seq + 1 \in Nat
    BY MemFacts
  <2>. QED BY <1>1, <1>3, <2>1 DEF Memory
<1>. HIDE DEF g
<1>. QED BY <1>1, <1>2, <1>3, <1>4 DEF e

LEMMA InsertedFacts ==
  ASSUME NEW m \in Memory, InTurn(m), NEW j \in Jobs, Births(m, j) < MaxEnqueues,
         NEW s \in {"waiting", "waiting-children"}, NEW p \in Refs \cup {None}, NEW n \in Nat
  PROVE  LET e == Inserted(m, j, s, p, n)
             b == Births(m, j) + 1
             R == [state |-> s, made |-> 0, seq |-> m.seq, timer |-> FALSE, parent |-> p, pending |-> n]
         IN  /\ e \in Memory /\ b \in Insertions /\ ~Born(m, j, b)
             /\ e.seq = m.seq + 1 /\ e.active = m.active /\ e.attempts = m.attempts
             /\ \A k \in Jobs : e.held[k] = IF k = j THEN b ELSE m.held[k]
             /\ \A k \in Jobs, l \in Insertions : e.rec[k][l] = IF k = j /\ l = b THEN R ELSE m.rec[k][l]
<1>. DEFINE b == Births(m, j) + 1
            R == [state |-> s, made |-> 0, seq |-> m.seq, timer |-> FALSE, parent |-> p, pending |-> n]
            e == Added(m, j, b, R)
<1>1. b \in Insertions /\ ~Born(m, j, b)
  BY BirthsFacts, ConstantsAssumption DEF Insertions
<1>2. R \in Record
  <2>1. m.seq \in Nat
    BY MemFacts
  <2>. QED BY <2>1 DEF Record
<1>3. Inserted(m, j, s, p, n) = e
  BY DEF Inserted, Added
<1>. HIDE DEF b, R
<1>4. /\ e \in Memory /\ e.seq = m.seq + 1 /\ e.active = m.active /\ e.attempts = m.attempts
      /\ \A k \in Jobs : e.held[k] = IF k = j THEN b ELSE m.held[k]
      /\ \A k \in Jobs, l \in Insertions : e.rec[k][l] = IF k = j /\ l = b THEN R ELSE m.rec[k][l]
  BY <1>1, <1>2, AddedFacts
<1>. HIDE DEF e
<1>. QED BY <1>1, <1>3, <1>4 DEF b, R

LEMMA InsertedOthers ==
  ASSUME NEW m \in Memory, InTurn(m), NEW j \in Jobs, Births(m, j) < MaxEnqueues,
         NEW s \in {"waiting", "waiting-children"}, NEW p \in Refs \cup {None}, NEW n \in Nat
  PROVE  \A k \in Jobs : k # j =>
           /\ Inserted(m, j, s, p, n).held[k] = m.held[k]
           /\ \A l \in Insertions : Inserted(m, j, s, p, n).rec[k][l] = m.rec[k][l]
<1>. DEFINE e == Inserted(m, j, s, p, n)
            b == Births(m, j) + 1
            R == [state |-> s, made |-> 0, seq |-> m.seq, timer |-> FALSE, parent |-> p, pending |-> n]
<1>1. /\ \A k \in Jobs : e.held[k] = IF k = j THEN b ELSE m.held[k]
      /\ \A k \in Jobs, l \in Insertions : e.rec[k][l] = IF k = j /\ l = b THEN R ELSE m.rec[k][l]
  BY InsertedFacts
<1>. HIDE DEF e, b, R
<1>. QED BY <1>1 DEF e

LEMMA InsertedSound ==
  ASSUME NEW m, NEW X, NEW open, Sound(m, X, open), NEW j \in Jobs, m.held[j] = 0, Births(m, j) < MaxEnqueues,
         NEW s \in {"waiting", "waiting-children"}, NEW p \in Refs \cup {None}, NEW n \in Nat,
         s = "waiting-children" => n > 0, NEW ph, Filled(m, ph, {})
  PROVE  /\ Sound(Inserted(m, j, s, p, n), X, open) /\ Kept(m, Inserted(m, j, s, p, n))
         /\ Filled(Inserted(m, j, s, p, n), ph, IF s = "waiting" THEN {j} ELSE {})
         /\ j \in Held(Inserted(m, j, s, p, n)) /\ The(Inserted(m, j, s, p, n), j).state = s
<1>. DEFINE e == Inserted(m, j, s, p, n)
            b == Births(m, j) + 1
            R == [state |-> s, made |-> 0, seq |-> m.seq, timer |-> FALSE, parent |-> p, pending |-> n]
<1>0. m \in Memory /\ InTurn(m) /\ Numbered(m) /\ Timed(m) /\ Trying(m) /\ Slots(m, X) /\ Moving(m, open)
  BY DEF Sound
<1>1. /\ e \in Memory /\ b \in Insertions /\ ~Born(m, j, b)
      /\ e.seq = m.seq + 1 /\ e.active = m.active /\ e.attempts = m.attempts
      /\ \A k \in Jobs : e.held[k] = IF k = j THEN b ELSE m.held[k]
      /\ \A k \in Jobs, l \in Insertions : e.rec[k][l] = IF k = j /\ l = b THEN R ELSE m.rec[k][l]
  BY <1>0, InsertedFacts
<1>2. \A l \in Insertions : Born(m, j, l) <=> l < b
  BY <1>0, BirthsFacts DEF Insertions
<1>3. b \in 1 .. MaxEnqueues /\ MaxEnqueues \in Nat
  BY <1>1, ConstantsAssumption DEF Insertions
<1>4. /\ R.state = s /\ R.seq = m.seq /\ R.timer = FALSE /\ R.pending = n
  OBVIOUS
<1>. HIDE DEF e, b, R
<1>5. \A k \in Jobs, l \in Insertions : Born(e, k, l) <=> Born(m, k, l) \/ (k = j /\ l = b)
  BY <1>1, <1>4 DEF Born
<1>6. InTurn(e)
  <2>. SUFFICES ASSUME NEW k \in Jobs
                PROVE  \E c \in 0 .. MaxEnqueues : e.held[k] \in {0, c} /\ \A i \in Insertions : Born(e, k, i) <=> i <= c
    BY DEF InTurn
  <2>1. CASE k = j
    <3>1. \A i \in Insertions : Born(e, k, i) <=> i <= b
      BY <1>2, <1>3, <1>5, <2>1 DEF Insertions
    <3>. QED BY <1>1, <1>3, <2>1, <3>1
  <2>2. CASE k # j
    <3>1. PICK c \in 0 .. MaxEnqueues : m.held[k] \in {0, c} /\ \A i \in Insertions : Born(m, k, i) <=> i <= c
      BY <1>0 DEF InTurn
    <3>. QED BY <1>1, <1>5, <2>2, <3>1
  <2>. QED BY <2>1, <2>2
<1>7. Numbered(e)
  <2>0. \A k \in Jobs, i \in Insertions : m.rec[k][i].seq \in Nat /\ m.seq \in Nat
    BY <1>0, MemFacts, RecordFacts
  <2>1. ASSUME NEW k \in Jobs, NEW i \in Insertions, Born(e, k, i) PROVE e.rec[k][i].seq < e.seq
    <3>1. CASE k = j /\ i = b
      BY <1>1, <1>4, <2>0, <3>1
    <3>2. CASE ~(k = j /\ i = b)
      BY <1>0, <1>1, <1>5, <2>0, <2>1, <3>2 DEF Numbered
    <3>. QED BY <3>1, <3>2
  <2>2. ASSUME NEW k \in Jobs, NEW h \in Jobs, NEW i \in Insertions, NEW l \in Insertions,
               Born(e, k, i), Born(e, h, l), e.rec[k][i].seq = e.rec[h][l].seq
        PROVE  k = h /\ i = l
    <3>1. \A g \in Jobs, o \in Insertions : Born(m, g, o) => m.rec[g][o].seq < m.seq
      BY <1>0 DEF Numbered
    <3>2. CASE k = j /\ i = b
      BY <1>1, <1>4, <1>5, <2>0, <2>2, <3>1, <3>2
    <3>3. CASE h = j /\ l = b
      BY <1>1, <1>4, <1>5, <2>0, <2>2, <3>1, <3>3
    <3>4. CASE ~(k = j /\ i = b) /\ ~(h = j /\ l = b)
      BY <1>0, <1>1, <1>5, <2>2, <3>4 DEF Numbered
    <3>. QED BY <3>2, <3>3, <3>4
  <2>. QED BY <2>1, <2>2 DEF Numbered
<1>8. Timed(e)
  BY <1>0, <1>1, <1>4 DEF Timed
<1>9. Trying(e)
  <2>1. \A a \in m.attempts : Tries(e, a)
    <3>. SUFFICES ASSUME NEW a \in m.attempts PROVE Tries(e, a)
      OBVIOUS
    <3>1. Tries(m, a) /\ a.job \in Jobs /\ a.inc \in Insertions
      BY <1>0, MemFacts, AttemptFacts DEF Trying, Tries
    <3>2. e.rec[a.job][a.inc] = m.rec[a.job][a.inc]
      BY <1>1, <3>1 DEF Tries
    <3>. QED BY <1>5, <3>1, <3>2 DEF Tries
  <2>. QED BY <1>0, <1>1, <2>1 DEF Trying
<1>10. Slots(e, X)
  BY <1>0, <1>1 DEF Slots, Of
<1>11. j \in Held(e) /\ The(e, j) = R
  BY <1>1, <1>3 DEF Held, The
<1>12. \A k \in Held(e) : k # j => k \in Held(m) /\ The(e, k) = The(m, k) /\ e.held[k] = m.held[k]
  BY <1>0, <1>1, MemFacts DEF Held, The
<1>13. Moving(e, open)
  <2>. SUFFICES ASSUME NEW k \in Held(e)
                PROVE  /\ The(e, k).state = "delayed" /\ open => The(e, k).timer
                       /\ The(e, k).state = "active" =>
                            \E a \in e.attempts : Ref(a) = <<k, e.held[k]>> /\ a.phase = "process"
    BY DEF Moving
  <2>1. CASE k = j
    BY <1>4, <1>11, <2>1
  <2>2. CASE k # j
    BY <1>0, <1>1, <1>12, <2>2 DEF Moving
  <2>. QED BY <2>1, <2>2
<1>14. Kept(m, e)
  BY <1>1 DEF Kept
<1>15. Filled(e, ph, IF s = "waiting" THEN {j} ELSE {})
  <2>1. \A q \in Queues : Waiting(e, q) \subseteq Waiting(m, q) \cup (IF s = "waiting" THEN {j} ELSE {})
    BY <1>4, <1>11, <1>12 DEF Waiting
  <2>2. \A c \in Consumers : Free(e, c) = Free(m, c) /\ ServedBy[c] \in Queues
    BY <1>1, ConstantsAssumption DEF Free
  <2>. QED BY <2>1, <2>2 DEF Filled
<1>. QED BY <1>1, <1>4, <1>6, <1>7, <1>8, <1>9, <1>10, <1>11, <1>13, <1>14, <1>15 DEF Sound, e

-----------------------------------------------------------------------------
(* buildFlowRecord.                                                        *)
LEMMA BirthsAlike ==
  ASSUME NEW m, NEW n, NEW j, \A i \in Insertions : Born(n, j, i) <=> Born(m, j, i)
  PROVE  Births(n, j) = Births(m, j)
<1>1. {i \in 1 .. MaxEnqueues : n.rec[j][i].state # "unborn"} = {i \in 1 .. MaxEnqueues : m.rec[j][i].state # "unborn"}
  BY DEF Born, Insertions
<1>. QED BY <1>1 DEF Births

(* The flow under construction: what it made is in the map, and there is    *)
(* room for what it has to make of K.                                      *)
Growing(flow, K) ==
  /\ flow \in [mem : Memory, new : SUBSET Jobs, root : Jobs]
  /\ Sound(flow.mem, {}, transport = "open") /\ Filled(flow.mem, phase, {})
  /\ flow.new \subseteq Held(flow.mem)
  /\ \A k \in K : flow.mem.held[k] # 0 \/ Births(flow.mem, k) < MaxEnqueues

LEMMA BuiltFacts ==
  ASSUME NEW K \in SUBSET Jobs, NEW f, Growing(f, K), NEW j \in K, OneOpen(phase)
  PROVE  Growing(Built(f, j), K) /\ Kept(f.mem, Built(f, j).mem)
<1>. DEFINE m == f.mem
            above == {p \in f.new : IsChild(j, p)}
            parent == IF above = {} THEN None
                      ELSE LET p == CHOOSE p \in above : TRUE IN <<p, m.held[p]>>
            n == Len(Children[j])
            open == transport = "open"
<1>0. /\ f \in [mem : Memory, new : SUBSET Jobs, root : Jobs] /\ m \in Memory /\ InTurn(m) /\ Trying(m)
      /\ Sound(m, {}, open) /\ Filled(m, phase, {}) /\ f.new \subseteq Held(m) /\ j \in Jobs
      /\ \A k \in K : m.held[k] # 0 \/ Births(m, k) < MaxEnqueues
  BY DEF Growing, Sound
<1>1. parent \in Refs \cup {None}
  <2>1. CASE above = {}
    BY <2>1
  <2>2. CASE above # {}
    <3>1. PICK p \in above : parent = <<p, m.held[p]>>
      BY <2>2
    <3>. HIDE DEF parent
    <3>2. p \in Held(m)
      BY <1>0, <3>1
    <3>. QED BY <1>0, <3>1, <3>2, HeldFacts DEF Refs, Insertions
  <2>. QED BY <2>1, <2>2
<1>2. n \in Nat
  BY <1>0, ConstantsAssumption
<1>. DEFINE e == IF n > 0 THEN Inserted(m, j, "waiting-children", parent, n)
                 ELSE Admitted(Inserted(m, j, "waiting", parent, 0), j)
<1>3. CASE m.held[j] # 0 \/ (above = {} /\ j # f.root)
  <2>1. Built(f, j) = f
    BY <1>3 DEF Built
  <2>2. Kept(m, m)
    BY DEF Kept
  <2>. QED BY <2>1, <2>2
<1>4. CASE ~(m.held[j] # 0 \/ (above = {} /\ j # f.root))
  <2>1. Built(f, j) = [f EXCEPT !.new = f.new \cup {j}, !.mem = e]
    BY <1>4 DEF Built
  <2>2. m.held[j] = 0 /\ Births(m, j) < MaxEnqueues
    BY <1>0, <1>4
  <2>3. /\ Sound(e, {}, open) /\ Filled(e, phase, {}) /\ Kept(m, e)
        /\ \A k \in Jobs : k # j => e.held[k] = m.held[k] /\ \A i \in Insertions : Born(e, k, i) <=> Born(m, k, i)
        /\ j \in Held(e)
    <3>. HIDE DEF parent, n, open, m
    <3>1. CASE n > 0
      <4>. DEFINE d == Inserted(m, j, "waiting-children", parent, n)
      <4>1. /\ Sound(d, {}, open) /\ Kept(m, d) /\ j \in Held(d)
            /\ Filled(d, phase, IF "waiting-children" = "waiting" THEN {j} ELSE {})
        BY <1>0, <1>1, <1>2, <2>2, <3>1, InsertedSound
      <4>2. \A k \in Jobs : k # j => d.held[k] = m.held[k] /\ \A i \in Insertions : d.rec[k][i] = m.rec[k][i]
        BY <1>0, <1>1, <1>2, <2>2, InsertedOthers
      <4>3. e = d
        BY <3>1
      <4>. HIDE DEF d, e
      <4>. QED BY <4>1, <4>2, <4>3 DEF Born
    <3>2. CASE ~(n > 0)
      <4>. DEFINE d == Inserted(m, j, "waiting", parent, 0)
      <4>1. /\ Sound(d, {}, open) /\ Kept(m, d) /\ j \in Held(d) /\ The(d, j).state = "waiting"
            /\ Filled(d, phase, IF "waiting" = "waiting" THEN {j} ELSE {})
        <5>1. 0 \in Nat /\ "waiting" \in {"waiting", "waiting-children"} /\ ("waiting" = "waiting-children" => 0 > 0)
          OBVIOUS
        <5>. HIDE DEF d
        <5>. QED BY <1>0, <1>1, <2>2, <5>1, InsertedSound DEF d
      <4>2. \A k \in Jobs : k # j => d.held[k] = m.held[k] /\ \A i \in Insertions : d.rec[k][i] = m.rec[k][i]
        BY <1>0, <1>1, <1>2, <2>2, InsertedOthers
      <4>3. e = Admitted(d, j)
        BY <3>2
      <4>. HIDE DEF d, e
      <4>4. Filled(d, phase, {j}) /\ {j} \in SUBSET {j}
        BY <4>1
      <4>5. Sound(e, {}, open) /\ Filled(e, phase, {}) /\ Alike(d, e) /\ Kept(d, e)
        BY <4>1, <4>3, <4>4, AdmittedAsIs DEF open
      <4>6. d \in Memory /\ e \in Memory /\ InTurn(d) /\ Trying(d)
        BY <4>1, <4>5 DEF Sound
      <4>7. Kept(m, e)
        BY <1>0, <4>1, <4>5, <4>6, KeptTransitive
      <4>. QED BY <4>1, <4>2, <4>5, <4>7 DEF Alike, Born, Held
    <3>. QED BY <3>1, <3>2
  <2>. HIDE DEF e, parent, n
  <2>4. e \in Memory
    BY <2>3 DEF Sound
  <2>5. /\ Built(f, j) \in [mem : Memory, new : SUBSET Jobs, root : Jobs]
        /\ Built(f, j).mem = e /\ Built(f, j).new = f.new \cup {j}
    BY <1>0, <2>1, <2>4
  <2>6. f.new \cup {j} \subseteq Held(e)
    BY <1>0, <2>3 DEF Held, Kept
  <2>7. \A k \in K : e.held[k] # 0 \/ Births(e, k) < MaxEnqueues
    <3>. SUFFICES ASSUME NEW k \in K, e.held[k] = 0 PROVE Births(e, k) < MaxEnqueues
      OBVIOUS
    <3>1. k \in Jobs /\ k # j
      BY <2>3 DEF Held
    <3>2. m.held[k] = 0 /\ Births(e, k) = Births(m, k)
      BY <2>3, <3>1, BirthsAlike
    <3>. QED BY <1>0, <3>2
  <2>. HIDE DEF m
  <2>. QED BY <2>3, <2>5, <2>6, <2>7 DEF Growing, m
<1>. QED BY <1>3, <1>4

(* The flow after each node: the recursion defines a function.              *)
Flows(m, j) ==
  CHOOSE flow : flow = [n \in 0 .. Len(Preorder[j]) |->
    IF n = 0 THEN [mem |-> m, new |-> {}, root |-> j] ELSE Built(flow[n - 1], Preorder[j][n])]

LEMMA FlowsFacts ==
  ASSUME NEW m, NEW j \in Jobs
  PROVE  /\ FlowBuilt(m, j) = Flows(m, j)[Len(Preorder[j])].mem /\ Len(Preorder[j]) \in Nat
         /\ Flows(m, j)[0] = [mem |-> m, new |-> {}, root |-> j]
         /\ \A n \in 1 .. Len(Preorder[j]) : Flows(m, j)[n] = Built(Flows(m, j)[n - 1], Preorder[j][n])
<1>. DEFINE N == Len(Preorder[j])
            start == [mem |-> m, new |-> {}, root |-> j]
            Step(f, n) == Built(f, Preorder[j][n])
            Is(g, k) == g = [n \in 0 .. k |-> IF n = 0 THEN start ELSE Step(g[n - 1], n)]
            bad == {k \in Nat : \A g : ~Is(g, k)}
<1>1. N \in Nat
  <2>1. Preorder[j] \in Seq(Jobs)
    BY FlowAssumption
  <2>. QED BY <2>1
<1>2. FlowBuilt(m, j) = Flows(m, j)[N].mem /\ Flows(m, j) = CHOOSE g : Is(g, N)
  BY DEF FlowBuilt, Flows
<1>. HIDE DEF N, start, Step
<1>3. ASSUME NEW k \in bad, \A l \in bad : k <= l PROVE FALSE
  <2>1. CASE k = 0
    <3>1. Is([n \in 0 .. 0 |-> start], 0)
      OBVIOUS
    <3>. QED BY <1>3, <2>1, <3>1
  <2>2. CASE k # 0
    <3>1. k - 1 \in Nat /\ k - 1 \notin bad
      BY <1>3, <2>2
    <3>2. PICK g : Is(g, k - 1)
      BY <3>1
    <3>. DEFINE h == [n \in 0 .. k |-> IF n = 0 THEN start ELSE Step(g[n - 1], n)]
    <3>3. \A n \in 0 .. k - 1 : h[n] = g[n]
      BY <1>3, <3>1, <3>2
    <3>4. \A n \in 0 .. k : n # 0 => h[n - 1] = g[n - 1]
      <4>. SUFFICES ASSUME NEW n \in 0 .. k, n # 0 PROVE h[n - 1] = g[n - 1]
        OBVIOUS
      <4>1. n - 1 \in 0 .. k - 1
        BY <3>1
      <4>. HIDE DEF h
      <4>. QED BY <3>3, <4>1
    <3>5. Is(h, k)
      <4>1. h = [n \in 0 .. k |-> IF n = 0 THEN start ELSE Step(h[n - 1], n)]
        BY <3>4
      <4>. QED BY <4>1
    <3>. QED BY <1>3, <3>5
  <2>. QED BY <2>1, <2>2
<1>4. bad = {}
  <2>. SUFFICES ASSUME bad # {} PROVE FALSE
    OBVIOUS
  <2>1. bad \subseteq Nat
    OBVIOUS
  <2>2. PICK k \in bad : \A l \in bad : k <= l
    BY <2>1, Least
  <2>. QED BY <1>3, <2>2
<1>5. \E g : Is(g, N)
  BY <1>1, <1>4
<1>. HIDE DEF Is
<1>6. Is(Flows(m, j), N)
  BY <1>2, <1>5
<1>7. /\ Flows(m, j)[0] = start
      /\ \A n \in 1 .. N : Flows(m, j)[n] = Step(Flows(m, j)[n - 1], n)
  BY <1>1, <1>6 DEF Is
<1>. QED BY <1>1, <1>2, <1>7 DEF N, start, Step

LEMMA FlowFacts ==
  ASSUME NEW m, Sound(m, {}, transport = "open"), Filled(m, phase, {}), OneOpen(phase), NEW j \in Jobs,
         \A k \in ToSet(Preorder[j]) : m.held[k] # 0 \/ Births(m, k) < MaxEnqueues
  PROVE  /\ Sound(FlowBuilt(m, j), {}, transport = "open") /\ Filled(FlowBuilt(m, j), phase, {})
         /\ Kept(m, FlowBuilt(m, j))
<1>. DEFINE N == Len(Preorder[j])
            K == ToSet(Preorder[j])
            flow == Flows(m, j)
            Good(n) == Growing(flow[n], K) /\ Kept(m, flow[n].mem)
            bad == {n \in 0 .. N : ~Good(n)}
<1>1. /\ FlowBuilt(m, j) = flow[N].mem /\ N \in Nat
      /\ flow[0] = [mem |-> m, new |-> {}, root |-> j]
      /\ \A n \in 1 .. N : flow[n] = Built(flow[n - 1], Preorder[j][n])
  BY FlowsFacts
<1>2. K \in SUBSET Jobs /\ \A n \in 1 .. N : Preorder[j][n] \in K
  <2>1. Preorder[j] \in Seq(Jobs)
    BY FlowAssumption
  <2>2. DOMAIN Preorder[j] = 1 .. N /\ \A n \in 1 .. N : Preorder[j][n] \in Jobs
    BY <2>1
  <2>. QED BY <2>2 DEF ToSet
<1>3. m \in Memory
  BY DEF Sound
<1>. HIDE DEF flow, N, K
<1>4. Good(0)
  <2>1. flow[0].mem = m /\ flow[0].new = {} /\ flow[0] \in [mem : Memory, new : SUBSET Jobs, root : Jobs]
    BY <1>1, <1>3
  <2>2. \A k \in K : m.held[k] # 0 \/ Births(m, k) < MaxEnqueues
    BY DEF K
  <2>3. Kept(m, m)
    BY DEF Kept
  <2>. QED BY <2>1, <2>2, <2>3 DEF Growing
<1>5. ASSUME NEW n \in bad, \A l \in bad : n <= l PROVE FALSE
  <2>1. n \in 1 .. N /\ n - 1 \in 0 .. N /\ n - 1 \notin bad
    BY <1>1, <1>4, <1>5
  <2>2. Growing(flow[n - 1], K) /\ Kept(m, flow[n - 1].mem)
    BY <2>1
  <2>3. flow[n] = Built(flow[n - 1], Preorder[j][n]) /\ Preorder[j][n] \in K
    BY <1>1, <1>2, <2>1
  <2>4. Growing(flow[n], K) /\ Kept(flow[n - 1].mem, flow[n].mem)
    BY <1>2, <2>2, <2>3, BuiltFacts
  <2>5. /\ flow[n - 1].mem \in Memory /\ flow[n].mem \in Memory
        /\ InTurn(flow[n - 1].mem) /\ Trying(flow[n - 1].mem)
    BY <2>2, <2>4 DEF Growing, Sound
  <2>6. Kept(m, flow[n].mem)
    BY <1>3, <2>2, <2>4, <2>5, KeptTransitive
  <2>. QED BY <1>5, <2>4, <2>6
<1>6. bad = {}
  <2>. SUFFICES ASSUME bad # {} PROVE FALSE
    OBVIOUS
  <2>1. bad \subseteq Nat
    BY <1>1
  <2>2. PICK k \in bad : \A l \in bad : k <= l
    BY <2>1, Least
  <2>. QED BY <1>5, <2>2
<1>7. Good(N)
  BY <1>1, <1>6
<1>. QED BY <1>1, <1>7 DEF Growing

-----------------------------------------------------------------------------
(* Deletions.                                                              *)
LEMMA DeletedFacts ==
  ASSUME NEW m \in Memory, NEW S
  PROVE  /\ Deleted(m, S) \in Memory /\ Deleted(m, S).seq = m.seq /\ Deleted(m, S).rec = m.rec
         /\ Deleted(m, S).active = m.active /\ Deleted(m, S).attempts = m.attempts
         /\ \A j \in Jobs : Deleted(m, S).held[j] = IF j \in S THEN 0 ELSE m.held[j]
<1>. DEFINE held == [j \in Jobs |-> IF j \in S THEN 0 ELSE m.held[j]]
            e == [m EXCEPT !.held = held]
<1>1. Deleted(m, S) = e
  BY DEF Deleted
<1>2. held \in [Jobs -> 0 .. MaxEnqueues] /\ \A j \in Jobs : held[j] = IF j \in S THEN 0 ELSE m.held[j]
  BY MemFacts, ConstantsAssumption
<1>. HIDE DEF held
<1>3. /\ e \in Memory /\ e.held = held /\ e.seq = m.seq /\ e.rec = m.rec /\ e.active = m.active
      /\ e.attempts = m.attempts
  BY <1>2 DEF Memory
<1>. HIDE DEF e
<1>. QED BY <1>1, <1>2, <1>3

LEMMA DeletedSound ==
  ASSUME NEW m, NEW X, NEW open, Sound(m, X, open), NEW S
  PROVE  /\ Sound(Deleted(m, S), X, open)
         /\ \A ph : Filled(m, ph, {}) => Filled(Deleted(m, S), ph, {})
<1>. DEFINE e == Deleted(m, S)
<1>0. m \in Memory /\ InTurn(m) /\ Numbered(m) /\ Timed(m) /\ Trying(m) /\ Slots(m, X) /\ Moving(m, open)
  BY DEF Sound
<1>1. /\ e \in Memory /\ e.seq = m.seq /\ e.rec = m.rec /\ e.active = m.active /\ e.attempts = m.attempts
      /\ \A j \in Jobs : e.held[j] = IF j \in S THEN 0 ELSE m.held[j]
  BY <1>0, DeletedFacts
<1>. HIDE DEF e
<1>2. \A j \in Jobs, i \in Insertions : Born(e, j, i) <=> Born(m, j, i)
  BY <1>1 DEF Born
<1>3. InTurn(e)
  <2>. SUFFICES ASSUME NEW k \in Jobs
                PROVE  \E c \in 0 .. MaxEnqueues : e.held[k] \in {0, c} /\ \A i \in Insertions : Born(e, k, i) <=> i <= c
    BY DEF InTurn
  <2>1. PICK c \in 0 .. MaxEnqueues : m.held[k] \in {0, c} /\ \A i \in Insertions : Born(m, k, i) <=> i <= c
    BY <1>0 DEF InTurn
  <2>. QED BY <1>1, <1>2, <2>1
<1>4. Numbered(e) /\ Timed(e)
  BY <1>0, <1>1, <1>2 DEF Numbered, Timed
<1>5. Trying(e)
  <2>1. \A a \in m.attempts : Tries(e, a)
    <3>. SUFFICES ASSUME NEW a \in m.attempts PROVE Tries(e, a)
      OBVIOUS
    <3>1. Tries(m, a) /\ a.job \in Jobs /\ a.inc \in Insertions
      BY <1>0, MemFacts, AttemptFacts DEF Trying, Tries
    <3>. QED BY <1>1, <1>2, <3>1 DEF Tries
  <2>. QED BY <1>0, <1>1, <2>1 DEF Trying
<1>6. Slots(e, X)
  BY <1>0, <1>1 DEF Slots, Of
<1>7. \A j \in Held(e) : j \in Held(m) /\ The(e, j) = The(m, j) /\ e.held[j] = m.held[j]
  BY <1>1 DEF Held, The
<1>8. Moving(e, open)
  BY <1>0, <1>1, <1>7 DEF Moving
<1>9. \A q \in Queues : Waiting(e, q) \subseteq Waiting(m, q)
  BY <1>7 DEF Waiting
<1>10. \A c \in Consumers : Free(e, c) = Free(m, c) /\ ServedBy[c] \in Queues
  BY <1>1, ConstantsAssumption DEF Free
<1>11. \A ph : Filled(m, ph, {}) => Filled(e, ph, {})
  BY <1>9, <1>10 DEF Filled
<1>. QED BY <1>1, <1>3, <1>4, <1>5, <1>6, <1>8, <1>11 DEF Sound, e

-----------------------------------------------------------------------------
(* Parents.                                                                *)
LEMMA ParentFacts ==
  ASSUME NEW m \in Memory, InTurn(m), NEW p \in Refs \cup {None}, ParentPending(m, p)
  PROVE  /\ p \in Refs /\ p[1] \in Held(m) /\ p[1] \in Jobs /\ p[2] \in Insertions /\ m.held[p[1]] = p[2]
         /\ The(m, p[1]) = m.rec[p[1]][p[2]] /\ The(m, p[1]).state = "waiting-children"
         /\ m.rec[p[1]][p[2]] \in Record /\ Born(m, p[1], p[2])
<1>1. p \in Refs /\ m.held[p[1]] = p[2] /\ m.rec[p[1]][p[2]].state = "waiting-children"
  BY DEF ParentPending
<1>2. p[1] \in Jobs /\ p[2] \in Insertions /\ p[2] # 0
  BY <1>1 DEF Refs, Insertions
<1>. QED BY <1>1, <1>2, MemFacts DEF Held, The, Born

LEMMA CountedFacts ==
  ASSUME NEW m, NEW X, Sound(m, X, transport = "open"), OneOpen(phase), Filled(m, phase, {}),
         NEW p \in Refs \cup {None}
  PROVE  /\ Sound(Counted(m, p), X, transport = "open") /\ Filled(Counted(m, p), phase, {})
         /\ Alike(m, Counted(m, p)) /\ Kept(m, Counted(m, p))
<1>. DEFINE open == transport = "open"
<1>0. m \in Memory /\ InTurn(m) /\ Timed(m) /\ Sound(m, X, open)
  BY DEF Sound
<1>. HIDE DEF open
<1>1. CASE ~ParentPending(m, p)
  <2>1. Counted(m, p) = m
    BY <1>1 DEF Counted
  <2>2. Alike(m, m) /\ Kept(m, m)
    BY <1>0 DEF Alike, Kept
  <2>. QED BY <2>1, <2>2
<1>2. CASE ParentPending(m, p)
  <2>. DEFINE j == p[1]
              i == p[2]
              R == m.rec[j][i]
              n == R.pending
              S == [R EXCEPT !.pending = n - 1]
              c == Put(m, j, i, S)
  <2>1. /\ j \in Held(m) /\ j \in Jobs /\ i \in Insertions /\ m.held[j] = i /\ R = The(m, j)
        /\ R.state = "waiting-children" /\ R \in Record /\ Born(m, j, i)
    BY <1>0, <1>2, ParentFacts
  <2>2. n > 0 /\ n \in Nat /\ n - 1 \in Nat /\ ~R.timer
    BY <1>0, <2>1, RecordFacts DEF Timed
  <2>3. [m EXCEPT !.rec[p[1]][p[2]].pending = n - 1] = c
    BY DEF Put
  <2>4. Counted(m, p) = IF n <= 1 THEN Admitted(c, j) ELSE c
    BY <1>2, <2>3 DEF Counted
  <2>5. S \in Record /\ S.seq = R.seq /\ S.made = R.made /\ S.parent = R.parent /\ S.state = R.state
        /\ S.timer = R.timer /\ S.pending = n - 1
    BY <2>1, <2>2 DEF Record
  <2>. HIDE DEF S, n, R, j, i
  <2>6. Edited(m, c, j, i) /\ c.rec[j][i] = S
    <3>1. Edited(m, m, j, i)
      BY <1>0 DEF Edited
    <3>2. S.seq = m.rec[j][i].seq /\ S.made = m.rec[j][i].made /\ S.parent = m.rec[j][i].parent
      BY <2>5 DEF R
    <3>. QED BY <1>0, <2>1, <2>5, <3>1, <3>2, EditedPut
  <2>. HIDE DEF c
  <2>7. CASE n <= 1
    <3>1. ~The(c, j).timer
      BY <2>1, <2>2, <2>5, <2>6 DEF The, Edited
    <3>2. Edited(m, c, j, m.held[j]) /\ The(m, j).state = "waiting-children"
      BY <2>1, <2>6
    <3>. QED BY <2>1, <2>4, <2>7, <3>1, <3>2, AdmittedFacts
  <2>8. CASE ~(n <= 1)
    <3>1. m.rec[j][i].state = "waiting-children"
      BY <2>1 DEF R
    <3>2. Sound(c, X, open)
      BY <1>0, <2>1, <2>2, <2>5, <2>6, <2>8, <3>1, EditSound
    <3>3. Filled(c, phase, {})
      BY <1>0, <2>1, <2>5, <2>6, EditFilled
    <3>4. Alike(m, c) /\ Kept(m, c)
      BY <1>0, <2>1, <2>5, <2>6, EditedFacts
    <3>. QED BY <2>4, <2>8, <3>2, <3>3, <3>4 DEF open
  <2>. QED BY <2>7, <2>8
<1>. QED BY <1>1, <1>2

(* failParent: the parents that fail are in the map and wait for children.  *)
Ups(m, p) ==
  CHOOSE up : up = [n \in 0 .. Cardinality(Jobs) |->
    IF n = 0 THEN {p}
    ELSE up[n - 1] \cup
           {m.rec[q[1]][q[2]].parent : q \in
              {q \in up[n - 1] : /\ OnFailure[q[1]] = "fail"
                                 /\ ParentPending(m, m.rec[q[1]][q[2]].parent)}}]

Upward(m, U) ==
  U \cup {m.rec[q[1]][q[2]].parent : q \in
            {q \in U : OnFailure[q[1]] = "fail" /\ ParentPending(m, m.rec[q[1]][q[2]].parent)}}

LEMMA UpsFacts ==
  ASSUME NEW m, NEW p
  PROVE  /\ Doomed(m, p) = {q[1] : q \in Ups(m, p)[Cardinality(Jobs)]} /\ Cardinality(Jobs) \in Nat
         /\ Ups(m, p)[0] = {p}
         /\ \A n \in 1 .. Cardinality(Jobs) : Ups(m, p)[n] = Upward(m, Ups(m, p)[n - 1])
<1>. DEFINE N == Cardinality(Jobs)
            start == {p}
            Step(U) == Upward(m, U)
            Is(g, k) == g = [n \in 0 .. k |-> IF n = 0 THEN start ELSE Step(g[n - 1])]
            bad == {k \in Nat : \A g : ~Is(g, k)}
<1>1. N \in Nat
  BY ConstantsAssumption, FS_CardinalityType
<1>2. Doomed(m, p) = {q[1] : q \in Ups(m, p)[N]} /\ Ups(m, p) = CHOOSE g : Is(g, N)
  BY DEF Doomed, Ups, Upward
<1>. HIDE DEF N, start, Step
<1>3. ASSUME NEW k \in bad, \A l \in bad : k <= l PROVE FALSE
  <2>1. CASE k = 0
    <3>1. Is([n \in 0 .. 0 |-> start], 0)
      OBVIOUS
    <3>. QED BY <1>3, <2>1, <3>1
  <2>2. CASE k # 0
    <3>1. k - 1 \in Nat /\ k - 1 \notin bad
      BY <1>3, <2>2
    <3>2. PICK g : Is(g, k - 1)
      BY <3>1
    <3>. DEFINE h == [n \in 0 .. k |-> IF n = 0 THEN start ELSE Step(g[n - 1])]
    <3>3. \A n \in 0 .. k - 1 : h[n] = g[n]
      BY <1>3, <3>1, <3>2
    <3>4. \A n \in 0 .. k : n # 0 => h[n - 1] = g[n - 1]
      <4>. SUFFICES ASSUME NEW n \in 0 .. k, n # 0 PROVE h[n - 1] = g[n - 1]
        OBVIOUS
      <4>1. n - 1 \in 0 .. k - 1
        BY <3>1
      <4>. HIDE DEF h
      <4>. QED BY <3>3, <4>1
    <3>5. Is(h, k)
      <4>1. h = [n \in 0 .. k |-> IF n = 0 THEN start ELSE Step(h[n - 1])]
        BY <3>4
      <4>. QED BY <4>1
    <3>. QED BY <1>3, <3>5
  <2>. QED BY <2>1, <2>2
<1>4. bad = {}
  <2>. SUFFICES ASSUME bad # {} PROVE FALSE
    OBVIOUS
  <2>1. bad \subseteq Nat
    OBVIOUS
  <2>2. PICK k \in bad : \A l \in bad : k <= l
    BY <2>1, Least
  <2>. QED BY <1>3, <2>2
<1>. HIDE DEF Is
<1>5. \E g : Is(g, N)
  BY <1>1, <1>4
<1>6. Is(Ups(m, p), N)
  BY <1>2, <1>5
<1>7. Ups(m, p)[0] = start /\ \A n \in 1 .. N : Ups(m, p)[n] = Step(Ups(m, p)[n - 1])
  BY <1>1, <1>6 DEF Is
<1>. QED BY <1>1, <1>2, <1>7 DEF N, start, Step

LEMMA DoomedFacts ==
  ASSUME NEW m \in Memory, InTurn(m), NEW p \in Refs, ParentPending(m, p)
  PROVE  \A q \in Doomed(m, p) : q \in Held(m) /\ The(m, q).state = "waiting-children"
<1>. DEFINE N == Cardinality(Jobs)
            up == Ups(m, p)
            Good(n) == \A r \in up[n] : r \in Refs /\ ParentPending(m, r)
            bad == {n \in 0 .. N : ~Good(n)}
<1>1. /\ Doomed(m, p) = {q[1] : q \in up[N]} /\ N \in Nat /\ up[0] = {p}
      /\ \A n \in 1 .. N : up[n] = Upward(m, up[n - 1])
  BY UpsFacts
<1>. HIDE DEF up, N
<1>2. ASSUME NEW n \in bad, \A l \in bad : n <= l PROVE FALSE
  <2>1. n \in 1 .. N /\ n - 1 \in 0 .. N /\ n - 1 \notin bad
    BY <1>1, <1>2
  <2>2. Good(n - 1) /\ up[n] = Upward(m, up[n - 1])
    BY <1>1, <2>1
  <2>3. ASSUME NEW r \in up[n] PROVE r \in Refs /\ ParentPending(m, r)
    <3>1. CASE r \in up[n - 1]
      BY <2>2, <3>1
    <3>2. CASE r \notin up[n - 1]
      <4>1. PICK q \in up[n - 1] : r = m.rec[q[1]][q[2]].parent /\ ParentPending(m, r)
        BY <2>2, <2>3, <3>2 DEF Upward
      <4>2. q[1] \in Jobs /\ q[2] \in Insertions
        BY <2>2, <4>1 DEF Refs, Insertions
      <4>3. r \in Refs \cup {None}
        BY <4>1, <4>2, MemFacts, RecordFacts
      <4>. QED BY <4>1, <4>3, ParentFacts
    <3>. QED BY <3>1, <3>2
  <2>. QED BY <1>2, <2>3
<1>3. bad = {}
  <2>. SUFFICES ASSUME bad # {} PROVE FALSE
    OBVIOUS
  <2>1. bad \subseteq Nat
    BY <1>1
  <2>2. PICK k \in bad : \A l \in bad : k <= l
    BY <2>1, Least
  <2>. QED BY <1>2, <2>2
<1>4. Good(N)
  BY <1>1, <1>3
<1>. QED BY <1>1, <1>4, ParentFacts

LEMMA FelledFacts ==
  ASSUME NEW m \in Memory, InTurn(m), NEW r \in Refs
  PROVE  /\ m.rec[r[1]][r[2]].parent \in Refs \cup {None}
         /\ \A q \in Felled(m, r) : q \in Held(m) /\ The(m, q).state = "waiting-children"
<1>. DEFINE p == m.rec[r[1]][r[2]].parent
<1>1. r[1] \in Jobs /\ r[2] \in Insertions
  BY DEF Refs, Insertions
<1>2. p \in Refs \cup {None}
  BY <1>1, MemFacts, RecordFacts
<1>3. ASSUME ParentPending(m, p) PROVE \A q \in Doomed(m, p) : q \in Held(m) /\ The(m, q).state = "waiting-children"
  BY <1>2, <1>3, ParentFacts, DoomedFacts
<1>4. \A q \in Felled(m, r) : ParentPending(m, p) /\ q \in Doomed(m, p)
  BY DEF Felled
<1>. QED BY <1>2, <1>3, <1>4

LEMMA SettledFacts ==
  ASSUME NEW m, NEW X, Sound(m, X, transport = "open"), OneOpen(phase), Filled(m, phase, {}), NEW r \in Refs
  PROVE  /\ Sound(Settled(m, r), X, transport = "open") /\ Filled(Settled(m, r), phase, {})
         /\ \A j \in Jobs : m.held[j] # 0 /\ j \notin Felled(m, r) => Settled(m, r).held[j] = m.held[j]
         /\ \A a \in Settled(m, r).attempts : a \in m.attempts \/ Settled(m, r).held[a.job] = a.inc
<1>. DEFINE p == m.rec[r[1]][r[2]].parent
            e == Settled(m, r)
            open == transport = "open"
<1>0. m \in Memory /\ InTurn(m) /\ Sound(m, {}, open) \in BOOLEAN
  BY DEF Sound
<1>1. p \in Refs \cup {None}
  BY <1>0, FelledFacts
<1>. HIDE DEF p
<1>2. CASE OnFailure[r[1]] = "ignore"
  <2>1. e = Counted(m, p)
    BY <1>2 DEF Settled, p
  <2>2. Sound(e, X, transport = "open") /\ Filled(e, phase, {}) /\ Kept(m, e)
    BY <1>1, <2>1, CountedFacts
  <2>. QED BY <2>2 DEF Kept
<1>3. CASE OnFailure[r[1]] = "continue" /\ ParentPending(m, p)
  <2>1. e = Admitted(m, p[1])
    BY <1>3 DEF Settled, p
  <2>2. p[1] \in Held(m) /\ The(m, p[1]).state = "waiting-children"
    BY <1>0, <1>1, <1>3, ParentFacts
  <2>3. Sound(e, X, transport = "open") /\ Filled(e, phase, {}) /\ Kept(m, e)
    <3>1. {} \in SUBSET {p[1]}
      OBVIOUS
    <3>. QED BY <2>1, <2>2, <3>1, AdmittedAsIs
  <2>. QED BY <2>3 DEF Kept
<1>4. CASE ~(OnFailure[r[1]] = "ignore") /\ ~(OnFailure[r[1]] = "continue" /\ ParentPending(m, p))
  <2>1. e = Deleted(m, Felled(m, r))
    BY <1>4 DEF Settled, p
  <2>2. Sound(e, X, transport = "open") /\ Filled(e, phase, {})
    BY <2>1, DeletedSound
  <2>. QED BY <1>0, <2>1, <2>2, DeletedFacts
<1>. QED BY <1>2, <1>3, <1>4

-----------------------------------------------------------------------------
(* runAttempt.                                                             *)
Answered(a, ok, done) == [a EXCEPT !.phase = "callback", !.ok = ok, !.done = done]

LEMMA AnsweredFacts ==
  ASSUME NEW a \in Attempt, NEW ok \in BOOLEAN, NEW done \in BOOLEAN, NEW b, b = Answered(a, ok, done)
  PROVE  /\ b \in Attempt /\ b.job = a.job /\ b.inc = a.inc /\ b.cons = a.cons /\ b.number = a.number
         /\ b.phase = "callback" /\ b.ok = ok /\ b.done = done
<1>1. b \in Attempt
  BY DEF Attempt, Answered
<1>. QED BY <1>1 DEF Attempt, Answered

Made(R) == [R EXCEPT !.made = @ + 1]

LEMMA MadeFacts ==
  ASSUME NEW R \in Record
  PROVE  /\ Made(R) \in Record /\ Made(R).seq = R.seq /\ Made(R).made = R.made + 1 /\ Made(R).state = R.state
         /\ (Made(R).timer <=> R.timer) /\ Made(R).parent = R.parent /\ Made(R).pending = R.pending
BY DEF Record, Made

LEMMA CalledFacts ==
  ASSUME NEW m \in Memory, NEW a \in m.attempts, a.inc \in Insertions, NEW ok \in BOOLEAN, NEW done \in BOOLEAN
  PROVE  /\ Called(m, a, ok, done) \in Memory /\ Called(m, a, ok, done).held = m.held
         /\ Called(m, a, ok, done).seq = m.seq /\ Called(m, a, ok, done).active = m.active
         /\ Called(m, a, ok, done).attempts = (m.attempts \ {a}) \cup {Answered(a, ok, done)}
         /\ \A k \in Jobs, l \in Insertions :
              Called(m, a, ok, done).rec[k][l] =
                IF k = a.job /\ l = a.inc THEN Made(m.rec[k][l]) ELSE m.rec[k][l]
<1>. DEFINE b == Answered(a, ok, done)
            j == a.job
            i == a.inc
            T == Made(m.rec[j][i])
            f == Put(m, j, i, T)
            A == (m.attempts \ {a}) \cup {b}
            g == [f EXCEPT !.attempts = A]
<1>0. a \in Attempt /\ j \in Jobs /\ i \in Insertions /\ m.rec[j][i] \in Record
  BY MemFacts, AttemptFacts
<1>1. Called(m, a, ok, done) = g
  BY DEF Called, Put, Answered, Made
<1>2. T \in Record
  BY <1>0, MadeFacts
<1>3. b \in Attempt
  BY <1>0, AnsweredFacts
<1>4. A \subseteq Attempt
  BY <1>3, MemFacts
<1>. HIDE DEF A, T, b
<1>5. /\ f \in Memory /\ f.held = m.held /\ f.seq = m.seq /\ f.active = m.active /\ f.attempts = m.attempts
      /\ \A k \in Jobs, l \in Insertions : f.rec[k][l] = IF k = j /\ l = i THEN T ELSE m.rec[k][l]
  BY <1>0, <1>2, PutFacts
<1>. HIDE DEF f
<1>6. /\ g \in Memory /\ g.held = f.held /\ g.seq = f.seq /\ g.rec = f.rec /\ g.active = f.active
      /\ g.attempts = A
  BY <1>4, <1>5 DEF Memory
<1>. HIDE DEF g
<1>7. \A k \in Jobs, l \in Insertions : g.rec[k][l] = IF k = j /\ l = i THEN Made(m.rec[k][l]) ELSE m.rec[k][l]
  BY <1>5, <1>6 DEF T
<1>. QED BY <1>1, <1>5, <1>6, <1>7 DEF A, b

(* The handler of a has ended: its callback b runs, and the record may go.    *)
Concluded(m, a, b, e, R, open) ==
  /\ a.phase = "process" /\ b.phase = "callback"
  /\ b.job = a.job /\ b.inc = a.inc /\ b.cons = a.cons /\ b.number = a.number
  /\ e.seq = m.seq /\ e.active = m.active /\ e.attempts = (m.attempts \ {a}) \cup {b}
  /\ \A k \in Jobs : e.held[k] \in {0, m.held[k]}
  /\ \A k \in Jobs, l \in Insertions : ~(k = a.job /\ l = a.inc) => e.rec[k][l] = m.rec[k][l]
  /\ R = e.rec[a.job][a.inc] /\ R.seq = m.rec[a.job][a.inc].seq /\ R.made = m.rec[a.job][a.inc].made + 1
  /\ R.state \in {"active", "delayed"} /\ (R.timer => R.state = "delayed")
  /\ e.held[a.job] = a.inc => R.state = "delayed" /\ (open => R.timer)

(* The end of a handler: the record is deleted or waits for its backoff.    *)
LEMMA EndsSound ==
  ASSUME NEW m, NEW X, NEW open, Sound(m, X, open), NEW a \in m.attempts, NEW b \in Attempt, NEW e \in Memory,
         NEW R, Concluded(m, a, b, e, R, open)
  PROVE  Sound(e, X, open) /\ \A ph : Filled(m, ph, {}) => Filled(e, ph, {})
<1>0. m \in Memory /\ InTurn(m) /\ Numbered(m) /\ Timed(m) /\ Trying(m) /\ Slots(m, X) /\ Moving(m, open)
  BY DEF Sound
<1>. DEFINE j == a.job
            i == a.inc
<1>a. a.phase = "process" /\ b.phase = "callback" /\ b.job = j /\ b.inc = i /\ b.cons = a.cons /\ b.number = a.number
  BY DEF Concluded
<1>b. e.seq = m.seq /\ e.active = m.active /\ e.attempts = (m.attempts \ {a}) \cup {b}
  BY DEF Concluded
<1>c. \A k \in Jobs : e.held[k] \in {0, m.held[k]}
  BY DEF Concluded
<1>d. \A k \in Jobs, l \in Insertions : ~(k = j /\ l = i) => e.rec[k][l] = m.rec[k][l]
  BY DEF Concluded
<1>e. /\ R = e.rec[j][i] /\ R.seq = m.rec[j][i].seq /\ R.made = m.rec[j][i].made + 1
      /\ R.state \in {"active", "delayed"} /\ (R.timer => R.state = "delayed")
  BY DEF Concluded
<1>f. e.held[j] = i => R.state = "delayed" /\ (open => R.timer)
  BY DEF Concluded
<1>1. /\ a \in Attempt /\ Tries(m, a) /\ j \in Jobs /\ i \in Insertions /\ a.number \in Nat
      /\ m.rec[j][i].state = "active" /\ a.number = m.rec[j][i].made
      /\ Ref(a) = <<j, i>> /\ Ref(b) = <<j, i>>
  BY <1>0, <1>a, MemFacts, AttemptFacts DEF Trying, Tries, Ref
<1>. HIDE DEF j, i
<1>2. \A k \in Jobs, l \in Insertions :
        e.rec[k][l] = IF k = j /\ l = i THEN R ELSE m.rec[k][l]
  BY <1>d, <1>e
<1>3. \A k \in Jobs, l \in Insertions :
        (Born(e, k, l) <=> Born(m, k, l)) /\ e.rec[k][l].seq = m.rec[k][l].seq
  BY <1>1, <1>2, <1>e DEF Born
<1>4. InTurn(e)
  <2>. SUFFICES ASSUME NEW k \in Jobs
                PROVE  \E c \in 0 .. MaxEnqueues : e.held[k] \in {0, c} /\ \A l \in Insertions : Born(e, k, l) <=> l <= c
    BY DEF InTurn
  <2>1. PICK c \in 0 .. MaxEnqueues : m.held[k] \in {0, c} /\ \A l \in Insertions : Born(m, k, l) <=> l <= c
    BY <1>0 DEF InTurn
  <2>. QED BY <1>3, <1>c, <2>1
<1>5. Numbered(e)
  BY <1>0, <1>3, <1>b DEF Numbered
<1>6. Timed(e)
  <2>. SUFFICES ASSUME NEW k \in Jobs, NEW l \in Insertions
                PROVE  /\ e.rec[k][l].timer => e.rec[k][l].state = "delayed"
                       /\ e.rec[k][l].state = "waiting-children" => e.rec[k][l].pending > 0
    BY DEF Timed
  <2>1. CASE k = j /\ l = i
    <3>1. e.rec[k][l] = R
      BY <1>2, <2>1
    <3>. QED BY <3>1, <1>e
  <2>2. CASE ~(k = j /\ l = i)
    <3>1. e.rec[k][l] = m.rec[k][l]
      BY <1>2, <2>2
    <3>. QED BY <1>0, <3>1 DEF Timed
  <2>. QED BY <2>1, <2>2
<1>7. ASSUME NEW d \in m.attempts, d # a PROVE Tries(e, d) /\ ~(Ref(d) = Ref(b) /\ d.number = b.number)
  <2>1. /\ Tries(m, d) /\ d.job \in Jobs /\ d.inc \in Insertions /\ d.number \in Nat
        /\ d.phase \in {"process", "callback"} /\ Ref(d) = <<d.job, d.inc>>
    BY <1>0, MemFacts, AttemptFacts DEF Trying, Tries, Ref
  <2>2. ~(Ref(d) = Ref(a) /\ d.number = a.number)
    BY <1>0, <1>7 DEF Trying
  <2>3. CASE d.job = j /\ d.inc = i
    <3>1. d.phase = "callback" /\ d.number < m.rec[j][i].made
      BY <1>1, <2>1, <2>2, <2>3 DEF Tries
    <3>2. e.rec[j][i].made = m.rec[j][i].made + 1 /\ Born(e, j, i) /\ m.rec[j][i].made \in Nat
      <4>1. Born(m, j, i) /\ m.rec[j][i].made \in Nat
        BY <1>1 DEF Tries, j, i
      <4>. QED BY <1>1, <1>2, <1>3, <1>e, <4>1
    <3>3. Tries(e, d)
      BY <2>1, <2>3, <3>1, <3>2 DEF Tries
    <3>4. d.number # b.number
      BY <1>1, <1>a, <2>2, <2>1, <2>3
    <3>. QED BY <3>3, <3>4
  <2>4. CASE ~(d.job = j /\ d.inc = i)
    <3>1. Ref(d) # Ref(b)
      BY <1>1, <2>1, <2>4
    <3>2. e.rec[d.job][d.inc] = m.rec[d.job][d.inc]
      BY <1>2, <2>1, <2>4
    <3>3. Tries(e, d)
      BY <2>1, <3>2 DEF Tries, Born
    <3>. QED BY <3>1, <3>3
  <2>. QED BY <2>3, <2>4
<1>8. Tries(e, b)
  <2>1. Born(e, j, i) /\ e.rec[j][i].made = m.rec[j][i].made + 1
    <3>1. Born(m, j, i)
      BY <1>1 DEF Tries, j, i
    <3>. QED BY <1>1, <1>2, <1>3, <1>e, <3>1
  <2>2. b.number < e.rec[j][i].made
    BY <1>1, <1>a, <2>1
  <2>. QED BY <1>1, <1>a, <2>1, <2>2 DEF Tries, j, i
<1>9. Trying(e)
  <2>1. IsFiniteSet((m.attempts \ {a}) \cup {b})
    BY <1>0, FS_RemoveElement, FS_AddElement DEF Trying
  <2>2. \A c \in e.attempts : Tries(e, c)
    BY <1>7, <1>8, <1>b
  <2>3. \A c, d \in e.attempts : Ref(c) = Ref(d) /\ c.number = d.number => c = d
    BY <1>0, <1>7, <1>b DEF Trying
  <2>. QED BY <1>b, <2>1, <2>2, <2>3 DEF Trying
<1>10. Slots(e, X)
  <2>. SUFFICES ASSUME NEW d \in Consumers PROVE Cardinality(Of(e, d)) = Cardinality(Of(m, d))
    BY <1>0, <1>b DEF Slots
  <2>1. IsFiniteSet(Of(m, d))
    BY <1>0, FS_Subset DEF Of, Trying
  <2>2. CASE d = a.cons
    <3>1. Of(e, d) = (Of(m, d) \ {a}) \cup {b} /\ a \in Of(m, d)
      BY <1>a, <1>b, <2>2 DEF Of
    <3>2. b \notin Of(m, d) \ {a}
      BY <1>7 DEF Of
    <3>3. /\ IsFiniteSet(Of(m, d) \ {a}) /\ Cardinality(Of(m, d) \ {a}) = Cardinality(Of(m, d)) - 1
          /\ Cardinality(Of(m, d)) \in Nat /\ Cardinality(Of(m, d) \ {a}) \in Nat
      BY <2>1, <3>1, FS_RemoveElement, FS_CardinalityType
    <3>4. Cardinality((Of(m, d) \ {a}) \cup {b}) = Cardinality(Of(m, d) \ {a}) + 1
      BY <3>2, <3>3, FS_AddElement
    <3>. QED BY <3>1, <3>3, <3>4
  <2>3. CASE d # a.cons
    <3>1. Of(e, d) = Of(m, d)
      BY <1>a, <1>b, <2>3 DEF Of
    <3>. QED BY <3>1
  <2>. QED BY <2>2, <2>3
<1>11. \A k \in Held(e) : k \in Held(m) /\ k \in Jobs /\ e.held[k] = m.held[k] /\ m.held[k] \in Insertions
  BY <1>0, <1>c, MemFacts DEF Held
<1>12. Moving(e, open)
  <2>. SUFFICES ASSUME NEW k \in Held(e)
                PROVE  /\ The(e, k).state = "delayed" /\ open => The(e, k).timer
                       /\ The(e, k).state = "active" =>
                            \E c \in e.attempts : Ref(c) = <<k, e.held[k]>> /\ c.phase = "process"
    BY DEF Moving
  <2>1. CASE k = j /\ e.held[k] = i
    <3>1. The(e, k) = R
      BY <1>2, <1>11, <2>1 DEF The
    <3>2. R.state = "delayed" /\ (open => R.timer)
      BY <1>f, <2>1
    <3>. QED BY <3>1, <3>2
  <2>2. CASE ~(k = j /\ e.held[k] = i)
    <3>1. The(e, k) = The(m, k)
      BY <1>2, <1>11, <2>2 DEF The
    <3>2. The(e, k).state = "delayed" /\ open => The(e, k).timer
      <4>1. k \in Held(m) /\ The(e, k) = The(m, k)
        BY <1>11, <3>1
      <4>. QED BY <1>0, <4>1, Zenon DEF Moving
    <3>3. ASSUME The(e, k).state = "active"
          PROVE  \E c \in e.attempts : Ref(c) = <<k, e.held[k]>> /\ c.phase = "process"
      <4>1. PICK c \in m.attempts : Ref(c) = <<k, m.held[k]>> /\ c.phase = "process"
        <5>1. k \in Held(m) /\ The(m, k).state = "active"
          BY <1>11, <3>1, <3>3
        <5>. QED BY <1>0, <5>1 DEF Moving
      <4>2. Ref(c) = <<k, e.held[k]>>
        BY <1>11, <4>1
      <4>3. c # a
        BY <1>1, <2>2, <4>2
      <4>. QED BY <1>b, <4>1, <4>2, <4>3
    <3>. QED BY <3>2, <3>3
  <2>. QED BY <2>1, <2>2
<1>13. \A ph : Filled(m, ph, {}) => Filled(e, ph, {})
  <2>1. \A k \in Held(e) : The(e, k).state = "waiting" => The(m, k).state = "waiting"
    BY <1>2, <1>11, <1>e DEF The
  <2>2. \A q \in Queues : Waiting(e, q) \subseteq Waiting(m, q)
    BY <1>11, <2>1 DEF Waiting
  <2>3. \A c \in Consumers : Free(e, c) = Free(m, c) /\ ServedBy[c] \in Queues
    BY <1>b, ConstantsAssumption DEF Free
  <2>. QED BY <2>2, <2>3 DEF Filled
<1>. QED BY <1>4, <1>5, <1>6, <1>9, <1>10, <1>12, <1>13, <1>0 DEF Sound

-----------------------------------------------------------------------------
(* The slot of an attempt whose callback returned, and then its record.      *)
LEMMA LeftSound ==
  ASSUME NEW m, NEW open, Sound(m, {}, open), NEW a \in m.attempts, a.phase = "callback",
         NEW e \in Memory, e.held = m.held, e.seq = m.seq, e.rec = m.rec, e.active = m.active,
         e.attempts = m.attempts \ {a}
  PROVE  /\ Sound(e, {a.cons}, open) /\ \A ph : Filled(m, ph, {}) => Filled(e, ph, {})
         /\ Alike(m, e) /\ Kept(m, e)
<1>0. m \in Memory /\ InTurn(m) /\ Numbered(m) /\ Timed(m) /\ Trying(m) /\ Slots(m, {}) /\ Moving(m, open)
  BY DEF Sound
<1>2. \A k \in Jobs, l \in Insertions : Born(e, k, l) <=> Born(m, k, l)
  BY DEF Born
<1>3. InTurn(e) /\ Numbered(e) /\ Timed(e)
  BY <1>0, <1>2 DEF InTurn, Numbered, Timed
<1>4. \A d \in e.attempts : Tries(e, d)
  <2>. SUFFICES ASSUME NEW d \in e.attempts PROVE Tries(e, d)
    OBVIOUS
  <2>1. Tries(m, d) /\ d.job \in Jobs /\ d.inc \in Insertions
    BY <1>0, MemFacts, AttemptFacts DEF Trying, Tries
  <2>. QED BY <1>2, <2>1 DEF Tries
<1>5. Trying(e)
  BY <1>0, <1>4, FS_RemoveElement DEF Trying
<1>6. Slots(e, {a.cons})
  <2>. SUFFICES ASSUME NEW d \in Consumers
                PROVE  /\ e.active[d] <= Concurrency
                       /\ e.active[d] = Cardinality(Of(e, d)) + (IF d \in {a.cons} THEN 1 ELSE 0)
    BY DEF Slots
  <2>1. IsFiniteSet(Of(m, d)) /\ m.active[d] <= Concurrency /\ m.active[d] = Cardinality(Of(m, d)) + 0
    BY <1>0, FS_Subset DEF Of, Trying, Slots
  <2>2. CASE d = a.cons
    <3>1. Of(e, d) = Of(m, d) \ {a} /\ a \in Of(m, d)
      BY <2>2 DEF Of
    <3>2. Cardinality(Of(m, d) \ {a}) = Cardinality(Of(m, d)) - 1 /\ Cardinality(Of(m, d)) \in Nat
      BY <2>1, <3>1, FS_RemoveElement, FS_CardinalityType
    <3>. QED BY <2>1, <2>2, <3>1, <3>2
  <2>3. CASE d # a.cons
    <3>1. Of(e, d) = Of(m, d)
      BY <2>3 DEF Of
    <3>. QED BY <2>1, <2>3, <3>1
  <2>. QED BY <2>2, <2>3
<1>7. Moving(e, open)
  <2>1. Held(e) = Held(m) /\ \A k \in Held(m) : The(e, k) = The(m, k)
    BY DEF Held, The
  <2>. QED BY <1>0, <2>1 DEF Moving
<1>8. \A ph : Filled(m, ph, {}) => Filled(e, ph, {})
  BY DEF Filled, Free, Waiting, Held, The
<1>. QED BY <1>2, <1>3, <1>5, <1>6, <1>7, <1>8 DEF Sound, Alike, Kept

Freed(m, c) == [m EXCEPT !.active[c] = @ - 1]

LEMMA FreedSound ==
  ASSUME NEW m, NEW open, NEW c \in Consumers, Sound(m, {c}, open), NEW ph, OneOpen(ph), Filled(m, ph, {})
  PROVE  /\ Sound(Freed(m, c), {}, open) /\ Filled(Freed(m, c), ph, {j \in Jobs : QueueOf[j] = ServedBy[c]})
         /\ Alike(m, Freed(m, c)) /\ Kept(m, Freed(m, c))
         /\ Freed(m, c).attempts = m.attempts /\ Freed(m, c).rec = m.rec
<1>. DEFINE e == Freed(m, c)
            J == {j \in Jobs : QueueOf[j] = ServedBy[c]}
<1>a. e = [m EXCEPT !.active[c] = @ - 1] /\ J = {j \in Jobs : QueueOf[j] = ServedBy[c]}
  BY DEF Freed
<1>. HIDE DEF e, J
<1>0. m \in Memory /\ InTurn(m) /\ Numbered(m) /\ Timed(m) /\ Trying(m) /\ Slots(m, {c}) /\ Moving(m, open)
  BY DEF Sound
<1>1. m.active[c] = Cardinality(Of(m, c)) + 1 /\ Cardinality(Of(m, c)) \in Nat /\ m.active[c] - 1 \in Nat
  <2>1. IsFiniteSet(Of(m, c))
    BY <1>0, FS_Subset DEF Of, Trying
  <2>2. Cardinality(Of(m, c)) \in Nat
    BY <2>1, FS_CardinalityType
  <2>. QED BY <1>0, <2>2 DEF Slots
<1>. DEFINE active == [m.active EXCEPT ![c] = m.active[c] - 1]
<1>2. active \in [Consumers -> Nat] /\ \A d \in Consumers : active[d] = IF d = c THEN m.active[c] - 1 ELSE m.active[d]
  BY <1>0, <1>1, MemFacts
<1>3. e = [m EXCEPT !.active = active]
  BY <1>a
<1>. HIDE DEF active
<1>4. /\ e \in Memory /\ e.held = m.held /\ e.seq = m.seq /\ e.rec = m.rec /\ e.active = active
      /\ e.attempts = m.attempts
  BY <1>0, <1>2, <1>3 DEF Memory
<1>5. \A k \in Jobs, l \in Insertions : Born(e, k, l) <=> Born(m, k, l)
  BY <1>4 DEF Born
<1>6. InTurn(e) /\ Numbered(e) /\ Timed(e)
  BY <1>0, <1>4, <1>5 DEF InTurn, Numbered, Timed
<1>7. \A d \in e.attempts : Tries(e, d)
  <2>. SUFFICES ASSUME NEW d \in e.attempts PROVE Tries(e, d)
    OBVIOUS
  <2>1. Tries(m, d) /\ d.job \in Jobs /\ d.inc \in Insertions
    BY <1>0, <1>4, MemFacts, AttemptFacts DEF Trying, Tries
  <2>. QED BY <1>4, <1>5, <2>1 DEF Tries
<1>8. Trying(e)
  BY <1>0, <1>4, <1>7 DEF Trying
<1>9. Slots(e, {})
  <2>. SUFFICES ASSUME NEW d \in Consumers
                PROVE  e.active[d] <= Concurrency /\ e.active[d] = Cardinality(Of(e, d)) + 0
    BY DEF Slots
  <2>1. /\ m.active[d] <= Concurrency /\ m.active[d] = Cardinality(Of(m, d)) + (IF d \in {c} THEN 1 ELSE 0)
        /\ m.active[d] \in Nat /\ Concurrency \in Nat /\ Of(e, d) = Of(m, d)
    BY <1>0, <1>4, MemFacts, ConstantsAssumption DEF Slots, Of
  <2>2. CASE d = c
    BY <1>1, <1>2, <1>4, <2>1, <2>2
  <2>3. CASE d # c
    <3>1. Cardinality(Of(m, d)) \in Nat
      BY <1>0, FS_Subset, FS_CardinalityType DEF Of, Trying
    <3>. QED BY <1>2, <1>4, <2>1, <2>3, <3>1
  <2>. QED BY <2>2, <2>3
<1>10. Held(e) = Held(m) /\ \A k \in Held(m) : The(e, k) = The(m, k)
  BY <1>4 DEF Held, The
<1>11. Moving(e, open)
  BY <1>0, <1>4, <1>10 DEF Moving
<1>12. Filled(e, ph, J)
  <2>. SUFFICES ASSUME NEW d \in Consumers, ph[d] = "open"
                PROVE  Free(e, d) = 0 \/ Waiting(e, ServedBy[d]) \subseteq J
    BY DEF Filled
  <2>1. Waiting(e, ServedBy[d]) = Waiting(m, ServedBy[d])
    BY <1>10 DEF Waiting
  <2>2. CASE d = c
    BY <1>a, <2>2 DEF Waiting, Held
  <2>3. CASE d # c
    <3>1. Free(e, d) = Free(m, d)
      BY <1>2, <1>4, <2>3 DEF Free
    <3>. QED BY <2>1, <3>1 DEF Filled
  <2>. QED BY <2>2, <2>3
<1>13. Sound(e, {}, open) /\ Alike(m, e) /\ Kept(m, e)
  BY <1>4, <1>5, <1>6, <1>8, <1>9, <1>11 DEF Sound, Alike, Kept
<1>. QED BY <1>4, <1>12, <1>13 DEF e, J

-----------------------------------------------------------------------------
(* The invariant is inductive.                                             *)
LEMMA AstrayStep ==
  ASSUME NEW m, NEW gone, Astray(m, gone), NEW n, NEW more, gone \subseteq more,
         \A a \in n.attempts : a.phase = "process" => a \in m.attempts \/ n.held[a.job] = a.inc,
         \A a \in n.attempts \cap m.attempts : a.phase = "process" /\ m.held[a.job] = a.inc =>
           n.held[a.job] = a.inc \/ \E i \in Insertions : <<a.job, i>> \in more
  PROVE  Astray(n, more)
BY DEF Astray

LEMMA AstrayKept ==
  ASSUME NEW m, NEW X, NEW open, Sound(m, X, open), NEW gone, Astray(m, gone), NEW n, Kept(m, n)
  PROVE  Astray(n, gone)
<1>1. \A a \in m.attempts : a.job \in Jobs /\ a.inc # 0
  BY MemFacts, AttemptFacts DEF Sound, Trying, Tries, Insertions
<1>. QED BY <1>1, AstrayStep DEF Kept

LEMMA InvAfter ==
  ASSUME Sound(mem', {}, transport' = "open"), OneOpen(phase'), Filled(mem', phase', {}), Astray(mem', removed'),
         phase' \in [Consumers -> {"new", "open", "closing", "closed"}], transport' \in {"open", "closing", "closed"},
         handle' \in [Handles -> Refs \cup {None}],
         reported' \subseteq Refs, removed' \subseteq Refs, lost' \subseteq Refs
  PROVE  TransportInv'
<1>1. mem' \in Memory /\ Slots(mem', {})
  BY DEF Sound
<1>2. mem'.active \in [Consumers -> 0 .. Concurrency]
  BY <1>1, MemFacts, ConstantsAssumption DEF Slots
<1>3. /\ mem'.held \in [Jobs -> 0 .. MaxEnqueues] /\ mem'.rec \in [Jobs -> [1 .. MaxEnqueues -> Record]]
      /\ mem'.seq \in Nat /\ mem'.attempts \subseteq Attempt
  BY <1>1 DEF Memory
<1>. QED BY <1>2, <1>3 DEF TransportInv, TypeOK

LEMMA EnqueueInv == ASSUME TransportInv, NEW j \in Jobs, Enqueue(j) PROVE TransportInv'
<1>. DEFINE m == Inserted(mem, j, "waiting", None, 0)
<1>0. TypeOK /\ Sound(mem, {}, transport = "open") /\ OneOpen(phase) /\ Filled(mem, phase, {}) /\ Astray(mem, removed)
  BY DEF TransportInv
<1>1. /\ Sound(m, {}, transport = "open") /\ Kept(mem, m) /\ Filled(m, phase, IF "waiting" = "waiting" THEN {j} ELSE {})
      /\ j \in Held(m) /\ The(m, j).state = "waiting"
  <2>1. /\ 0 \in Nat /\ "waiting" \in {"waiting", "waiting-children"} /\ ("waiting" = "waiting-children" => 0 > 0)
        /\ None \in Refs \cup {None} /\ mem.held[j] = 0 /\ Births(mem, j) < MaxEnqueues
    BY DEF Enqueue
  <2>. HIDE DEF m
  <2>. QED BY <1>0, <2>1, InsertedSound DEF m
<1>2. mem' = Admitted(m, j) /\ UNCHANGED <<phase, transport, handle, fates>>
  BY DEF Enqueue
<1>. HIDE DEF m
<1>3. Filled(m, phase, {j}) /\ {j} \in SUBSET {j}
  BY <1>1
<1>4. Sound(mem', {}, transport = "open") /\ Filled(mem', phase, {}) /\ Kept(m, mem')
  BY <1>0, <1>1, <1>2, <1>3, AdmittedAsIs
<1>5. Astray(m, removed)
  BY <1>0, <1>1, AstrayKept
<1>6. Astray(mem', removed)
  BY <1>1, <1>4, <1>5, AstrayKept
<1>. QED BY <1>0, <1>2, <1>4, <1>6, InvAfter DEF TypeOK, fates

LEMMA EnqueueFlowInv == ASSUME TransportInv, NEW j \in Jobs, EnqueueFlow(j) PROVE TransportInv'
<1>0. TypeOK /\ Sound(mem, {}, transport = "open") /\ OneOpen(phase) /\ Filled(mem, phase, {}) /\ Astray(mem, removed)
  BY DEF TransportInv
<1>1. /\ mem' = FlowBuilt(mem, j) /\ UNCHANGED <<phase, transport, handle, fates>>
      /\ \A k \in ToSet(Preorder[j]) : mem.held[k] # 0 \/ Births(mem, k) < MaxEnqueues
  BY DEF EnqueueFlow
<1>2. Sound(mem', {}, transport = "open") /\ Filled(mem', phase, {}) /\ Kept(mem, mem')
  BY <1>0, <1>1, FlowFacts
<1>3. Astray(mem', removed)
  BY <1>0, <1>2, AstrayKept
<1>. QED BY <1>0, <1>1, <1>2, <1>3, InvAfter DEF TypeOK, fates

(* A timer's record, before the pump.                                       *)
LEMMA TimerFacts ==
  ASSUME TransportInv, NEW j \in Jobs, NEW i \in 1 .. MaxEnqueues, Timer(j, i)
  PROVE  /\ Edited(mem, Fired(mem, j, i), j, i) /\ i \in Insertions
         /\ mem.rec[j][i].state = "delayed" /\ Born(mem, j, i)
         /\ Fired(mem, j, i).rec[j][i].state = "waiting"
         /\ Fired(mem, j, i).rec[j][i].pending = mem.rec[j][i].pending
         /\ Sound(Fired(mem, j, i), {}, transport = "open") /\ Filled(Fired(mem, j, i), phase, {j})
         /\ mem' = Pump(Fired(mem, j, i), QueueOf[j]) /\ UNCHANGED <<phase, transport, handle, fates>>
<1>. DEFINE R == mem.rec[j][i]
            S == [R EXCEPT !.timer = FALSE, !.state = "waiting"]
            e == Put(mem, j, i, S)
<1>0. Sound(mem, {}, transport = "open") /\ Filled(mem, phase, {})
  BY DEF TransportInv
<1>1. mem \in Memory /\ Timed(mem) /\ i \in Insertions
  BY <1>0 DEF Sound, Insertions
<1>2. R \in Record /\ R.timer /\ R.state = "delayed"
  BY <1>1, MemFacts DEF Timer, Timed
<1>3. /\ S \in Record /\ S.seq = R.seq /\ S.made = R.made /\ S.parent = R.parent /\ S.state = "waiting"
      /\ S.timer = FALSE /\ S.pending = R.pending
  <2>. HIDE DEF R
  <2>. QED BY <1>2 DEF Record
<1>4. Fired(mem, j, i) = e
  BY <1>1, TimerPut
<1>5. mem' = Pump(Fired(mem, j, i), QueueOf[j]) /\ UNCHANGED <<phase, transport, handle, fates>>
  BY DEF Timer, Fired
<1>. HIDE DEF S, R
<1>6. Edited(mem, e, j, i) /\ e.rec[j][i] = S
  <2>1. Edited(mem, mem, j, i)
    BY <1>1 DEF Edited
  <2>2. S.seq = mem.rec[j][i].seq /\ S.made = mem.rec[j][i].made /\ S.parent = mem.rec[j][i].parent
    BY <1>3 DEF R
  <2>. QED BY <1>1, <1>3, <2>1, <2>2, EditedPut
<1>. HIDE DEF e
<1>7. mem.rec[j][i].state = "delayed" /\ Born(mem, j, i) /\ S.pending = mem.rec[j][i].pending
  BY <1>2, <1>3 DEF R, Born
<1>8. Sound(e, {}, transport = "open")
  BY <1>0, <1>1, <1>3, <1>6, <1>7, EditSound
<1>9. Filled(e, phase, {j})
  BY <1>0, <1>1, <1>3, <1>6, EditFilled
<1>. QED BY <1>1, <1>3, <1>4, <1>5, <1>6, <1>7, <1>8, <1>9

LEMMA TimerInv == ASSUME TransportInv, NEW j \in Jobs, NEW i \in 1 .. MaxEnqueues, Timer(j, i) PROVE TransportInv'
<1>. DEFINE e == Fired(mem, j, i)
<1>0. TypeOK /\ Sound(mem, {}, transport = "open") /\ OneOpen(phase) /\ Astray(mem, removed) /\ mem \in Memory
  BY DEF TransportInv, Sound
<1>1. /\ Edited(mem, e, j, i) /\ i \in Insertions /\ Born(mem, j, i) /\ e.rec[j][i].state = "waiting"
      /\ Sound(e, {}, transport = "open") /\ Filled(e, phase, {j})
      /\ mem' = Pump(e, QueueOf[j]) /\ UNCHANGED <<phase, transport, handle, fates>>
  BY TimerFacts
<1>. HIDE DEF e
<1>2. Kept(mem, e) /\ e \in Memory /\ QueueOf[j] \in Queues
  BY <1>0, <1>1, EditedFacts, ConstantsAssumption DEF Sound
<1>3. Sound(mem', {}, transport = "open") /\ Carried(e, mem') /\ Filled(mem', phase, {})
  BY <1>0, <1>1, <1>2, PumpFacts
<1>4. Kept(e, mem')
  BY <1>2, <1>3, CarriedFacts
<1>5. Astray(e, removed)
  BY <1>0, <1>2, AstrayKept
<1>6. Astray(mem', removed)
  BY <1>1, <1>4, <1>5, AstrayKept
<1>. QED BY <1>0, <1>1, <1>3, <1>6, InvAfter DEF TypeOK, fates

(* What the three ends of a handler share: e is the memory after the call.   *)
LEMMA EndFacts ==
  ASSUME TransportInv, NEW a \in mem.attempts, a.phase = "process"
  PROVE  /\ a \in Attempt /\ a.job \in Jobs /\ a.inc \in Insertions /\ Ref(a) \in Refs
         /\ mem.rec[a.job][a.inc] \in Record /\ mem.rec[a.job][a.inc].state = "active"
         /\ \A b \in mem.attempts : b # a /\ b.phase = "process" /\ b.job = a.job => b.inc # a.inc
         /\ mem.held[a.job] = a.inc \/ \E i \in Insertions : <<a.job, i>> \in removed
<1>1. mem \in Memory /\ Trying(mem) /\ Astray(mem, removed)
  BY DEF TransportInv, Sound
<1>2. /\ a \in Attempt /\ a.job \in Jobs /\ a.inc \in Insertions /\ mem.rec[a.job][a.inc] \in Record
      /\ mem.rec[a.job][a.inc].state = "active" /\ a.number = mem.rec[a.job][a.inc].made
  BY <1>1, MemFacts, AttemptFacts DEF Trying, Tries
<1>3. \A b \in mem.attempts : b # a /\ b.phase = "process" /\ b.job = a.job => b.inc # a.inc
  BY <1>1, <1>2 DEF Trying, Tries, Ref
<1>. QED BY <1>1, <1>2, <1>3 DEF Astray, Ref, Refs, Insertions

Over(a, ok, done) == Deleted(Called(mem, a, ok, done), {a.job})

LEMMA DoneSound ==
  ASSUME TransportInv, NEW a \in mem.attempts, a.phase = "process", NEW ok \in BOOLEAN, NEW done \in BOOLEAN
  PROVE  /\ Sound(Over(a, ok, done), {}, transport = "open") /\ Filled(Over(a, ok, done), phase, {})
         /\ Astray(Over(a, ok, done), removed)
<1>. DEFINE e == Over(a, ok, done)
            gone == {a.job}
            c == Called(mem, a, ok, done)
            b == Answered(a, ok, done)
            R == mem.rec[a.job][a.inc]
            S == c.rec[a.job][a.inc]
<1>0. /\ mem \in Memory /\ Sound(mem, {}, transport = "open") /\ Filled(mem, phase, {}) /\ Astray(mem, removed)
      /\ Timed(mem)
  BY DEF TransportInv, Sound
<1>1. /\ a \in Attempt /\ a.job \in Jobs /\ a.inc \in Insertions /\ R \in Record /\ R.state = "active"
      /\ \A d \in mem.attempts : d # a /\ d.phase = "process" /\ d.job = a.job => d.inc # a.inc
      /\ mem.held[a.job] = a.inc \/ \E i \in Insertions : <<a.job, i>> \in removed
  BY EndFacts
<1>2. /\ c \in Memory /\ c.held = mem.held /\ c.seq = mem.seq /\ c.active = mem.active
      /\ c.attempts = (mem.attempts \ {a}) \cup {b}
      /\ \A k \in Jobs, l \in Insertions :
           c.rec[k][l] = IF k = a.job /\ l = a.inc THEN Made(mem.rec[k][l]) ELSE mem.rec[k][l]
  <2>. HIDE DEF R, S
  <2>. QED BY <1>0, <1>1, CalledFacts
<1>7. S.seq = R.seq /\ S.made = R.made + 1 /\ S.state = R.state /\ (S.timer <=> R.timer)
  <2>1. S = Made(R)
    BY <1>1, <1>2
  <2>. HIDE DEF S, R
  <2>. QED BY <1>1, <2>1, MadeFacts
<1>3. /\ b \in Attempt /\ b.job = a.job /\ b.inc = a.inc /\ b.cons = a.cons /\ b.number = a.number
      /\ b.phase = "callback"
  BY <1>1, AnsweredFacts
<1>5. ~R.timer
  BY <1>0, <1>1 DEF Timed
<1>4. e = Deleted(c, gone)
  BY DEF Over
<1>. HIDE DEF e, c, b, R, gone
<1>6. /\ e \in Memory /\ e.seq = c.seq /\ e.rec = c.rec /\ e.active = c.active /\ e.attempts = c.attempts
      /\ \A j \in Jobs : e.held[j] = IF j \in gone THEN 0 ELSE c.held[j]
  BY <1>2, <1>4, DeletedFacts
<1>9. e.held[a.job] = 0 /\ 0 \notin Insertions
  <2>1. e.held[a.job] = 0
    BY <1>1, <1>6 DEF gone
  <2>2. 0 \notin Insertions
    BY ConstantsAssumption DEF Insertions
  <2>. QED BY <2>1, <2>2
<1>10. Sound(e, {}, transport = "open") /\ \A ph : Filled(mem, ph, {}) => Filled(e, ph, {})
  <2>1. \A j \in Jobs : e.held[j] \in {0, mem.held[j]}
    BY <1>2, <1>6
  <2>2. e.attempts = (mem.attempts \ {a}) \cup {b} /\ e.seq = mem.seq /\ e.active = mem.active
    BY <1>2, <1>6
  <2>3. S = e.rec[a.job][a.inc] /\ S.seq = mem.rec[a.job][a.inc].seq /\ S.made = mem.rec[a.job][a.inc].made + 1
    BY <1>6, <1>7 DEF R
  <2>4. S.state \in {"active", "delayed"} /\ ~S.timer /\ e.held[a.job] # a.inc
    <3>. HIDE DEF S
    <3>. QED BY <1>1, <1>5, <1>7, <1>9
  <2>5. \A k \in Jobs, l \in Insertions : ~(k = a.job /\ l = a.inc) => e.rec[k][l] = mem.rec[k][l]
    BY <1>2, <1>6
  <2>. HIDE DEF S
  <2>6. Concluded(mem, a, b, e, S, transport = "open")
    BY <1>0, <1>3, <2>1, <2>2, <2>3, <2>4, <2>5 DEF Concluded
  <2>. QED BY <1>0, <1>3, <1>6, <2>6, EndsSound
<1>11. Astray(e, removed)
  <2>1. \A d \in e.attempts : d.phase = "process" => d \in mem.attempts /\ d # a
    BY <1>2, <1>3, <1>6
  <2>2. ASSUME NEW d \in e.attempts \cap mem.attempts, d.phase = "process", mem.held[d.job] = d.inc
        PROVE  e.held[d.job] = d.inc \/ \E i \in Insertions : <<d.job, i>> \in removed
    <3>1. d.job \in Jobs
      BY <1>0, MemFacts, AttemptFacts
    <3>2. CASE d.job = a.job
      BY <1>1, <2>1, <2>2, <3>2
    <3>3. CASE d.job # a.job
      BY <1>2, <1>6, <2>2, <3>1, <3>3 DEF gone
    <3>. QED BY <3>2, <3>3
  <2>. QED BY <1>0, <2>1, <2>2, AstrayStep
<1>. QED BY <1>0, <1>10, <1>11 DEF e

LEMMA SucceedInv == ASSUME TransportInv, NEW a \in mem.attempts, Succeed(a) PROVE TransportInv'
<1>1. /\ a.phase = "process" /\ mem' = Deleted(Called(mem, a, TRUE, TRUE), {a.job})
      /\ UNCHANGED <<phase, transport, handle, fates>>
  BY DEF Succeed
<1>2. TRUE \in BOOLEAN
  OBVIOUS
<1>3. Sound(mem', {}, transport = "open") /\ Filled(mem', phase, {}) /\ Astray(mem', removed)
  BY <1>1, <1>2, DoneSound, Zenon DEF Over
<1>. QED BY <1>1, <1>3, InvAfter DEF TransportInv, TypeOK, fates

LEMMA FailInv == ASSUME TransportInv, NEW a \in mem.attempts, Fail(a) PROVE TransportInv'
<1>. DEFINE m == Deleted(Called(mem, a, FALSE, TRUE), {a.job})
            F == Felled(m, Ref(a))
<1>1. /\ a.phase = "process" /\ mem' = Settled(m, Ref(a)) /\ removed' = removed \cup Current(m, F)
      /\ UNCHANGED <<phase, transport, handle, reported, lost>>
  BY DEF Fail
<1>2. Ref(a) \in Refs /\ OneOpen(phase) /\ TypeOK
  BY <1>1, EndFacts DEF TransportInv
<1>3. Sound(m, {}, transport = "open") /\ Filled(m, phase, {}) /\ Astray(m, removed)
  <2>1. TRUE \in BOOLEAN /\ FALSE \in BOOLEAN
    OBVIOUS
  <2>. QED BY <1>1, <2>1, DoneSound, Zenon DEF Over
<1>. HIDE DEF m
<1>4. m \in Memory /\ InTurn(m) /\ Trying(m)
  BY <1>3 DEF Sound
<1>5. \A q \in F : q \in Held(m) /\ q \in Jobs /\ m.held[q] \in Insertions
  BY <1>2, <1>4, FelledFacts, HeldFacts
<1>. HIDE DEF F
<1>6. /\ Sound(mem', {}, transport = "open") /\ Filled(mem', phase, {})
      /\ \A j \in Jobs : m.held[j] # 0 /\ j \notin F => mem'.held[j] = m.held[j]
      /\ \A b \in mem'.attempts : b \in m.attempts \/ mem'.held[b.job] = b.inc
  BY <1>1, <1>2, <1>3, SettledFacts DEF F
<1>7. \A q \in F : <<q, m.held[q]>> \in removed' /\ <<q, m.held[q]>> \in Refs
  BY <1>1, <1>5 DEF Current, Refs, Insertions
<1>8. Astray(mem', removed')
  <2>1. removed \subseteq removed'
    BY <1>1
  <2>2. ASSUME NEW b \in mem'.attempts \cap m.attempts, b.phase = "process", m.held[b.job] = b.inc
        PROVE  mem'.held[b.job] = b.inc \/ \E i \in Insertions : <<b.job, i>> \in removed'
    <3>1. b.job \in Jobs /\ m.held[b.job] \in Insertions /\ m.held[b.job] # 0
      BY <1>4, <2>2, MemFacts, AttemptFacts DEF Trying, Tries, Insertions
    <3>2. CASE b.job \in F
      BY <1>7, <3>1, <3>2
    <3>3. CASE b.job \notin F
      BY <1>6, <2>2, <3>1, <3>3
    <3>. QED BY <3>2, <3>3
  <2>. QED BY <1>3, <1>6, <2>1, <2>2, AstrayStep
<1>9. removed' \subseteq Refs
  BY <1>1, <1>2, <1>7 DEF Current, TypeOK
<1>. QED BY <1>1, <1>2, <1>6, <1>8, <1>9, InvAfter DEF TypeOK

(* A retry: the callback runs while the record waits for its backoff.       *)
LEMMA RetryFacts ==
  ASSUME TransportInv, NEW a \in mem.attempts, Retry(a)
  PROVE  /\ mem' \in Memory /\ mem'.held = mem.held
         /\ mem'.attempts = (mem.attempts \ {a}) \cup {Answered(a, FALSE, FALSE)}
         /\ Answered(a, FALSE, FALSE).phase = "callback" /\ ~Answered(a, FALSE, FALSE).ok
         /\ mem'.rec[a.job][a.inc].state = "delayed"
         /\ mem'.rec[a.job][a.inc].parent = mem.rec[a.job][a.inc].parent
         /\ mem'.rec[a.job][a.inc].pending = mem.rec[a.job][a.inc].pending
         /\ \A k \in Jobs, l \in Insertions : ~(k = a.job /\ l = a.inc) => mem'.rec[k][l] = mem.rec[k][l]
         /\ Sound(mem', {}, transport = "open") /\ Filled(mem', phase, {})
         /\ a.phase = "process" /\ UNCHANGED <<phase, transport, handle, fates>>
<1>. DEFINE c == Called(mem, a, FALSE, FALSE)
            b == Answered(a, FALSE, FALSE)
            j == a.job
            i == a.inc
            R == mem.rec[j][i]
            open == transport = "open"
            Q == c.rec[j][i]
            S == Backoff(Q, open)
            e == Put(c, j, i, S)
<1>0. /\ mem \in Memory /\ Sound(mem, {}, transport = "open") /\ Filled(mem, phase, {}) /\ Astray(mem, removed)
      /\ OneOpen(phase) /\ TypeOK /\ open \in BOOLEAN
  BY DEF TransportInv, Sound
<1>1. /\ a.phase = "process"
      /\ mem' = [c EXCEPT !.rec[j][i].state = "delayed", !.rec[j][i].timer = open]
      /\ UNCHANGED <<phase, transport, handle, fates>>
  BY DEF Retry
<1>2. a \in Attempt /\ j \in Jobs /\ i \in Insertions /\ R \in Record /\ R.state = "active"
  BY <1>1, EndFacts
<1>3. /\ c \in Memory /\ c.held = mem.held /\ c.seq = mem.seq /\ c.active = mem.active
      /\ c.attempts = (mem.attempts \ {a}) \cup {b}
      /\ \A k \in Jobs, l \in Insertions : c.rec[k][l] = IF k = j /\ l = i THEN Made(mem.rec[k][l]) ELSE mem.rec[k][l]
  <2>. DEFINE ok == FALSE
  <2>1. ok \in BOOLEAN
    OBVIOUS
  <2>2. c = Called(mem, a, ok, ok) /\ b = Answered(a, ok, ok)
    OBVIOUS
  <2>. HIDE DEF ok, c, b
  <2>. QED BY <1>0, <1>2, <2>1, <2>2, CalledFacts
<1>5. Q \in Record /\ Q.seq = R.seq /\ Q.made = R.made + 1 /\ Q.parent = R.parent /\ Q.pending = R.pending
  <2>1. Q = Made(R)
    BY <1>2, <1>3
  <2>. HIDE DEF Q, R, c
  <2>. QED BY <1>2, <2>1, MadeFacts
<1>4. /\ b \in Attempt /\ b.job = a.job /\ b.inc = a.inc /\ b.cons = a.cons /\ b.number = a.number
      /\ b.phase = "callback" /\ ~b.ok
  <2>. DEFINE ok == FALSE
  <2>1. ok \in BOOLEAN
    OBVIOUS
  <2>2. b = Answered(a, ok, ok)
    OBVIOUS
  <2>3. ~ok
    OBVIOUS
  <2>. HIDE DEF ok, b
  <2>. QED BY <1>2, <2>1, <2>2, <2>3, AnsweredFacts
<1>. HIDE DEF c, b, open
<1>6. /\ S \in Record /\ S.seq = R.seq /\ S.made = R.made + 1 /\ S.state = "delayed" /\ S.timer = open
      /\ S.parent = R.parent /\ S.pending = R.pending
  <2>. HIDE DEF R, Q
  <2>1. S \in Record
    BY <1>0, <1>5, EditFacts DEF Backoff
  <2>2. /\ S.seq = Q.seq /\ S.made = Q.made /\ S.state = "delayed" /\ S.timer = open
        /\ S.parent = Q.parent /\ S.pending = Q.pending
    BY <1>5 DEF Record, Backoff
  <2>. QED BY <1>5, <2>1, <2>2
<1>7. mem' = e
  <2>1. Backed(c, j, i, open) = e
    BY <1>2, <1>3, BackedPut
  <2>. QED BY <1>1, <2>1 DEF Backed
<1>. HIDE DEF S, Q
<1>8. /\ e \in Memory /\ e.held = mem.held /\ e.seq = mem.seq /\ e.active = mem.active
      /\ e.attempts = (mem.attempts \ {a}) \cup {b} /\ e.rec[j][i] = S
      /\ \A k \in Jobs, l \in Insertions : ~(k = j /\ l = i) => e.rec[k][l] = mem.rec[k][l]
  <2>1. /\ e \in Memory /\ e.held = c.held /\ e.seq = c.seq /\ e.active = c.active
        /\ e.attempts = c.attempts
        /\ \A k \in Jobs, l \in Insertions : e.rec[k][l] = IF k = j /\ l = i THEN S ELSE c.rec[k][l]
    BY <1>2, <1>3, <1>6, PutFacts
  <2>. HIDE DEF e
  <2>. QED BY <1>2, <1>3, <2>1
<1>. HIDE DEF e
<1>9. Sound(e, {}, open) /\ \A ph : Filled(mem, ph, {}) => Filled(e, ph, {})
  <2>1. \A k \in Jobs : e.held[k] \in {0, mem.held[k]}
    BY <1>8
  <2>2. S.seq = mem.rec[a.job][a.inc].seq /\ S.made = mem.rec[a.job][a.inc].made + 1
    BY <1>6
  <2>3. S.state \in {"active", "delayed"} /\ S.state = "delayed"
    BY <1>6
  <2>4. S.timer => S.state = "delayed"
    BY <2>3
  <2>5. e.held[a.job] = a.inc => S.state = "delayed" /\ (open => S.timer)
    BY <1>6, <2>3, Zenon
  <2>6. Sound(mem, {}, open)
    BY <1>0 DEF open
  <2>7. /\ S = e.rec[a.job][a.inc]
        /\ \A k \in Jobs, l \in Insertions : ~(k = a.job /\ l = a.inc) => e.rec[k][l] = mem.rec[k][l]
    BY <1>8
  <2>8. Concluded(mem, a, b, e, S, open)
    BY <1>1, <1>4, <1>8, <2>1, <2>2, <2>3, <2>4, <2>5, <2>7 DEF Concluded
  <2>. QED BY <1>4, <1>8, <2>6, <2>8, EndsSound
<1>10. /\ e.rec[j][i].state = "delayed" /\ e.rec[j][i].parent = R.parent /\ e.rec[j][i].pending = R.pending
  <2>. HIDE DEF R
  <2>. QED BY <1>6, <1>8
<1>11. Sound(e, {}, transport = "open") /\ Filled(e, phase, {})
  BY <1>0, <1>9 DEF open
<1>. HIDE DEF R
<1>12. /\ mem' \in Memory /\ mem'.held = mem.held /\ mem'.attempts = (mem.attempts \ {a}) \cup {b}
       /\ \A k \in Jobs, l \in Insertions : ~(k = j /\ l = i) => mem'.rec[k][l] = mem.rec[k][l]
  BY <1>7, <1>8
<1>13. /\ mem'.rec[j][i].state = "delayed" /\ mem'.rec[j][i].parent = R.parent
       /\ mem'.rec[j][i].pending = R.pending
  BY <1>7, <1>10
<1>14. Sound(mem', {}, transport = "open") /\ Filled(mem', phase, {})
  BY <1>7, <1>11
<1>. QED BY <1>1, <1>4, <1>12, <1>13, <1>14 DEF b, R

LEMMA RetryInv == ASSUME TransportInv, NEW a \in mem.attempts, Retry(a) PROVE TransportInv'
<1>0. TypeOK /\ OneOpen(phase) /\ Astray(mem, removed)
  BY DEF TransportInv
<1>. DEFINE b == Answered(a, FALSE, FALSE)
<1>1. /\ mem'.held = mem.held /\ mem'.attempts = (mem.attempts \ {a}) \cup {b} /\ b.phase = "callback"
      /\ Sound(mem', {}, transport = "open") /\ Filled(mem', phase, {})
      /\ UNCHANGED <<phase, transport, handle, fates>>
  BY RetryFacts
<1>. HIDE DEF b
<1>2. \A d \in mem'.attempts : d.phase = "process" => d \in mem.attempts
  BY <1>1
<1>3. Astray(mem', removed)
  BY <1>0, <1>1, <1>2, AstrayStep
<1>. QED BY <1>0, <1>1, <1>3, InvAfter DEF TypeOK, fates

(* What a returned callback leaves: its attempt is gone, its slot not yet.   *)
Left(a) == [mem EXCEPT !.attempts = @ \ {a}]

LEMMA LeftFacts ==
  ASSUME TransportInv, NEW a \in mem.attempts, a.phase = "callback"
  PROVE  /\ Sound(Left(a), {a.cons}, transport = "open") /\ Filled(Left(a), phase, {}) /\ Kept(mem, Left(a))
         /\ a.cons \in Consumers /\ a.job \in Jobs /\ a.inc \in Insertions /\ Ref(a) \in Refs
         /\ Left(a).rec = mem.rec /\ Left(a).held = mem.held /\ Left(a).attempts = mem.attempts \ {a}
         /\ mem.rec[a.job][a.inc].parent \in Refs \cup {None}
<1>. DEFINE e == Left(a)
<1>1. /\ mem \in Memory /\ Trying(mem) /\ Sound(mem, {}, transport = "open") /\ Filled(mem, phase, {})
  BY DEF TransportInv, Sound
<1>2. a.cons \in Consumers /\ a.job \in Jobs /\ a.inc \in Insertions /\ Ref(a) \in Refs
  BY <1>1, MemFacts, AttemptFacts DEF Trying, Tries, Ref, Refs, Insertions
<1>3. /\ e \in Memory /\ e.held = mem.held /\ e.seq = mem.seq /\ e.rec = mem.rec /\ e.active = mem.active
      /\ e.attempts = mem.attempts \ {a}
  BY <1>1 DEF Left, Memory
<1>4. mem.rec[a.job][a.inc].parent \in Refs \cup {None}
  BY <1>1, <1>2, MemFacts, RecordFacts
<1>. HIDE DEF e
<1>5. /\ Sound(e, {a.cons}, transport = "open") /\ Kept(mem, e)
      /\ \A ph : Filled(mem, ph, {}) => Filled(e, ph, {})
  BY <1>1, <1>3, LeftSound
<1>. QED BY <1>1, <1>2, <1>3, <1>4, <1>5 DEF e

LEMMA ReturnInv == ASSUME TransportInv, NEW a \in mem.attempts, Return(a) PROVE TransportInv'
<1>. DEFINE open == transport = "open"
            m == Left(a)
            c == a.cons
            n == IF a.ok THEN Counted(m, m.rec[a.job][a.inc].parent) ELSE m
            f == Freed(n, c)
            J == {j \in Jobs : QueueOf[j] = ServedBy[c]}
<1>0. TypeOK /\ Sound(mem, {}, open) /\ OneOpen(phase) /\ Astray(mem, removed)
  BY DEF TransportInv
<1>1. /\ a.phase = "callback" /\ mem' = Pump(f, ServedBy[c])
      /\ reported' = reported \cup (IF a.done THEN {Ref(a)} ELSE {})
      /\ UNCHANGED <<phase, transport, handle, removed, lost>>
  BY DEF Return, Left, Freed
<1>2. /\ Sound(m, {c}, open) /\ Filled(m, phase, {}) /\ Kept(mem, m)
      /\ c \in Consumers /\ Ref(a) \in Refs /\ m.rec = mem.rec
      /\ mem.rec[a.job][a.inc].parent \in Refs \cup {None}
  BY <1>1, LeftFacts
<1>. HIDE DEF m
<1>3. Sound(n, {c}, open) /\ Filled(n, phase, {}) /\ Kept(m, n)
  <2>1. CASE a.ok
    <3>1. n = Counted(m, m.rec[a.job][a.inc].parent)
      BY <2>1
    <3>2. m.rec[a.job][a.inc].parent \in Refs \cup {None}
      BY <1>2
    <3>. HIDE DEF n, c
    <3>. QED BY <1>0, <1>2, <3>1, <3>2, CountedFacts
  <2>2. CASE ~a.ok
    <3>1. n = m
      BY <2>2
    <3>2. Kept(m, m)
      BY DEF Kept
    <3>. QED BY <1>2, <3>1, <3>2
  <2>. QED BY <2>1, <2>2
<1>. HIDE DEF n
<1>4. Sound(f, {}, open) /\ Filled(f, phase, J) /\ Kept(n, f)
  <2>1. f = Freed(n, c)
    OBVIOUS
  <2>2. J = {j \in Jobs : QueueOf[j] = ServedBy[c]}
    OBVIOUS
  <2>3. c \in Consumers /\ Sound(n, {c}, open) /\ OneOpen(phase) /\ Filled(n, phase, {})
    BY <1>0, <1>2, <1>3
  <2>. HIDE DEF f, J, c, open
  <2>. QED BY <2>1, <2>2, <2>3, FreedSound
<1>. HIDE DEF f
<1>5. J \in SUBSET Jobs /\ ServedBy[c] \in Queues /\ \A j \in J : QueueOf[j] = ServedBy[c]
  BY <1>2, ConstantsAssumption
<1>. HIDE DEF J, c
<1>6. Sound(mem', {}, open) /\ Carried(f, mem') /\ Filled(mem', phase, {})
  BY <1>0, <1>1, <1>4, <1>5, PumpFacts
<1>7. f \in Memory
  BY <1>4 DEF Sound
<1>8. Kept(f, mem')
  BY <1>6, <1>7, CarriedFacts
<1>9. Astray(m, removed)
  BY <1>0, <1>2, AstrayKept
<1>10. Astray(n, removed)
  BY <1>2, <1>3, <1>9, AstrayKept
<1>11. Astray(f, removed)
  BY <1>3, <1>4, <1>10, AstrayKept
<1>12. Astray(mem', removed)
  BY <1>4, <1>8, <1>11, AstrayKept
<1>. QED BY <1>0, <1>1, <1>2, <1>6, <1>12, InvAfter DEF TypeOK

LEMMA GetJobInv == ASSUME TransportInv, NEW h \in Handles, NEW j \in Jobs, GetJob(h, j) PROVE TransportInv'
<1>1. /\ Sound(mem, {}, transport = "open") /\ OneOpen(phase) /\ Filled(mem, phase, {}) /\ Astray(mem, removed) /\ TypeOK
      /\ mem \in Memory /\ mem.held[j] # 0 /\ UNCHANGED <<mem, phase, transport, fates>>
      /\ handle' = [handle EXCEPT ![h] = <<j, mem.held[j]>>]
  BY DEF TransportInv, Sound, GetJob
<1>2. <<j, mem.held[j]>> \in Refs
  BY <1>1, MemFacts DEF Refs, Insertions
<1>3. handle' \in [Handles -> Refs \cup {None}]
  BY <1>1, <1>2 DEF TypeOK
<1>. QED BY <1>1, <1>3, InvAfter DEF TypeOK, fates

(* removeJob: the records under the id go, whichever the handle refers to.  *)
Untimed(r) == [mem EXCEPT !.rec[r[1]][r[2]].timer = FALSE]
Dropped(r) == Deleted(Untimed(r), {r[1]})

LEMMA DroppedFacts ==
  ASSUME TransportInv, NEW r \in Refs
  PROVE  /\ Sound(Dropped(r), {}, transport = "open") /\ Filled(Dropped(r), phase, {})
         /\ mem.rec[r[1]][r[2]].parent \in Refs \cup {None}
         /\ Dropped(r).attempts = mem.attempts
         /\ \A k \in Jobs : Dropped(r).held[k] = IF k = r[1] THEN 0 ELSE mem.held[k]
         /\ \A k \in Jobs, l \in Insertions :
              /\ Dropped(r).rec[k][l].state = mem.rec[k][l].state
              /\ Dropped(r).rec[k][l].parent = mem.rec[k][l].parent
              /\ Dropped(r).rec[k][l].pending = mem.rec[k][l].pending
<1>. DEFINE j == r[1]
            i == r[2]
            D == {j}
            R == mem.rec[j][i]
            S == [R EXCEPT !.timer = FALSE]
            u == Put(mem, j, i, S)
            m == Deleted(mem, D)
            e == Deleted(u, D)
<1>0. mem \in Memory /\ Timed(mem) /\ Sound(mem, {}, transport = "open") /\ Filled(mem, phase, {})
  BY DEF TransportInv, Sound
<1>1. j \in Jobs /\ i \in Insertions /\ i # 0
  BY DEF Refs, Insertions
<1>2. R \in Record /\ R.parent \in Refs \cup {None}
  BY <1>0, <1>1, MemFacts, RecordFacts
<1>3. /\ S \in Record /\ S.seq = R.seq /\ S.made = R.made /\ S.parent = R.parent /\ S.state = R.state
      /\ S.pending = R.pending /\ ~S.timer
  <2>. HIDE DEF R
  <2>. QED BY <1>2 DEF Record
<1>4. Dropped(r) = e
  BY DEF Dropped, Untimed, Put
<1>. HIDE DEF S, j, i
<1>5. /\ u \in Memory /\ u.held = mem.held /\ u.seq = mem.seq /\ u.active = mem.active /\ u.attempts = mem.attempts
      /\ \A k \in Jobs, l \in Insertions : u.rec[k][l] = IF k = j /\ l = i THEN S ELSE mem.rec[k][l]
  BY <1>0, <1>1, <1>3, PutFacts
<1>. HIDE DEF u, D
<1>6. /\ m \in Memory /\ m.seq = mem.seq /\ m.rec = mem.rec /\ m.active = mem.active /\ m.attempts = mem.attempts
      /\ \A k \in Jobs : m.held[k] = IF k \in D THEN 0 ELSE mem.held[k]
  BY <1>0, DeletedFacts
<1>7. /\ e \in Memory /\ e.seq = u.seq /\ e.rec = u.rec /\ e.active = u.active /\ e.attempts = u.attempts
      /\ \A k \in Jobs : e.held[k] = IF k \in D THEN 0 ELSE u.held[k]
  BY <1>5, DeletedFacts
<1>8. Sound(m, {}, transport = "open") /\ Filled(m, phase, {})
  BY <1>0, DeletedSound
<1>. HIDE DEF m, e
<1>9. e.held = m.held
  <2>1. \A k \in Jobs : e.held[k] = m.held[k]
    BY <1>5, <1>6, <1>7
  <2>. QED BY <1>6, <1>7, <2>1, MemFacts
<1>10. Edited(m, e, j, i)
  <2>1. /\ e.seq = m.seq /\ e.active = m.active /\ e.attempts = m.attempts
        /\ \A k \in Jobs, l \in Insertions : k # j \/ l # i => e.rec[k][l] = m.rec[k][l]
    BY <1>5, <1>6, <1>7
  <2>2. e.rec[j][i] = S /\ m.rec[j][i] = R
    BY <1>1, <1>5, <1>6, <1>7
  <2>. HIDE DEF R
  <2>. QED BY <1>3, <1>7, <1>9, <2>1, <2>2 DEF Edited
<1>11. e.rec[j][i] = S /\ m.rec[j][i] = R
  BY <1>1, <1>5, <1>6, <1>7
<1>12. m.held[j] = 0
  BY <1>1, <1>6 DEF D
<1>13. Sound(e, {}, transport = "open")
  <2>1. /\ S.state # "unborn" <=> Born(m, j, i)
        /\ S.state = "active" <=> m.rec[j][i].state = "active"
    BY <1>3, <1>11 DEF Born
  <2>2. S.state = "waiting-children" => S.pending > 0
    BY <1>0, <1>1, <1>3 DEF Timed
  <2>. HIDE DEF R, j, i
  <2>. QED BY <1>1, <1>3, <1>8, <1>10, <1>11, <1>12, <2>1, <2>2, EditSound
<1>14. Filled(e, phase, {})
  <2>1. \A k \in Held(e) : k \in Jobs /\ k # j /\ m.held[k] \in Insertions
    BY <1>6, <1>9, <1>12, MemFacts DEF Held
  <2>2. \A q \in Queues : Waiting(e, q) \subseteq Waiting(m, q)
    <3>1. \A k \in Held(e) : The(e, k) = The(m, k) /\ k \in Held(m)
      <4>1. \A k \in Jobs, l \in Insertions : k # j => e.rec[k][l] = m.rec[k][l]
        BY <1>10 DEF Edited
      <4>2. \A k \in Held(e) : k \in Held(m) /\ e.held[k] = m.held[k]
        BY <1>9 DEF Held
      <4>. QED BY <2>1, <4>1, <4>2 DEF The
    <3>. QED BY <3>1 DEF Waiting
  <2>3. \A d \in Consumers : Free(e, d) = Free(m, d) /\ ServedBy[d] \in Queues
    BY <1>10, ConstantsAssumption DEF Free, Edited
  <2>. QED BY <1>8, <2>2, <2>3 DEF Filled
<1>15. \A k \in Jobs, l \in Insertions :
         /\ e.rec[k][l].state = mem.rec[k][l].state
         /\ e.rec[k][l].parent = mem.rec[k][l].parent
         /\ e.rec[k][l].pending = mem.rec[k][l].pending
  BY <1>3, <1>5, <1>7
<1>. QED BY <1>2, <1>4, <1>5, <1>7, <1>13, <1>14, <1>15 DEF D, j, i

LEMMA RemoveJobInv == ASSUME TransportInv, NEW h \in Handles, RemoveJob(h) PROVE TransportInv'
<1>. DEFINE r == handle[h]
            d == Dropped(r)
            open == transport = "open"
<1>0. TypeOK /\ Sound(mem, {}, open) /\ OneOpen(phase) /\ Filled(mem, phase, {}) /\ Astray(mem, removed) /\ mem \in Memory
  BY DEF TransportInv, Sound
<1>1. r \in Refs /\ handle' \in [Handles -> Refs \cup {None}] /\ UNCHANGED <<phase, transport, reported, lost>>
  BY <1>0 DEF RemoveJob, TypeOK
<1>2. CASE mem.rec[r[1]][r[2]].state = "active"
  <2>1. UNCHANGED <<mem, removed>>
    BY <1>2 DEF RemoveJob
  <2>. QED BY <1>0, <1>1, <2>1, InvAfter DEF TypeOK
<1>3. CASE mem.rec[r[1]][r[2]].state # "active"
  <2>1. mem' = Counted(d, mem.rec[r[1]][r[2]].parent) /\ removed' = removed \cup Current(mem, {r[1]} \cap Held(mem))
    BY <1>3 DEF RemoveJob, Removed, Dropped, Untimed
  <2>. HIDE DEF r
  <2>2. /\ Sound(d, {}, open) /\ Filled(d, phase, {}) /\ mem.rec[r[1]][r[2]].parent \in Refs \cup {None}
        /\ d.attempts = mem.attempts /\ \A k \in Jobs : d.held[k] = IF k = r[1] THEN 0 ELSE mem.held[k]
    BY <1>1, DroppedFacts
  <2>. HIDE DEF d
  <2>3. Sound(mem', {}, open) /\ Filled(mem', phase, {}) /\ Kept(d, mem')
    BY <1>0, <2>1, <2>2, CountedFacts
  <2>4. \A k \in Held(mem) : <<k, mem.held[k]>> \in Refs /\ mem.held[k] \in Insertions
    BY <1>0, MemFacts DEF Refs, Insertions, Held
  <2>5. removed' \subseteq Refs
    BY <1>0, <2>1, <2>4 DEF Current, TypeOK
  <2>6. Astray(d, removed')
    <3>1. removed \subseteq removed'
      BY <2>1
    <3>2. ASSUME NEW a \in d.attempts \cap mem.attempts, a.phase = "process", mem.held[a.job] = a.inc
          PROVE  d.held[a.job] = a.inc \/ \E i \in Insertions : <<a.job, i>> \in removed'
      <4>1. a.job \in Jobs /\ a.inc \in Insertions /\ a.inc # 0
        BY <1>0, <3>2, MemFacts, AttemptFacts DEF Sound, Trying, Tries, Insertions
      <4>2. CASE a.job = r[1]
        <5>1. a.job \in {r[1]} \cap Held(mem)
          BY <3>2, <4>1, <4>2 DEF Held
        <5>2. <<a.job, mem.held[a.job]>> \in Current(mem, {r[1]} \cap Held(mem))
          BY <5>1 DEF Current
        <5>. QED BY <2>1, <2>4, <5>1, <5>2
      <4>3. CASE a.job # r[1]
        BY <2>2, <3>2, <4>1, <4>3
      <4>. QED BY <4>2, <4>3
    <3>. QED BY <1>0, <2>2, <3>1, <3>2, AstrayStep
  <2>7. Astray(mem', removed')
    BY <2>2, <2>3, <2>6, AstrayKept
  <2>. QED BY <1>0, <1>1, <2>3, <2>5, <2>7, InvAfter DEF TypeOK
<1>. QED BY <1>2, <1>3

LEMMA ConsumeFacts ==
  ASSUME TransportInv, NEW c \in Consumers, Consume(c)
  PROVE  /\ Sound(mem', {}, transport = "open") /\ Carried(mem, mem') /\ Filled(mem', phase', {})
         /\ OneOpen(phase') /\ phase' \in [Consumers -> {"new", "open", "closing", "closed"}]
         /\ UNCHANGED <<transport, handle, fates>>
<1>0. /\ TypeOK /\ Sound(mem, {}, transport = "open") /\ OneOpen(phase) /\ Filled(mem, phase, {})
      /\ Astray(mem, removed) /\ mem \in Memory
  BY DEF TransportInv, Sound
<1>1. /\ Serving(ServedBy[c]) = {} /\ phase' = [phase EXCEPT ![c] = "open"]
      /\ mem' = Started(mem, First(mem, Waiting(mem, ServedBy[c]), Free(mem, c)), c)
      /\ UNCHANGED <<transport, handle, fates>>
  BY DEF Consume
<1>2. /\ phase' \in [Consumers -> {"new", "open", "closing", "closed"}] /\ phase'[c] = "open"
      /\ \A d \in Consumers : d # c => phase'[d] = phase[d]
  BY <1>0, <1>1 DEF TypeOK
<1>3. OneOpen(phase')
  BY <1>0, <1>1, <1>2 DEF OneOpen, Serving
<1>4. \A d \in Consumers : phase'[d] = "open" /\ d # c => Free(mem, d) = 0 \/ Waiting(mem, ServedBy[d]) = {}
  BY <1>0, <1>2 DEF Filled
<1>5. Sound(mem', {}, transport = "open") /\ Carried(mem, mem') /\ Filled(mem', phase', {})
  <2>. DEFINE ph == phase'
              n == mem'
              open == transport = "open"
  <2>1. ph[c] = "open" /\ OneOpen(ph) /\ Sound(mem, {}, open)
    BY <1>0, <1>2, <1>3
  <2>2. \A d \in Consumers : ph[d] = "open" /\ d # c => Free(mem, d) = 0 \/ Waiting(mem, ServedBy[d]) = {}
    BY <1>4
  <2>3. n = Started(mem, First(mem, Waiting(mem, ServedBy[c]), Free(mem, c)), c)
    BY <1>1
  <2>. HIDE DEF ph, n, open
  <2>4. Sound(n, {}, open) /\ Carried(mem, n) /\ Filled(n, ph, {})
    BY <2>1, <2>2, <2>3, FillFacts
  <2>. QED BY <2>4 DEF ph, n, open
<1>. QED BY <1>1, <1>2, <1>3, <1>5

LEMMA ConsumeInv == ASSUME TransportInv, NEW c \in Consumers, Consume(c) PROVE TransportInv'
<1>0. TypeOK /\ Sound(mem, {}, transport = "open") /\ Astray(mem, removed) /\ mem \in Memory
  BY DEF TransportInv, Sound
<1>1. /\ Sound(mem', {}, transport = "open") /\ Carried(mem, mem') /\ Filled(mem', phase', {})
      /\ OneOpen(phase') /\ phase' \in [Consumers -> {"new", "open", "closing", "closed"}]
      /\ UNCHANGED <<transport, handle, fates>>
  BY ConsumeFacts
<1>2. Kept(mem, mem')
  BY <1>0, <1>1, CarriedFacts
<1>3. Astray(mem', removed)
  BY <1>0, <1>2, AstrayKept
<1>. QED BY <1>0, <1>1, <1>3, InvAfter DEF TypeOK, fates

(* A consumer that closes takes no more jobs.                               *)
LEMMA FewerOpen ==
  ASSUME TransportInv, \A c \in Consumers : phase'[c] = "open" => phase[c] = "open"
  PROVE  OneOpen(phase') /\ Filled(mem, phase', {})
BY DEF TransportInv, OneOpen, Filled

LEMMA CloseConsumerInv == ASSUME TransportInv, NEW c \in Consumers, CloseConsumer(c) PROVE TransportInv'
<1>1. /\ TypeOK /\ Sound(mem, {}, transport = "open") /\ Astray(mem, removed)
      /\ phase' = [phase EXCEPT ![c] = "closing"] /\ UNCHANGED <<mem, transport, handle, fates>>
  BY DEF TransportInv, CloseConsumer
<1>2. /\ phase' \in [Consumers -> {"new", "open", "closing", "closed"}]
      /\ \A d \in Consumers : phase'[d] = "open" => phase[d] = "open"
  BY <1>1 DEF TypeOK
<1>3. OneOpen(phase') /\ Filled(mem, phase', {})
  BY <1>2, FewerOpen
<1>. QED BY <1>1, <1>2, <1>3, InvAfter DEF TypeOK, fates

LEMMA ConsumerClosedInv == ASSUME TransportInv, NEW c \in Consumers, ConsumerClosed(c) PROVE TransportInv'
<1>1. /\ TypeOK /\ Sound(mem, {}, transport = "open") /\ Astray(mem, removed)
      /\ phase' = [phase EXCEPT ![c] = "closed"] /\ UNCHANGED <<mem, transport, handle, fates>>
  BY DEF TransportInv, ConsumerClosed
<1>2. /\ phase' \in [Consumers -> {"new", "open", "closing", "closed"}]
      /\ \A d \in Consumers : phase'[d] = "open" => phase[d] = "open"
  BY <1>1 DEF TypeOK
<1>3. OneOpen(phase') /\ Filled(mem, phase', {})
  BY <1>2, FewerOpen
<1>. QED BY <1>1, <1>2, <1>3, InvAfter DEF TypeOK, fates

(* The close of the transport stops every timer.                            *)
LEMMA StoppedFacts ==
  ASSUME TransportInv, CloseTransport
  PROVE  /\ mem \in Memory /\ mem' \in Memory /\ mem'.held = mem.held /\ mem'.seq = mem.seq
         /\ mem'.active = mem.active /\ mem'.attempts = mem.attempts
         /\ \A j \in Jobs, i \in Insertions :
              /\ mem'.rec[j][i].state = mem.rec[j][i].state /\ mem'.rec[j][i].made = mem.rec[j][i].made
              /\ mem'.rec[j][i].seq = mem.rec[j][i].seq /\ mem'.rec[j][i].parent = mem.rec[j][i].parent
              /\ mem'.rec[j][i].pending = mem.rec[j][i].pending /\ ~mem'.rec[j][i].timer
<1>. DEFINE rec == [j \in Jobs |-> [i \in 1 .. MaxEnqueues |-> [mem.rec[j][i] EXCEPT !.timer = FALSE]]]
            e == [mem EXCEPT !.rec = rec]
<1>1. mem \in Memory
  BY DEF TransportInv, Sound
<1>2. mem' = e
  BY DEF CloseTransport
<1>3. ASSUME NEW j \in Jobs, NEW i \in Insertions
      PROVE  /\ rec[j][i] \in Record
             /\ rec[j][i].state = mem.rec[j][i].state /\ rec[j][i].made = mem.rec[j][i].made
             /\ rec[j][i].seq = mem.rec[j][i].seq /\ rec[j][i].parent = mem.rec[j][i].parent
             /\ rec[j][i].pending = mem.rec[j][i].pending /\ ~rec[j][i].timer
  <2>1. mem.rec[j][i] \in Record
    BY <1>1, MemFacts
  <2>2. rec[j][i] = [mem.rec[j][i] EXCEPT !.timer = FALSE]
    BY DEF Insertions
  <2>. HIDE DEF rec
  <2>. QED BY <2>1, <2>2 DEF Record
<1>4. rec \in [Jobs -> [1 .. MaxEnqueues -> Record]]
  <2>1. \A j \in Jobs, i \in 1 .. MaxEnqueues : [mem.rec[j][i] EXCEPT !.timer = FALSE] \in Record
    BY <1>3 DEF Insertions
  <2>. QED BY <2>1
<1>. HIDE DEF rec
<1>5. e \in Memory /\ e.held = mem.held /\ e.seq = mem.seq /\ e.active = mem.active /\ e.attempts = mem.attempts /\ e.rec = rec
  BY <1>1, <1>4 DEF Memory
<1>. HIDE DEF e
<1>. QED BY <1>1, <1>2, <1>3, <1>5

LEMMA CloseTransportInv == ASSUME TransportInv, CloseTransport PROVE TransportInv'
<1>0. /\ TypeOK /\ Sound(mem, {}, transport = "open") /\ OneOpen(phase) /\ Filled(mem, phase, {})
      /\ Astray(mem, removed) /\ InTurn(mem) /\ Numbered(mem) /\ Timed(mem) /\ Trying(mem) /\ Slots(mem, {})
      /\ Moving(mem, transport = "open")
  BY DEF TransportInv, Sound
<1>1. /\ mem \in Memory /\ mem' \in Memory /\ mem'.held = mem.held /\ mem'.seq = mem.seq
      /\ mem'.active = mem.active /\ mem'.attempts = mem.attempts
      /\ \A j \in Jobs, i \in Insertions :
           /\ mem'.rec[j][i].state = mem.rec[j][i].state /\ mem'.rec[j][i].made = mem.rec[j][i].made
           /\ mem'.rec[j][i].seq = mem.rec[j][i].seq /\ mem'.rec[j][i].pending = mem.rec[j][i].pending
           /\ ~mem'.rec[j][i].timer
  BY StoppedFacts
<1>2. /\ transport = "open" /\ transport' = "closing" /\ UNCHANGED <<handle, fates>>
      /\ phase' = [c \in Consumers |-> IF phase[c] = "open" THEN "closing" ELSE phase[c]]
  BY DEF CloseTransport
<1>3. \A j \in Jobs, i \in Insertions : Born(mem', j, i) <=> Born(mem, j, i)
  BY <1>1 DEF Born
<1>4. InTurn(mem') /\ Numbered(mem') /\ Timed(mem')
  BY <1>0, <1>1, <1>3 DEF InTurn, Numbered, Timed
<1>5. Trying(mem')
  <2>1. \A a \in mem.attempts : Tries(mem', a)
    <3>. SUFFICES ASSUME NEW a \in mem.attempts PROVE Tries(mem', a)
      OBVIOUS
    <3>1. Tries(mem, a) /\ a.job \in Jobs /\ a.inc \in Insertions
      BY <1>0, <1>1, MemFacts, AttemptFacts DEF Trying, Tries
    <3>. QED BY <1>1, <1>3, <3>1 DEF Tries
  <2>. QED BY <1>0, <1>1, <2>1 DEF Trying
<1>6. Slots(mem', {})
  BY <1>0, <1>1 DEF Slots, Of
<1>7. \A k \in Held(mem') : k \in Held(mem) /\ The(mem', k).state = The(mem, k).state
  BY <1>1, MemFacts DEF Held, The
<1>8. Moving(mem', FALSE)
  BY <1>0, <1>1, <1>7 DEF Moving
<1>9. Sound(mem', {}, FALSE)
  BY <1>1, <1>4, <1>5, <1>6, <1>8 DEF Sound
<1>10. /\ phase' \in [Consumers -> {"new", "open", "closing", "closed"}]
       /\ \A c \in Consumers : phase'[c] # "open"
  BY <1>0, <1>2 DEF TypeOK
<1>11. OneOpen(phase') /\ Filled(mem', phase', {})
  BY <1>10 DEF OneOpen, Filled
<1>12. Astray(mem', removed')
  BY <1>0, <1>1, <1>2 DEF Astray, fates
<1>13. Sound(mem', {}, transport' = "open")
  <2>1. (transport' = "open") = FALSE
    BY <1>2
  <2>. QED BY <1>9, <2>1
<1>. QED BY <1>0, <1>2, <1>10, <1>11, <1>12, <1>13, InvAfter DEF TypeOK, fates

LEMMA TransportClosedInv == ASSUME TransportInv, TransportClosed PROVE TransportInv'
<1>0. /\ TypeOK /\ Sound(mem, {}, transport = "open") /\ mem \in Memory
  BY DEF TransportInv, Sound
<1>1. /\ transport = "closing" /\ transport' = "closed" /\ \A c \in Consumers : Drained(c)
      /\ phase' = [c \in Consumers |-> "closed"] /\ mem' = Deleted(mem, Jobs)
      /\ lost' = lost \cup Current(mem, Held(mem)) /\ UNCHANGED <<handle, reported, removed>>
  BY DEF TransportClosed
<1>2. mem.attempts = {}
  BY <1>0, <1>1, MemFacts, AttemptFacts DEF Drained
<1>3. (transport' = "open") = (transport = "open")
  BY <1>1
<1>4. Sound(mem', {}, transport' = "open")
  BY <1>0, <1>1, <1>3, DeletedSound
<1>5. mem'.attempts = {}
  BY <1>0, <1>1, <1>2, DeletedFacts
<1>6. phase' \in [Consumers -> {"new", "open", "closing", "closed"}] /\ \A c \in Consumers : phase'[c] # "open"
  BY <1>1
<1>7. OneOpen(phase') /\ Filled(mem', phase', {})
  BY <1>6 DEF OneOpen, Filled
<1>8. lost' \subseteq Refs
  <2>1. \A k \in Held(mem) : <<k, mem.held[k]>> \in Refs
    BY <1>0, MemFacts DEF Refs, Insertions, Held
  <2>. QED BY <1>0, <1>1, <2>1 DEF Current, TypeOK
<1>9. Astray(mem', removed')
  BY <1>5 DEF Astray
<1>. QED BY <1>0, <1>1, <1>4, <1>6, <1>7, <1>8, <1>9, InvAfter DEF TypeOK

LEMMA InitInv == Init => TransportInv
<1>. SUFFICES ASSUME Init PROVE TransportInv
  OBVIOUS
<1>1. /\ mem.held = [j \in Jobs |-> 0] /\ mem.rec = [j \in Jobs |-> [i \in 1 .. MaxEnqueues |-> Unborn]]
      /\ mem.seq = 0 /\ mem.active = [c \in Consumers |-> 0] /\ mem.attempts = {}
      /\ phase = [c \in Consumers |-> "new"] /\ transport = "open" /\ handle = [h \in Handles |-> None]
      /\ reported = {} /\ removed = {} /\ lost = {}
  BY DEF Init
<1>2. Unborn \in Record /\ Unborn.state = "unborn" /\ ~Unborn.timer
  BY DEF Unborn, Record
<1>3. MaxEnqueues \in Nat /\ Concurrency \in Nat
  BY ConstantsAssumption
<1>4. mem \in Memory
  <2>1. mem.held \in [Jobs -> 0 .. MaxEnqueues] /\ mem.active \in [Consumers -> Nat] /\ mem.attempts \subseteq Attempt
    BY <1>1, <1>3
  <2>2. mem.rec \in [Jobs -> [1 .. MaxEnqueues -> Record]]
    BY <1>1, <1>2
  <2>3. mem = [held |-> mem.held, rec |-> mem.rec, seq |-> mem.seq, active |-> mem.active, attempts |-> mem.attempts]
    BY DEF Init
  <2>. QED BY <1>1, <2>1, <2>2, <2>3 DEF Memory
<1>5. \A j \in Jobs, i \in Insertions : mem.rec[j][i] = Unborn
  BY <1>1 DEF Insertions
<1>6. \A j \in Jobs : mem.held[j] = 0 /\ \A i \in Insertions : ~Born(mem, j, i)
  BY <1>1, <1>2, <1>5 DEF Born
<1>7. InTurn(mem)
  <2>1. 0 \in 0 .. MaxEnqueues /\ \A i \in Insertions : ~(i <= 0)
    BY <1>3 DEF Insertions
  <2>. QED BY <1>6, <2>1 DEF InTurn
<1>8. Numbered(mem) /\ Timed(mem)
  BY <1>2, <1>5, <1>6 DEF Numbered, Timed
<1>9. Trying(mem)
  BY <1>1, FS_EmptySet DEF Trying
<1>10. Slots(mem, {})
  <2>1. \A c \in Consumers : mem.active[c] = 0 /\ Of(mem, c) = {}
    BY <1>1 DEF Of
  <2>. QED BY <1>3, <2>1, FS_EmptySet DEF Slots
<1>11. Held(mem) = {}
  BY <1>6 DEF Held
<1>12. Moving(mem, transport = "open")
  BY <1>11 DEF Moving
<1>13. Sound(mem, {}, transport = "open")
  BY <1>4, <1>7, <1>8, <1>9, <1>10, <1>12 DEF Sound
<1>14. OneOpen(phase) /\ Filled(mem, phase, {}) /\ Astray(mem, removed)
  BY <1>1 DEF OneOpen, Filled, Astray
<1>15. TypeOK
  <2>1. mem.active \in [Consumers -> 0 .. Concurrency]
    BY <1>1, <1>3
  <2>. QED BY <1>1, <1>4, <2>1 DEF TypeOK, Memory
<1>. QED BY <1>13, <1>14, <1>15 DEF TransportInv

LEMMA StepInv == TransportInv /\ [Next]_vars => TransportInv'
<1>. SUFFICES ASSUME TransportInv, [Next]_vars PROVE TransportInv'
  OBVIOUS
<1>1. ASSUME NEW j \in Jobs, Enqueue(j) \/ EnqueueFlow(j) PROVE TransportInv'
  BY <1>1, EnqueueInv, EnqueueFlowInv
<1>2. ASSUME NEW j \in Jobs, NEW i \in 1 .. MaxEnqueues, Timer(j, i) PROVE TransportInv'
  BY <1>2, TimerInv
<1>3. ASSUME NEW a \in mem.attempts, Advance(a) PROVE TransportInv'
  BY <1>3, SucceedInv, RetryInv, FailInv, ReturnInv DEF Advance
<1>4. ASSUME NEW h \in Handles, RemoveJob(h) \/ \E j \in Jobs : GetJob(h, j) PROVE TransportInv'
  BY <1>4, RemoveJobInv, GetJobInv
<1>5. ASSUME NEW c \in Consumers, Consume(c) \/ CloseConsumer(c) \/ ConsumerClosed(c) PROVE TransportInv'
  BY <1>5, ConsumeInv, CloseConsumerInv, ConsumerClosedInv
<1>6. CASE UNCHANGED vars
  BY <1>6 DEF vars, fates, TransportInv, TypeOK
<1>. QED BY <1>1, <1>2, <1>3, <1>4, <1>5, <1>6, CloseTransportInv, TransportClosedInv DEF Next

-----------------------------------------------------------------------------
(* The invariant of every behaviour: the records, the attempts, the slots    *)
(* and the timers match each other whatever the transport does.             *)
THEOREM TransportInvariant == Spec => []TransportInv
BY InitInv, StepInv, PTL DEF Spec

(* No job waits while a consumer of its queue has a slot to run it: whatever *)
(* made a job waiting or freed a slot pumped that queue.                    *)
THEOREM NoIdleSlotCorrect == Spec => []NoIdleSlot
<1>1. TransportInv => NoIdleSlot
  BY DEF TransportInv, Filled, NoIdleSlot
<1>. QED BY <1>1, TransportInvariant, PTL

(* Nothing is forgotten: slots are given back, delayed jobs have timers,     *)
(* active jobs their handler, and no two handlers run under one id unless a *)
(* handle removed a record of it.                                          *)
THEOREM NothingForgottenCorrect == Spec => []NothingForgotten
<1>1. ASSUME TransportInv PROVE NothingForgotten
  <2>1. /\ TypeOK /\ mem \in Memory /\ Trying(mem) /\ Slots(mem, {}) /\ Moving(mem, transport = "open")
        /\ Astray(mem, removed)
    BY <1>1 DEF TransportInv, Sound
  <2>2. SlotsMatch
    <3>. SUFFICES ASSUME NEW c \in Consumers PROVE mem.active[c] = Cardinality({a \in mem.attempts : a.cons = c})
      BY DEF SlotsMatch
    <3>1. mem.active[c] = Cardinality(Of(mem, c)) + 0 /\ mem.active[c] \in Nat
      BY <2>1, MemFacts DEF Slots
    <3>2. IsFiniteSet(Of(mem, c))
      BY <2>1, FS_Subset DEF Of, Trying
    <3>3. Cardinality(Of(mem, c)) \in Nat
      BY <3>2, FS_CardinalityType
    <3>. QED BY <3>1, <3>3 DEF Of
  <2>3. \A j \in Held(mem) :
          /\ The(mem, j).state = "delayed" /\ transport = "open" => The(mem, j).timer
          /\ The(mem, j).state = "active" =>
               \E a \in mem.attempts : Ref(a) = <<j, mem.held[j]>> /\ a.phase = "process"
    BY <2>1 DEF Moving
  <2>4. ASSUME NEW a \in mem.attempts, NEW b \in mem.attempts,
               a.phase = "process", b.phase = "process", a.job = b.job, a # b
        PROVE  \E i \in 1 .. MaxEnqueues : <<a.job, i>> \in removed
    <3>1. a.inc # b.inc
      BY <2>1, <2>4 DEF Trying, Tries, Ref
    <3>2. mem.held[a.job] # a.inc \/ mem.held[b.job] # b.inc
      BY <2>4, <3>1
    <3>. QED BY <2>1, <2>4, <3>2 DEF Astray, Insertions
  <2>. QED BY <2>1, <2>2, <2>3, <2>4 DEF NothingForgotten
<1>. QED BY <1>1, TransportInvariant, PTL

-----------------------------------------------------------------------------
(* A parent waits for its children, while at most one handle is held at a   *)
(* time: each record that may still complete, or be removed by the handle,  *)
(* is counted once.                                                        *)

(* The records that may still count for their parents: those that may be    *)
(* tried, those whose completion is being reported, and those the handles   *)
(* hs may remove.                                                          *)
Live(m, hs) ==
  Going(m) \cup {Ref(a) : a \in {a \in m.attempts : a.ok}}
           \cup {r \in Refs \cap hs : m.rec[r[1]][r[2]].state # "active"}

(* A parent was made before its children, and it has one record of each.     *)
Lineage(m) ==
  \A k \in Jobs, i \in Insertions : m.rec[k][i].parent # None =>
    /\ Born(m, m.rec[k][i].parent[1], m.rec[k][i].parent[2]) /\ IsChild(k, m.rec[k][i].parent[1])
    /\ \A l \in Insertions : m.rec[k][l].parent = m.rec[k][i].parent => l = i

(* A completion is reported once, of a record that is not tried again.      *)
Completing(m) ==
  \A a \in m.attempts : a.ok =>
    /\ a.phase = "callback" /\ Ref(a) \notin Going(m) /\ m.rec[a.job][a.inc].state = "active"
    /\ \A b \in m.attempts : b.ok /\ Ref(b) = Ref(a) => a = b

Kids(m, L, p) == {k \in Jobs : \E i \in Insertions : <<k, i>> \in L /\ m.rec[k][i].parent = p}

Loyal(j) == \A q \in Jobs : IsChild(q, j) => OnFailure[q] # "continue"

(* What parent p still waits for.                                           *)
Waits(m, L, p) ==
  IF m.rec[p[1]][p[2]].state = "waiting-children"
    THEN Cardinality(Kids(m, L, p)) <= m.rec[p[1]][p[2]].pending
    ELSE Loyal(p[1]) => Kids(m, L, p) = {}

Patient(m, L) ==
  /\ Lineage(m) /\ Completing(m)
  /\ \A j \in Held(m) : Waits(m, L, <<j, m.held[j]>>)

LEMMA KidsFacts ==
  ASSUME NEW m, NEW L, NEW p, NEW n, NEW M, M \subseteq L,
         \A k \in Jobs, i \in Insertions : n.rec[k][i].parent = m.rec[k][i].parent
  PROVE  /\ Kids(n, M, p) \subseteq Kids(m, L, p)
         /\ IsFiniteSet(Kids(m, L, p)) /\ Cardinality(Kids(m, L, p)) \in Nat
         /\ Cardinality(Kids(n, M, p)) \in Nat /\ Cardinality(Kids(n, M, p)) <= Cardinality(Kids(m, L, p))
<1>1. Kids(n, M, p) \subseteq Kids(m, L, p)
  BY DEF Kids
<1>2. Kids(m, L, p) \subseteq Jobs /\ IsFiniteSet(Jobs)
  BY ConstantsAssumption DEF Kids
<1>3. IsFiniteSet(Kids(m, L, p)) /\ IsFiniteSet(Kids(n, M, p))
  BY <1>1, <1>2, FS_Subset
<1>. QED BY <1>1, <1>3, FS_Subset, FS_CardinalityType

(* A record that counts no more.                                            *)
LEMMA WaitsFewer ==
  ASSUME NEW m \in Memory, NEW n \in Memory, NEW L, NEW M, M \subseteq L, NEW p \in Refs, Waits(m, L, p),
         \A k \in Jobs, i \in Insertions : n.rec[k][i].parent = m.rec[k][i].parent,
         n.rec[p[1]][p[2]].state = "waiting-children" <=> m.rec[p[1]][p[2]].state = "waiting-children",
         n.rec[p[1]][p[2]].pending = m.rec[p[1]][p[2]].pending
  PROVE  Waits(n, M, p)
<1>1. /\ Kids(n, M, p) \subseteq Kids(m, L, p) /\ Cardinality(Kids(m, L, p)) \in Nat
      /\ Cardinality(Kids(n, M, p)) \in Nat /\ Cardinality(Kids(n, M, p)) <= Cardinality(Kids(m, L, p))
  BY KidsFacts
<1>2. m.rec[p[1]][p[2]].pending \in Nat
  BY MemFacts, RecordFacts DEF Refs, Insertions
<1>3. CASE m.rec[p[1]][p[2]].state = "waiting-children"
  BY <1>1, <1>2, <1>3 DEF Waits
<1>4. CASE m.rec[p[1]][p[2]].state # "waiting-children"
  BY <1>1, <1>4 DEF Waits
<1>. QED BY <1>3, <1>4

LEMMA OnwardPatient ==
  ASSUME NEW m, NEW X, NEW open, Sound(m, X, open), NEW n, Onward(m, n), Lineage(m), Completing(m)
  PROVE  Lineage(n) /\ Completing(n)
<1>1. Lineage(n)
  <2>. SUFFICES ASSUME NEW k \in Jobs, NEW i \in Insertions, n.rec[k][i].parent # None
                PROVE  /\ Born(n, n.rec[k][i].parent[1], n.rec[k][i].parent[2]) /\ IsChild(k, n.rec[k][i].parent[1])
                       /\ \A l \in Insertions : n.rec[k][l].parent = n.rec[k][i].parent => l = i
    BY DEF Lineage
  <2>1. n.rec[k][i].parent = m.rec[k][i].parent /\ \A l \in Insertions : n.rec[k][l].parent = m.rec[k][l].parent
    BY DEF Onward
  <2>. DEFINE p == m.rec[k][i].parent
  <2>2. p \in Refs
    <3>1. m \in Memory
      BY DEF Sound
    <3>2. m.rec[k][i] \in Record
      BY <3>1, MemFacts
    <3>3. p \in Refs \cup {None}
      BY <3>2, RecordFacts
    <3>. QED BY <2>1, <3>3
  <2>3. Born(m, p[1], p[2]) /\ IsChild(k, p[1]) /\ \A l \in Insertions : m.rec[k][l].parent = p => l = i
    BY <2>1 DEF Lineage
  <2>4. Born(n, p[1], p[2])
    BY <2>2, <2>3 DEF Onward, Refs, Insertions
  <2>. QED BY <2>1, <2>3, <2>4
<1>2. Completing(n)
  <2>. SUFFICES ASSUME NEW a \in n.attempts, a.ok
                PROVE  /\ a.phase = "callback" /\ Ref(a) \notin Going(n) /\ n.rec[a.job][a.inc].state = "active"
                       /\ \A b \in n.attempts : b.ok /\ Ref(b) = Ref(a) => a = b
    BY DEF Completing
  <2>1. a \in m.attempts /\ \A b \in n.attempts : b.ok => b \in m.attempts
    BY DEF Onward
  <2>2. /\ a.phase = "callback" /\ Ref(a) \notin Going(m) /\ m.rec[a.job][a.inc].state = "active"
        /\ \A b \in m.attempts : b.ok /\ Ref(b) = Ref(a) => a = b
    BY <2>1 DEF Completing
  <2>3. Ref(a) \notin Going(n)
    BY <2>2, GoingFewer
  <2>4. a.job \in Jobs /\ a.inc \in Insertions /\ Ref(a) = <<a.job, a.inc>>
    BY <2>1, Referred
  <2>5. n.rec[a.job][a.inc].state = "active"
    BY <2>2, <2>4 DEF Onward
  <2>. QED BY <2>1, <2>2, <2>3, <2>5
<1>. QED BY <1>1, <1>2

LEMMA QuietPatient ==
  ASSUME NEW m, NEW X, NEW open, Sound(m, X, open), NEW n, Quiet(m, n), NEW L, Patient(m, L), NEW M, M \subseteq L
  PROVE  Patient(n, M)
<1>1. Lineage(n) /\ Completing(n)
  BY OnwardPatient DEF Quiet, Patient
<1>2. ASSUME NEW j \in Held(n) PROVE Waits(n, M, <<j, n.held[j]>>)
  <2>1. j \in Held(m) /\ n.held[j] = m.held[j] /\ Same(m, n, j) /\ m \in Memory /\ n \in Memory
    BY HeldFewer DEF Quiet, Onward, Sound
  <2>2. <<j, m.held[j]>> \in Refs /\ Waits(m, L, <<j, m.held[j]>>)
    BY <2>1, Referred DEF Patient
  <2>3. \A k \in Jobs, i \in Insertions : n.rec[k][i].parent = m.rec[k][i].parent
    BY DEF Quiet, Onward
  <2>. DEFINE p == <<j, m.held[j]>>
  <2>4. /\ n.rec[p[1]][p[2]].state = "waiting-children" <=> m.rec[p[1]][p[2]].state = "waiting-children"
        /\ n.rec[p[1]][p[2]].pending = m.rec[p[1]][p[2]].pending
    BY <2>1 DEF Same, The
  <2>. HIDE DEF p
  <2>5. p \in Refs /\ Waits(m, L, p)
    BY <2>2 DEF p
  <2>6. Waits(n, M, p)
    BY <2>1, <2>3, <2>4, <2>5, WaitsFewer
  <2>. QED BY <2>1, <2>6 DEF p
<1>. QED BY <1>1, <1>2 DEF Patient

(* A record that is released has nothing left to wait for, or a child that   *)
(* was allowed to fail.                                                    *)
LEMMA ReleasedPatient ==
  ASSUME NEW m, NEW X, NEW open, Sound(m, X, open), NEW j \in Held(m), NEW n, Released(m, n, j), NEW L,
         Lineage(m), Completing(m), \A k \in Held(m) : k # j => Waits(m, L, <<k, m.held[k]>>),
         Loyal(j) => Kids(m, L, <<j, m.held[j]>>) = {}
  PROVE  Patient(n, L)
<1>1. Lineage(n) /\ Completing(n) /\ m \in Memory /\ n \in Memory
  BY OnwardPatient DEF Released, Onward, Sound
<1>2. /\ n.held = m.held /\ Held(n) = Held(m)
      /\ \A k \in Jobs, i \in Insertions : n.rec[k][i].parent = m.rec[k][i].parent
  BY DEF Released, Onward, Held
<1>3. ASSUME NEW k \in Held(n), k # j PROVE Waits(n, L, <<k, n.held[k]>>)
  <2>. DEFINE p == <<k, m.held[k]>>
  <2>1. p \in Refs /\ Waits(m, L, p) /\ Same(m, n, k)
    BY <1>2, <1>3, Referred DEF Released
  <2>2. /\ n.rec[p[1]][p[2]].state = "waiting-children" <=> m.rec[p[1]][p[2]].state = "waiting-children"
        /\ n.rec[p[1]][p[2]].pending = m.rec[p[1]][p[2]].pending
    BY <1>2, <2>1 DEF Same, The
  <2>. HIDE DEF p
  <2>3. Waits(n, L, p)
    BY <1>1, <1>2, <2>1, <2>2, WaitsFewer
  <2>. QED BY <1>2, <2>3 DEF p
<1>4. Waits(n, L, <<j, n.held[j]>>)
  <2>1. n.rec[j][n.held[j]].state # "waiting-children"
    BY DEF Released, The
  <2>2. Kids(n, L, <<j, n.held[j]>>) = Kids(m, L, <<j, m.held[j]>>)
    BY <1>2 DEF Kids
  <2>. QED BY <2>1, <2>2 DEF Waits
<1>. QED BY <1>1, <1>2, <1>3, <1>4 DEF Patient

(* Nothing becomes live but what is made.                                   *)
LEMMA LiveFewer ==
  ASSUME NEW m, NEW X, NEW open, Sound(m, X, open), NEW n, Onward(m, n), NEW hs
  PROVE  Live(n, hs) \subseteq Live(m, hs)
<1>. SUFFICES ASSUME NEW r \in Live(n, hs) PROVE r \in Live(m, hs)
  OBVIOUS
<1>1. CASE r \in Going(n)
  BY <1>1, GoingFewer DEF Live
<1>2. CASE \E a \in n.attempts : a.ok /\ r = Ref(a)
  BY <1>2 DEF Live, Onward
<1>3. CASE r \in Refs \cap hs /\ n.rec[r[1]][r[2]].state # "active"
  <2>1. r = <<r[1], r[2]>> /\ r[1] \in Jobs /\ r[2] \in Insertions
    BY <1>3 DEF Refs, Insertions
  <2>2. CASE m.rec[r[1]][r[2]].state = "active"
    BY <1>3, <2>1, <2>2 DEF Live, Onward
  <2>3. CASE m.rec[r[1]][r[2]].state # "active"
    BY <1>3, <2>3 DEF Live
  <2>. QED BY <2>2, <2>3
<1>. QED BY <1>1, <1>2, <1>3 DEF Live

LEMMA QuietSelf ==
  ASSUME NEW m, NEW X, NEW open, Sound(m, X, open)
  PROVE  Quiet(m, m)
<1>1. \A b \in m.attempts : b.phase = "process" => Ref(b) \in Going(m)
  BY Referred DEF Going
<1>2. m \in Memory
  BY DEF Sound
<1>3. Onward(m, m)
  BY <1>1, <1>2 DEF Onward
<1>. QED BY <1>3 DEF Quiet, Same

(* Record r counts for its parent, and no more: one child fewer is live.     *)
LEMMA OneFewer ==
  ASSUME NEW m \in Memory, NEW L, NEW r \in Refs, r \in L, Lineage(m), m.rec[r[1]][r[2]].parent # None
  PROVE  /\ Cardinality(Kids(m, L \ {r}, m.rec[r[1]][r[2]].parent)) + 1 <= Cardinality(Kids(m, L, m.rec[r[1]][r[2]].parent))
         /\ Cardinality(Kids(m, L \ {r}, m.rec[r[1]][r[2]].parent)) \in Nat
         /\ Cardinality(Kids(m, L, m.rec[r[1]][r[2]].parent)) \in Nat
         /\ Cardinality(Kids(m, L \ {r}, m.rec[r[1]][r[2]].parent)) = 0 => Kids(m, L \ {r}, m.rec[r[1]][r[2]].parent) = {}
<1>. DEFINE p == m.rec[r[1]][r[2]].parent
            K == Kids(m, L, p)
            F == Kids(m, L \ {r}, p)
<1>1. r = <<r[1], r[2]>> /\ r[1] \in Jobs /\ r[2] \in Insertions
  BY DEF Refs, Insertions
<1>2. r[1] \in K
  BY <1>1 DEF Kids
<1>3. F \subseteq K \ {r[1]}
  <2>. SUFFICES ASSUME NEW k \in F PROVE k \in K /\ k # r[1]
    OBVIOUS
  <2>1. PICK i \in Insertions : k \in Jobs /\ <<k, i>> \in L /\ <<k, i>> # r /\ m.rec[k][i].parent = p
    BY DEF Kids
  <2>2. k \in K
    BY <2>1 DEF Kids
  <2>3. ASSUME k = r[1] PROVE FALSE
    <3>1. i = r[2]
      BY <1>1, <2>1, <2>3 DEF Lineage
    <3>. QED BY <1>1, <2>1, <2>3, <3>1
  <2>. QED BY <2>2, <2>3
<1>4. IsFiniteSet(K) /\ Cardinality(K) \in Nat
  BY KidsFacts
<1>. HIDE DEF K, F
<1>5. IsFiniteSet(K \ {r[1]}) /\ Cardinality(K \ {r[1]}) = Cardinality(K) - 1
  BY <1>2, <1>4, FS_RemoveElement
<1>6. IsFiniteSet(F) /\ Cardinality(F) <= Cardinality(K \ {r[1]})
  BY <1>3, <1>5, FS_Subset
<1>7. Cardinality(F) \in Nat /\ (Cardinality(F) = 0 => F = {})
  BY <1>6, FS_CardinalityType, FS_EmptySet
<1>8. Cardinality(F) + 1 <= Cardinality(K)
  BY <1>4, <1>5, <1>6, <1>7
<1>. QED BY <1>4, <1>7, <1>8 DEF F, K

LEMMA CountedPatient ==
  ASSUME NEW m, NEW X, Sound(m, X, transport = "open"), OneOpen(phase), Filled(m, phase, {}),
         NEW L, Patient(m, L), NEW r \in Refs, r \in L
  PROVE  /\ Patient(Counted(m, m.rec[r[1]][r[2]].parent), L \ {r})
         /\ Onward(m, Counted(m, m.rec[r[1]][r[2]].parent))
<1>. DEFINE open == transport = "open"
            p == m.rec[r[1]][r[2]].parent
            M == L \ {r}
<1>0. m \in Memory /\ InTurn(m) /\ Timed(m) /\ Sound(m, X, open) /\ Lineage(m) /\ Completing(m)
  BY DEF Sound, Patient
<1>1. r[1] \in Jobs /\ r[2] \in Insertions /\ p \in Refs \cup {None}
  BY <1>0, MemFacts, RecordFacts DEF Refs, Insertions
<1>. HIDE DEF p
<1>2. CASE ~ParentPending(m, p)
  <2>1. Counted(m, p) = m
    BY <1>2 DEF Counted
  <2>2. Quiet(m, m)
    BY <1>0, QuietSelf
  <2>3. Patient(m, M)
    BY <1>0, <2>2, QuietPatient
  <2>. QED BY <2>1, <2>2, <2>3 DEF Quiet, p
<1>3. CASE ParentPending(m, p)
  <2>. DEFINE j == p[1]
              i == p[2]
              R == m.rec[j][i]
              n == R.pending
              S == [R EXCEPT !.pending = n - 1]
              c == Put(m, j, i, S)
              F == Kids(m, M, p)
  <2>1. /\ j \in Held(m) /\ j \in Jobs /\ i \in Insertions /\ m.held[j] = i /\ R = The(m, j)
        /\ R.state = "waiting-children" /\ R \in Record /\ Born(m, j, i) /\ p \in Refs
    BY <1>0, <1>1, <1>3, ParentFacts
  <2>11. p = <<j, i>>
    BY <2>1 DEF Refs
  <2>2. n > 0 /\ n \in Nat /\ n - 1 \in Nat /\ ~R.timer
    BY <1>0, <2>1, RecordFacts DEF Timed
  <2>3. Cardinality(F) <= n - 1 /\ (Cardinality(F) = 0 => F = {}) /\ Cardinality(F) \in Nat
    <3>1. Waits(m, L, p)
      <4>1. p = <<j, m.held[j]>>
        BY <2>1, <2>11
      <4>. HIDE DEF j
      <4>. QED BY <2>1, <4>1 DEF Patient
    <3>2. Cardinality(Kids(m, L, p)) <= n
      BY <2>1, <3>1 DEF Waits
    <3>3. p # None
      BY <1>3 DEF ParentPending
    <3>4. /\ Cardinality(F) + 1 <= Cardinality(Kids(m, L, p)) /\ Cardinality(F) \in Nat
          /\ Cardinality(Kids(m, L, p)) \in Nat /\ (Cardinality(F) = 0 => F = {})
      BY <1>0, <3>3, OneFewer DEF p
    <3>. HIDE DEF F, n
    <3>. QED BY <2>2, <3>2, <3>4
  <2>4. [m EXCEPT !.rec[p[1]][p[2]].pending = n - 1] = c
    BY DEF Put
  <2>5. Counted(m, p) = IF n <= 1 THEN Admitted(c, j) ELSE c
    BY <1>3, <2>4 DEF Counted
  <2>6. S \in Record /\ S.seq = R.seq /\ S.made = R.made /\ S.parent = R.parent /\ S.state = R.state
        /\ S.timer = R.timer /\ S.pending = n - 1
    BY <2>1, <2>2 DEF Record
  <2>7. \A k \in Held(m) : <<k, m.held[k]>> \in Refs /\ Waits(m, M, <<k, m.held[k]>>)
    <3>. SUFFICES ASSUME NEW k \in Held(m) PROVE <<k, m.held[k]>> \in Refs /\ Waits(m, M, <<k, m.held[k]>>)
      OBVIOUS
    <3>. DEFINE t == <<k, m.held[k]>>
    <3>1. t \in Refs /\ Waits(m, L, t)
      BY Referred DEF Patient
    <3>. HIDE DEF t
    <3>2. Waits(m, M, t)
      BY <1>0, <3>1, WaitsFewer
    <3>. QED BY <3>1, <3>2 DEF t
  <2>. HIDE DEF S, n, R, j, i, F, M
  <2>8. Edited(m, c, j, i) /\ c.rec[j][i] = S
    <3>1. Edited(m, m, j, i)
      BY <1>0 DEF Edited
    <3>2. S.seq = m.rec[j][i].seq /\ S.made = m.rec[j][i].made /\ S.parent = m.rec[j][i].parent
      BY <2>6 DEF R
    <3>. QED BY <1>0, <2>1, <2>6, <3>1, <3>2, EditedPut
  <2>. HIDE DEF c
  <2>9. CASE n <= 1
    <3>1. ~The(c, j).timer
      BY <2>1, <2>2, <2>6, <2>8 DEF The, Edited
    <3>2. Edited(m, c, j, m.held[j]) /\ The(m, j).state = "waiting-children"
      BY <2>1, <2>8
    <3>3. Released(m, Admitted(c, j), j)
      BY <2>1, <3>1, <3>2, AdmittedFacts
    <3>4. F = {}
      BY <2>2, <2>3, <2>9
    <3>5. Kids(m, M, <<j, m.held[j]>>) = {}
      BY <2>1, <2>11, <3>4 DEF F
    <3>6. Patient(Admitted(c, j), M)
      BY <1>0, <2>1, <2>7, <3>3, <3>5, ReleasedPatient
    <3>. QED BY <2>5, <2>9, <3>3, <3>6 DEF Released, p, M
  <2>10. CASE ~(n <= 1)
    <3>1. m.rec[j][i].state = "waiting-children" /\ c.rec[j][i].state = "waiting-children"
      BY <2>1, <2>6, <2>8 DEF R
    <3>2. Onward(m, c) /\ \A k \in Held(c) : k # j \/ m.held[j] # i => Same(m, c, k)
      BY <1>0, <2>1, <2>8, <3>1, EditOnward
    <3>3. /\ Held(c) = Held(m) /\ c.held = m.held /\ c \in Memory
          /\ \A k \in Jobs, l \in Insertions : c.rec[k][l].parent = m.rec[k][l].parent
      BY <2>8, <3>2 DEF Edited, Held, Onward
    <3>4. ASSUME NEW k \in Held(c), k # j PROVE Waits(c, M, <<k, c.held[k]>>)
      <4>. DEFINE t == <<k, m.held[k]>>
      <4>1. t \in Refs /\ Waits(m, M, t) /\ Same(m, c, k)
        BY <2>7, <3>2, <3>3, <3>4
      <4>2. /\ c.rec[t[1]][t[2]].state = "waiting-children" <=> m.rec[t[1]][t[2]].state = "waiting-children"
            /\ c.rec[t[1]][t[2]].pending = m.rec[t[1]][t[2]].pending
        BY <3>3, <4>1 DEF Same, The
      <4>. HIDE DEF t
      <4>3. Waits(c, M, t)
        BY <1>0, <3>3, <4>1, <4>2, WaitsFewer
      <4>. QED BY <3>3, <4>3 DEF t
    <3>5. Waits(c, M, <<j, c.held[j]>>)
      <4>1. Kids(c, M, p) = F
        BY <3>3 DEF Kids, F
      <4>2. c.rec[p[1]][p[2]].state = "waiting-children" /\ c.rec[p[1]][p[2]].pending = n - 1
        BY <2>6, <2>8, <2>11, <3>1
      <4>3. p = <<j, c.held[j]>>
        BY <2>1, <2>11, <3>3
      <4>. QED BY <2>3, <4>1, <4>2, <4>3 DEF Waits
    <3>6. Lineage(c) /\ Completing(c)
      BY <1>0, <3>2, OnwardPatient
    <3>7. Patient(c, M)
      BY <3>3, <3>4, <3>5, <3>6 DEF Patient
    <3>. QED BY <2>5, <2>10, <3>2, <3>7 DEF p, M
  <2>. QED BY <2>9, <2>10
<1>. QED BY <1>2, <1>3

LEMMA DeletedQuiet ==
  ASSUME NEW m, NEW X, NEW open, Sound(m, X, open), NEW S
  PROVE  Quiet(m, Deleted(m, S))
<1>1. Quiet(m, m) /\ m \in Memory
  BY QuietSelf DEF Sound
<1>2. /\ Deleted(m, S) \in Memory /\ Deleted(m, S).rec = m.rec /\ Deleted(m, S).attempts = m.attempts
      /\ \A j \in Jobs : Deleted(m, S).held[j] = IF j \in S THEN 0 ELSE m.held[j]
  BY <1>1, DeletedFacts
<1>. DEFINE d == Deleted(m, S)
<1>. HIDE DEF d
<1>3. d \in Memory /\ d.rec = m.rec /\ d.attempts = m.attempts /\ \A j \in Jobs : d.held[j] \in {0, m.held[j]}
  BY <1>2 DEF d
<1>4. Onward(m, d)
  BY <1>1, <1>3 DEF Quiet, Onward, Born
<1>5. \A k \in Held(d) : Same(m, d, k)
  BY <1>3 DEF Held, Same, The
<1>. QED BY <1>4, <1>5 DEF Quiet, d

(* A child that failed: it counts, it lets its parent go on, or it fells it. *)
LEMMA SettledPatient ==
  ASSUME NEW m, NEW X, Sound(m, X, transport = "open"), OneOpen(phase), Filled(m, phase, {}),
         NEW L, Patient(m, L), NEW r \in Refs, r \in L
  PROVE  Patient(Settled(m, r), L \ {r}) /\ Onward(m, Settled(m, r))
<1>. DEFINE p == m.rec[r[1]][r[2]].parent
            M == L \ {r}
<1>0. m \in Memory /\ InTurn(m) /\ Lineage(m) /\ Completing(m) /\ r[1] \in Jobs /\ r[2] \in Insertions
  BY DEF Sound, Patient, Refs, Insertions
<1>1. p \in Refs \cup {None}
  BY <1>0, MemFacts, RecordFacts
<1>2. Quiet(m, m) /\ Patient(m, M)
  <2>1. Quiet(m, m)
    BY QuietSelf
  <2>. QED BY <2>1, QuietPatient
<1>3. CASE OnFailure[r[1]] = "ignore"
  BY <1>3, CountedPatient DEF Settled
<1>4. CASE OnFailure[r[1]] = "continue" /\ ParentPending(m, p)
  <2>1. Settled(m, r) = Admitted(m, p[1])
    BY <1>4 DEF Settled
  <2>2. p \in Refs /\ p[1] \in Held(m) /\ The(m, p[1]).state = "waiting-children"
    BY <1>0, <1>1, <1>4, ParentFacts
  <2>3. ~Loyal(p[1])
    <3>1. IsChild(r[1], p[1])
      BY <1>0, <1>4 DEF Lineage, ParentPending
    <3>. QED BY <1>0, <1>4, <3>1 DEF Loyal
  <2>. DEFINE j == p[1]
  <2>4. j \in Held(m) /\ The(m, j).state \in {"waiting", "waiting-children"} /\ ~Loyal(j)
    BY <2>2, <2>3
  <2>. HIDE DEF j, M
  <2>5. Released(m, Admitted(m, j), j)
    <3>1. {} \in SUBSET {j}
      OBVIOUS
    <3>. QED BY <2>4, <3>1, AdmittedAsIs
  <2>6. Patient(Admitted(m, j), M)
    BY <1>0, <1>2, <2>4, <2>5, ReleasedPatient DEF Patient
  <2>. QED BY <2>1, <2>5, <2>6 DEF Released, j, M
<1>5. CASE OnFailure[r[1]] # "ignore" /\ ~(OnFailure[r[1]] = "continue" /\ ParentPending(m, p))
  <2>1. Settled(m, r) = Deleted(m, Felled(m, r))
    BY <1>5 DEF Settled
  <2>2. Quiet(m, Deleted(m, Felled(m, r)))
    BY DeletedQuiet
  <2>. HIDE DEF M
  <2>3. Patient(Deleted(m, Felled(m, r)), M)
    BY <1>2, <2>2, QuietPatient
  <2>. QED BY <2>1, <2>2, <2>3 DEF Quiet, M
<1>. QED BY <1>3, <1>4, <1>5

-----------------------------------------------------------------------------
(* What a flow makes waits for what it makes below.                          *)

(* The handles hs refer to records that were made.                          *)
Known(m, hs) == \A r \in Refs \cap hs : Born(m, r[1], r[2])

LEMMA ChildrenFew ==
  ASSUME NEW j \in Jobs
  PROVE  /\ IsFiniteSet({k \in Jobs : IsChild(k, j)}) /\ Len(Children[j]) \in Nat
         /\ Cardinality({k \in Jobs : IsChild(k, j)}) <= Len(Children[j])
<1>. DEFINE S == 1 .. Len(Children[j])
            T == {k \in Jobs : IsChild(k, j)}
            f == [i \in S |-> Children[j][i]]
<1>1. Children[j] \in Seq(Jobs)
  BY ConstantsAssumption
<1>2. Len(Children[j]) \in Nat /\ DOMAIN Children[j] = S /\ \A i \in S : Children[j][i] \in Jobs
  BY <1>1
<1>3. f \in Surjection(S, T)
  <2>1. f \in [S -> T]
    BY <1>2 DEF IsChild
  <2>2. \A t \in T : \E i \in S : f[i] = t
    BY <1>2 DEF IsChild
  <2>. QED BY <2>1, <2>2 DEF Surjection
<1>4. IsFiniteSet(S) /\ Cardinality(S) = Len(Children[j])
  BY <1>2, FS_Interval
<1>. QED BY <1>2, <1>3, <1>4, FS_Surjection

(* p, if any, is a parent in the map that expects a record of j.             *)
Expects(m, j, p) ==
  p # None => /\ m.held[p[1]] = p[2] /\ IsChild(j, p[1]) /\ \A l \in Insertions : m.rec[j][l].parent # p
              /\ m.rec[p[1]][p[2]].state = "waiting-children"
              /\ m.rec[p[1]][p[2]].pending = Len(Children[p[1]])

LEMMA InsertedPatient ==
  ASSUME NEW m, NEW X, NEW open, Sound(m, X, open), NEW j \in Jobs, m.held[j] = 0, Births(m, j) < MaxEnqueues,
         NEW s \in {"waiting", "waiting-children"}, NEW p \in Refs \cup {None}, NEW n \in Nat,
         NEW hs, Known(m, hs), Patient(m, Live(m, hs)),
         Expects(m, j, p)
  PROVE  /\ Patient(Inserted(m, j, s, p, n), Live(Inserted(m, j, s, p, n), hs)) /\ Known(Inserted(m, j, s, p, n), hs)
         /\ The(Inserted(m, j, s, p, n), j).state = s /\ The(Inserted(m, j, s, p, n), j).pending = n
         /\ \A k \in Jobs, i \in Insertions :
              Inserted(m, j, s, p, n).rec[k][i].parent # <<j, Inserted(m, j, s, p, n).held[j]>>
<1>. DEFINE e == Inserted(m, j, s, p, n)
            b == Births(m, j) + 1
            R == [state |-> s, made |-> 0, seq |-> m.seq, timer |-> FALSE, parent |-> p, pending |-> n]
            L == Live(m, hs)
            N == Live(e, hs)
<1>0. m \in Memory /\ InTurn(m) /\ Trying(m) /\ Lineage(m) /\ Completing(m)
  BY DEF Sound, Patient
<1>. HIDE DEF L, N
<1>1. /\ e \in Memory /\ b \in Insertions /\ ~Born(m, j, b) /\ e.attempts = m.attempts
      /\ \A k \in Jobs : e.held[k] = IF k = j THEN b ELSE m.held[k]
      /\ \A k \in Jobs, l \in Insertions : e.rec[k][l] = IF k = j /\ l = b THEN R ELSE m.rec[k][l]
  <2>1. /\ m \in Memory /\ InTurn(m) /\ j \in Jobs /\ Births(m, j) < MaxEnqueues
        /\ s \in {"waiting", "waiting-children"} /\ p \in Refs \cup {None} /\ n \in Nat
    BY <1>0
  <2>. QED BY ONLY <2>1, InsertedFacts
<1>2. R.state = s /\ R.pending = n /\ R.parent = p
  OBVIOUS
<1>. HIDE DEF e, b, R
<1>. USE DEF L, N
<1>25. p # None => /\ m.held[p[1]] = p[2] /\ IsChild(j, p[1]) /\ \A l \in Insertions : m.rec[j][l].parent # p
                  /\ m.rec[p[1]][p[2]].state = "waiting-children"
                  /\ m.rec[p[1]][p[2]].pending = Len(Children[p[1]])
  BY DEF Expects
<1>. USE <1>25
<1>3. \A k \in Jobs, l \in Insertions :
        /\ Born(m, k, l) => Born(e, k, l) /\ ~(k = j /\ l = b) /\ e.rec[k][l] = m.rec[k][l]
        /\ m.rec[k][l].parent \in Refs \cup {None}
  BY <1>0, <1>1, MemFacts, RecordFacts DEF Born
<1>4. p # None => p \in Refs /\ p[1] \in Jobs /\ p[2] \in Insertions /\ p[1] # j /\ Born(m, p[1], p[2])
  <2>. SUFFICES ASSUME p # None PROVE p \in Refs /\ p[1] \in Jobs /\ p[2] \in Insertions /\ p[1] # j /\ Born(m, p[1], p[2])
    OBVIOUS
  <2>1. p \in Refs /\ p[1] \in Jobs /\ p[2] \in Insertions /\ p[2] # 0
    BY DEF Refs, Insertions
  <2>. QED BY <2>1 DEF Born
<1>5. \A t \in Refs : t = <<t[1], t[2]>> /\ t[1] \in Jobs /\ t[2] \in Insertions
  BY DEF Refs, Insertions
<1>6. Lineage(e)
  <2>. SUFFICES ASSUME NEW k \in Jobs, NEW i \in Insertions, e.rec[k][i].parent # None
                PROVE  /\ Born(e, e.rec[k][i].parent[1], e.rec[k][i].parent[2]) /\ IsChild(k, e.rec[k][i].parent[1])
                       /\ \A l \in Insertions : e.rec[k][l].parent = e.rec[k][i].parent => l = i
    BY DEF Lineage
  <2>1. CASE k = j /\ i = b
    <3>1. e.rec[k][i].parent = p
      BY <1>1, <1>2, <2>1
    <3>2. Born(e, p[1], p[2]) /\ IsChild(j, p[1])
      BY <1>3, <1>4, <3>1
    <3>3. \A l \in Insertions : l # b => e.rec[j][l].parent # p
      BY <1>1, <3>1
    <3>. QED BY <2>1, <3>1, <3>2, <3>3
  <2>2. CASE ~(k = j /\ i = b)
    <3>. DEFINE q == m.rec[k][i].parent
    <3>1. e.rec[k][i].parent = q /\ q \in Refs
      BY <1>1, <1>3, <2>2
    <3>2. Born(m, q[1], q[2]) /\ IsChild(k, q[1]) /\ \A l \in Insertions : m.rec[k][l].parent = q => l = i
      BY <1>0, <3>1 DEF Lineage
    <3>3. Born(e, q[1], q[2])
      BY <1>3, <1>5, <3>1, <3>2
    <3>4. ASSUME NEW l \in Insertions, e.rec[k][l].parent = q PROVE l = i
      <4>1. CASE k = j /\ l = b
        <5>1. p = q
          BY <1>1, <1>2, <3>4, <4>1
        <5>. QED BY <2>2, <3>1, <4>1, <5>1
      <4>2. CASE ~(k = j /\ l = b)
        <5>1. m.rec[k][l].parent = q
          BY <1>1, <3>4, <4>2
        <5>. QED BY <3>2, <5>1
      <4>. QED BY <4>1, <4>2
    <3>. QED BY <3>1, <3>2, <3>3, <3>4
  <2>. QED BY <2>1, <2>2
<1>7. Going(e) \subseteq Going(m) \cup {<<j, b>>}
  <2>. SUFFICES ASSUME NEW r \in Going(e), r # <<j, b>> PROVE r \in Going(m)
    OBVIOUS
  <2>1. r \in Refs /\ r[1] \in Jobs /\ r = <<r[1], r[2]>>
    BY <1>5 DEF Going
  <2>2. CASE e.held[r[1]] = r[2]
    BY <1>1, <2>1, <2>2 DEF Going
  <2>3. CASE \E a \in e.attempts : Ref(a) = r /\ a.phase = "process"
    BY <1>1, <2>1, <2>3 DEF Going
  <2>. QED BY <2>2, <2>3 DEF Going
<1>8. Completing(e)
  <2>. SUFFICES ASSUME NEW a \in e.attempts, a.ok
                PROVE  /\ a.phase = "callback" /\ Ref(a) \notin Going(e) /\ e.rec[a.job][a.inc].state = "active"
                       /\ \A c \in e.attempts : c.ok /\ Ref(c) = Ref(a) => a = c
    BY DEF Completing
  <2>1. /\ a.phase = "callback" /\ Ref(a) \notin Going(m) /\ m.rec[a.job][a.inc].state = "active"
        /\ \A c \in e.attempts : c.ok /\ Ref(c) = Ref(a) => a = c
    BY <1>0, <1>1 DEF Completing
  <2>2. a.job \in Jobs /\ a.inc \in Insertions /\ Ref(a) = <<a.job, a.inc>> /\ Born(m, a.job, a.inc)
    BY <1>1, Referred
  <2>3. ~(a.job = j /\ a.inc = b) /\ e.rec[a.job][a.inc] = m.rec[a.job][a.inc]
    BY <1>3, <2>2
  <2>4. Ref(a) # <<j, b>>
    BY <2>2, <2>3
  <2>. QED BY <1>7, <2>1, <2>3, <2>4
<1>9. N \subseteq L \cup {<<j, b>>}
  <2>. SUFFICES ASSUME NEW r \in N, r # <<j, b>> PROVE r \in L
    OBVIOUS
  <2>1. CASE r \in Going(e)
    BY <1>7, <2>1 DEF Live
  <2>2. CASE \E a \in e.attempts : a.ok /\ r = Ref(a)
    <3>1. \E a \in m.attempts : a.ok /\ r = Ref(a)
      BY <1>1, <2>2
    <3>2. r \in {Ref(a) : a \in {a \in m.attempts : a.ok}}
      BY <3>1
    <3>. QED BY <3>2 DEF Live
  <2>3. CASE r \in Refs \cap hs /\ e.rec[r[1]][r[2]].state # "active"
    <3>1. e.rec[r[1]][r[2]] = m.rec[r[1]][r[2]]
      BY <1>3, <1>5, <2>3 DEF Known
    <3>. QED BY <2>3, <3>1 DEF Live
  <2>. QED BY <2>1, <2>2, <2>3 DEF Live
<1>. HIDE DEF L, N
<1>10. \A k \in Jobs, i \in Insertions : e.rec[k][i].parent # <<j, b>>
  <2>. SUFFICES ASSUME NEW k \in Jobs, NEW i \in Insertions, e.rec[k][i].parent = <<j, b>> PROVE FALSE
    OBVIOUS
  <2>. DEFINE t == <<j, b>>
  <2>1. t \in Refs /\ t # None /\ t[1] = j /\ t[2] = b
    BY <1>1 DEF Refs, Insertions, None
  <2>2. CASE k = j /\ i = b
    <3>1. p = t
      BY <1>1, <1>2, <2>2
    <3>. QED BY <1>4, <2>1, <3>1
  <2>3. CASE ~(k = j /\ i = b)
    <3>1. m.rec[k][i].parent = t
      BY <1>1, <2>3
    <3>2. Born(m, j, b)
      BY <1>0, <2>1, <3>1 DEF Lineage
    <3>. QED BY <1>1, <3>2
  <2>. QED BY <2>2, <2>3
<1>11. ASSUME NEW k \in Held(e) PROVE Waits(e, N, <<k, e.held[k]>>)
  <2>0. k \in Jobs
    BY DEF Held
  <2>1. CASE k = j
    <3>1. Kids(e, N, <<j, b>>) = {} /\ e.held[j] = b
      BY <1>1, <1>10 DEF Kids
    <3>2. Cardinality({}) = 0
      BY FS_EmptySet
    <3>3. e.rec[j][b].pending = n
      BY <1>1, <1>2
    <3>. DEFINE t == <<j, b>>
    <3>4. t[1] = j /\ t[2] = b
      OBVIOUS
    <3>. HIDE DEF t
    <3>5. Kids(e, N, t) = {} /\ e.rec[t[1]][t[2]].pending = n
      BY <3>1, <3>3, <3>4 DEF t
    <3>6. 0 <= n
      OBVIOUS
    <3>7. Waits(e, N, t)
      BY <3>2, <3>5, <3>6 DEF Waits
    <3>. QED BY <2>1, <3>1, <3>7 DEF t
  <2>2. CASE k # j
    <3>. DEFINE t == <<k, m.held[k]>>
    <3>1. k \in Held(m) /\ e.held[k] = m.held[k]
      BY <1>1, <2>0, <2>2 DEF Held
    <3>2. t \in Refs /\ Waits(m, L, t)
      BY <3>1, Referred DEF Patient, L
    <3>3. e.rec[t[1]][t[2]] = m.rec[t[1]][t[2]]
      BY <1>1, <1>5, <2>2, <3>2
    <3>4. CASE p = t
      <4>1. t # None
        BY DEF None
      <4>2. /\ m.rec[t[1]][t[2]].state = "waiting-children" /\ m.rec[t[1]][t[2]].pending = Len(Children[k])
        BY <3>4, <4>1
      <4>3. Kids(e, N, t) \subseteq {l \in Jobs : IsChild(l, k)}
        <5>. HIDE DEF t
        <5>1. t # None /\ t[1] = k
          BY <4>1 DEF t
        <5>. QED BY <1>6, <5>1 DEF Kids, Lineage
      <4>4. Cardinality(Kids(e, N, t)) <= Len(Children[k])
        <5>1. /\ IsFiniteSet({l \in Jobs : IsChild(l, k)}) /\ Len(Children[k]) \in Nat
              /\ Cardinality({l \in Jobs : IsChild(l, k)}) <= Len(Children[k])
          BY <2>0, ChildrenFew
        <5>2. /\ IsFiniteSet(Kids(e, N, t))
              /\ Cardinality(Kids(e, N, t)) <= Cardinality({l \in Jobs : IsChild(l, k)})
          BY <4>3, <5>1, FS_Subset
        <5>3. Cardinality(Kids(e, N, t)) \in Nat /\ Cardinality({l \in Jobs : IsChild(l, k)}) \in Nat
          BY <5>1, <5>2, FS_CardinalityType
        <5>. QED BY <5>1, <5>2, <5>3
      <4>. QED BY <3>1, <3>3, <4>2, <4>4 DEF Waits
    <3>5. CASE p # t
      <4>1. Kids(e, N, t) \subseteq Kids(m, L, t)
        <5>. SUFFICES ASSUME NEW l \in Kids(e, N, t) PROVE l \in Kids(m, L, t)
          OBVIOUS
        <5>1. PICK i \in Insertions : l \in Jobs /\ <<l, i>> \in N /\ e.rec[l][i].parent = t
          BY DEF Kids
        <5>2. ~(l = j /\ i = b)
          BY <1>1, <1>2, <3>5, <5>1
        <5>3. <<l, i>> \in L /\ m.rec[l][i].parent = t
          BY <1>1, <1>9, <5>1, <5>2
        <5>. QED BY <5>1, <5>3 DEF Kids
      <4>2. IsFiniteSet(Kids(m, L, t)) /\ Cardinality(Kids(m, L, t)) \in Nat
        BY KidsFacts
      <4>3. /\ IsFiniteSet(Kids(e, N, t)) /\ Cardinality(Kids(e, N, t)) <= Cardinality(Kids(m, L, t))
            /\ Cardinality(Kids(e, N, t)) \in Nat
        BY <4>1, <4>2, FS_Subset, FS_CardinalityType
      <4>4. m.rec[t[1]][t[2]].pending \in Nat
        BY <1>0, <1>5, <3>2, MemFacts, RecordFacts
      <4>. HIDE DEF t
      <4>5. Waits(e, N, t)
        BY <3>2, <3>3, <4>1, <4>2, <4>3, <4>4 DEF Waits
      <4>. QED BY <3>1, <4>5 DEF t
    <3>. QED BY <3>4, <3>5
  <2>. QED BY <2>1, <2>2
<1>12. Patient(e, N)
  BY <1>6, <1>8, <1>11 DEF Patient
<1>13. Known(e, hs)
  BY <1>3, <1>5 DEF Known
<1>14. e.held[j] = b /\ The(e, j).state = s /\ The(e, j).pending = n
  BY <1>1, <1>2 DEF The
<1>. QED BY <1>10, <1>12, <1>13, <1>14 DEF e, N

(* The parents wait, whatever the handles hs remove.                         *)
Awaits(m, hs) == Known(m, hs) /\ Patient(m, Live(m, hs))

LEMMA OnwardKnown ==
  ASSUME NEW m, NEW n, Onward(m, n), NEW hs, Known(m, hs)
  PROVE  Known(n, hs)
BY DEF Onward, Known, Refs, Insertions

LEMMA QuietAwaits ==
  ASSUME NEW m, NEW X, NEW open, Sound(m, X, open), NEW n, Quiet(m, n), NEW hs, Awaits(m, hs)
  PROVE  Awaits(n, hs)
<1>1. Onward(m, n) /\ Known(m, hs) /\ Patient(m, Live(m, hs))
  BY DEF Quiet, Awaits
<1>2. Live(n, hs) \subseteq Live(m, hs) /\ Known(n, hs)
  BY <1>1, LiveFewer, OnwardKnown
<1>. QED BY <1>1, <1>2, QuietPatient DEF Awaits

LEMMA ReleasedAwaits ==
  ASSUME NEW m, NEW X, NEW open, Sound(m, X, open), NEW j \in Held(m), NEW n, NEW Y, Sound(n, Y, open),
         Released(m, n, j), NEW hs, Awaits(m, hs), Kids(m, Live(m, hs), <<j, m.held[j]>>) = {}
  PROVE  Awaits(n, hs)
<1>. DEFINE L == Live(m, hs)
<1>1. Onward(m, n) /\ Known(m, hs) /\ Patient(m, L)
  BY DEF Released, Awaits
<1>2. Live(n, hs) \subseteq L /\ Known(n, hs)
  BY <1>1, LiveFewer, OnwardKnown
<1>3. Kids(m, L, <<j, m.held[j]>>) = {}
  OBVIOUS
<1>. HIDE DEF L
<1>4. Patient(n, L)
  BY <1>1, <1>3, ReleasedPatient DEF Patient
<1>5. Quiet(n, n)
  BY QuietSelf
<1>. QED BY <1>2, <1>4, <1>5, QuietPatient DEF Awaits

LEMMA InsertedAwaits ==
  ASSUME NEW m, NEW X, NEW open, Sound(m, X, open), NEW j \in Jobs, m.held[j] = 0, Births(m, j) < MaxEnqueues,
         NEW hs, Awaits(m, hs)
  PROVE  /\ Awaits(Inserted(m, j, "waiting", None, 0), hs)
         /\ \A M : Kids(Inserted(m, j, "waiting", None, 0), M, <<j, Inserted(m, j, "waiting", None, 0).held[j]>>) = {}
<1>. DEFINE s == "waiting"
            p == None
            e == Inserted(m, j, s, p, 0)
<1>1. s \in {"waiting", "waiting-children"} /\ p \in Refs \cup {None} /\ p = None /\ 0 \in Nat
  OBVIOUS
<1>2. Known(m, hs) /\ Patient(m, Live(m, hs))
  BY DEF Awaits
<1>. HIDE DEF s, p
<1>3. /\ Patient(e, Live(e, hs)) /\ Known(e, hs)
      /\ \A k \in Jobs, i \in Insertions : e.rec[k][i].parent # <<j, e.held[j]>>
  <2>1. Expects(m, j, p)
    BY <1>1 DEF Expects
  <2>. QED BY <1>1, <1>2, <2>1, InsertedPatient
<1>. HIDE DEF e
<1>4. Awaits(e, hs) /\ \A M : Kids(e, M, <<j, e.held[j]>>) = {}
  BY <1>3 DEF Awaits, Kids
<1>. QED BY <1>4 DEF e, s, p

-----------------------------------------------------------------------------
(* The flow under construction: all that refers to a record of S is of S,   *)
(* and each parent of S waits for as many as it has below it.               *)
Branching(m, S) ==
  \A p \in S :
    /\ \A k \in Jobs, i \in Insertions : m.rec[k][i].parent = <<p, m.held[p]>> => k \in S
    /\ Len(Children[p]) > 0 =>
         The(m, p).state = "waiting-children" /\ The(m, p).pending = Len(Children[p])

(* The parent that a node of the flow is made under.                        *)
Under(m, S, j, p) ==
  p # None => \E q \in S : p = <<q, m.held[q]>> /\ IsChild(j, q)

LEMMA GrownAwaits ==
  ASSUME NEW m, NEW X, NEW open, Sound(m, X, open), NEW j \in Jobs, m.held[j] = 0, Births(m, j) < MaxEnqueues,
         NEW s \in {"waiting", "waiting-children"}, NEW p \in Refs \cup {None}, NEW n \in Nat,
         NEW hs, Awaits(m, hs), NEW S \in SUBSET Held(m), Branching(m, S), Under(m, S, j, p),
         n = Len(Children[j]), s = IF n > 0 THEN "waiting-children" ELSE "waiting"
  PROVE  /\ Awaits(Inserted(m, j, s, p, n), hs) /\ Branching(Inserted(m, j, s, p, n), S \cup {j})
         /\ \A M : Kids(Inserted(m, j, s, p, n), M, <<j, Inserted(m, j, s, p, n).held[j]>>) = {}
<1>. DEFINE e == Inserted(m, j, s, p, n)
<1>1. Known(m, hs) /\ Patient(m, Live(m, hs)) /\ m \in Memory /\ InTurn(m) /\ S \subseteq Jobs /\ j \notin S
  BY DEF Awaits, Sound, Held
<1>2. Expects(m, j, p)
  <2>. SUFFICES ASSUME p # None
                PROVE  /\ m.held[p[1]] = p[2] /\ IsChild(j, p[1]) /\ \A l \in Insertions : m.rec[j][l].parent # p
                       /\ m.rec[p[1]][p[2]].state = "waiting-children"
                       /\ m.rec[p[1]][p[2]].pending = Len(Children[p[1]])
    BY DEF Expects
  <2>1. PICK q \in S : p = <<q, m.held[q]>> /\ IsChild(j, q)
    BY DEF Under
  <2>2. Len(Children[q]) > 0
    <3>1. Children[q] \in Seq(Jobs)
      BY <1>1, ConstantsAssumption
    <3>. QED BY <2>1, <3>1 DEF IsChild
  <2>3. The(m, q).state = "waiting-children" /\ The(m, q).pending = Len(Children[q])
    BY <2>2 DEF Branching
  <2>4. \A l \in Insertions : m.rec[j][l].parent # p
    BY <1>1, <2>1 DEF Branching
  <2>. QED BY <2>1, <2>3, <2>4 DEF The
<1>3. /\ Patient(e, Live(e, hs)) /\ Known(e, hs) /\ The(e, j).state = s /\ The(e, j).pending = n
      /\ \A k \in Jobs, i \in Insertions : e.rec[k][i].parent # <<j, e.held[j]>>
  <2>1. /\ Sound(m, X, open) /\ j \in Jobs /\ m.held[j] = 0 /\ Births(m, j) < MaxEnqueues
        /\ s \in {"waiting", "waiting-children"} /\ p \in Refs \cup {None} /\ n \in Nat
        /\ Known(m, hs) /\ Patient(m, Live(m, hs))
    BY <1>1
  <2>. QED BY ONLY <1>2, <2>1, InsertedPatient
<1>4. \A k \in Jobs : k # j =>
        e.held[k] = m.held[k] /\ \A l \in Insertions : e.rec[k][l] = m.rec[k][l]
  <2>1. /\ m \in Memory /\ InTurn(m) /\ j \in Jobs /\ Births(m, j) < MaxEnqueues
        /\ s \in {"waiting", "waiting-children"} /\ p \in Refs \cup {None} /\ n \in Nat
    BY <1>1
  <2>. QED BY ONLY <2>1, InsertedOthers
<1>. HIDE DEF e
<1>5. ASSUME NEW q \in S \cup {j}
      PROVE  /\ \A k \in Jobs, i \in Insertions : e.rec[k][i].parent = <<q, e.held[q]>> => k \in S \cup {j}
             /\ Len(Children[q]) > 0 =>
                  The(e, q).state = "waiting-children" /\ The(e, q).pending = Len(Children[q])
  <2>1. CASE q = j
    BY <1>3, <2>1
  <2>2. CASE q # j
    <3>1. q \in S /\ q \in Held(m) /\ e.held[q] = m.held[q]
      BY <1>1, <1>4, <1>5, <2>2
    <3>2. \A k \in Jobs, i \in Insertions : e.rec[k][i].parent = <<q, e.held[q]>> => k \in S \cup {j}
      BY <1>4, <3>1 DEF Branching
    <3>3. The(e, q) = The(m, q)
      <4>1. q \in Jobs /\ m.held[q] \in Insertions
        BY <1>1, <3>1, HeldFacts
      <4>. QED BY <1>4, <2>2, <3>1, <4>1 DEF The
    <3>. QED BY <3>1, <3>2, <3>3 DEF Branching
  <2>. QED BY <2>1, <2>2
<1>6. Branching(e, S \cup {j})
  BY <1>5 DEF Branching
<1>7. Awaits(e, hs) /\ \A M : Kids(e, M, <<j, e.held[j]>>) = {}
  BY <1>3 DEF Awaits, Kids
<1>. QED BY <1>6, <1>7 DEF e

(* A node without children is admitted at once.                             *)
LEMMA BranchingReleased ==
  ASSUME NEW m, NEW n, NEW S \in SUBSET Held(m), NEW j \in S, Branching(m, S), Released(m, n, j),
         ~(Len(Children[j]) > 0)
  PROVE  Branching(n, S)
<1>1. n.held = m.held /\ \A k \in Held(n) : k # j => Same(m, n, k)
  BY DEF Released
<1>2. \A k \in Jobs, i \in Insertions : n.rec[k][i].parent = m.rec[k][i].parent
  BY DEF Released, Onward
<1>3. S \subseteq Held(n)
  BY <1>1 DEF Held
<1>. QED BY <1>1, <1>2, <1>3 DEF Branching, Same

LEMMA BuiltAwaits ==
  ASSUME NEW K \in SUBSET Jobs, NEW f, Growing(f, K), NEW j \in K, OneOpen(phase),
         NEW hs, Awaits(f.mem, hs), Branching(f.mem, f.new)
  PROVE  Awaits(Built(f, j).mem, hs) /\ Branching(Built(f, j).mem, Built(f, j).new)
<1>. DEFINE m == f.mem
            S == f.new
            above == {p \in S : IsChild(j, p)}
            parent == IF above = {} THEN None
                      ELSE LET p == CHOOSE p \in above : TRUE IN <<p, m.held[p]>>
            n == Len(Children[j])
            open == transport = "open"
            e == IF n > 0 THEN Inserted(m, j, "waiting-children", parent, n)
                 ELSE Admitted(Inserted(m, j, "waiting", parent, 0), j)
<1>0. /\ f \in [mem : Memory, new : SUBSET Jobs, root : Jobs] /\ m \in Memory /\ InTurn(m)
      /\ Sound(m, {}, open) /\ Filled(m, phase, {}) /\ S \subseteq Held(m) /\ j \in Jobs
      /\ \A k \in K : m.held[k] # 0 \/ Births(m, k) < MaxEnqueues
  BY DEF Growing, Sound
<1>1. parent \in Refs \cup {None} /\ Under(m, S, j, parent)
  <2>1. CASE above = {}
    BY <2>1 DEF Under
  <2>2. CASE above # {}
    <3>1. PICK p \in above : parent = <<p, m.held[p]>>
      BY <2>2
    <3>. HIDE DEF parent
    <3>2. p \in Held(m) /\ p \in S /\ IsChild(j, p)
      BY <1>0, <3>1
    <3>3. parent \in Refs
      BY <1>0, <3>1, <3>2, HeldFacts DEF Refs, Insertions
    <3>. QED BY <3>1, <3>2, <3>3 DEF Under
  <2>. QED BY <2>1, <2>2
<1>2. n \in Nat
  BY <1>0, ConstantsAssumption
<1>3. CASE m.held[j] # 0 \/ (above = {} /\ j # f.root)
  <2>1. Built(f, j) = f
    BY <1>3 DEF Built
  <2>. QED BY <2>1
<1>4. CASE ~(m.held[j] # 0 \/ (above = {} /\ j # f.root))
  <2>1. Built(f, j) = [f EXCEPT !.new = S \cup {j}, !.mem = e]
    BY <1>4 DEF Built
  <2>2. m.held[j] = 0 /\ Births(m, j) < MaxEnqueues
    BY <1>0, <1>4
  <2>3. Awaits(e, hs) /\ Branching(e, S \cup {j})
    <3>1. Awaits(m, hs) /\ Branching(m, S) /\ S \in SUBSET Held(m)
      BY <1>0
    <3>2. n = Len(Children[j])
      OBVIOUS
    <3>. HIDE DEF parent, n, open, m, S
    <3>3. CASE n > 0
      <4>. DEFINE s == "waiting-children"
                  d == Inserted(m, j, s, parent, n)
      <4>1. s \in {"waiting", "waiting-children"} /\ s = IF n > 0 THEN "waiting-children" ELSE "waiting"
        BY <3>3
      <4>2. e = d
        BY <3>3
      <4>. HIDE DEF s, e
      <4>3. Awaits(d, hs) /\ Branching(d, S \cup {j})
        BY ONLY <1>0, <1>1, <1>2, <2>2, <3>1, <3>2, <4>1, GrownAwaits
      <4>. QED BY <4>2, <4>3
    <3>4. CASE ~(n > 0)
      <4>. DEFINE s == "waiting"
                  d == Inserted(m, j, s, parent, n)
      <4>1. /\ s \in {"waiting", "waiting-children"} /\ s = IF n > 0 THEN "waiting-children" ELSE "waiting"
            /\ (s = "waiting-children" => n > 0)
        BY <3>4
      <4>2. n = 0
        BY <1>2, <3>4
      <4>3. e = Admitted(d, j)
        BY <3>4, <4>2
      <4>4. (IF s = "waiting" THEN {j} ELSE {}) = {j}
        OBVIOUS
      <4>a. s = "waiting"
        OBVIOUS
      <4>. HIDE DEF s, e
      <4>5. /\ Awaits(d, hs) /\ Branching(d, S \cup {j})
            /\ \A M : Kids(d, M, <<j, d.held[j]>>) = {}
        BY ONLY <1>0, <1>1, <1>2, <2>2, <3>1, <3>2, <4>1, GrownAwaits
      <4>6. /\ Sound(d, {}, open) /\ Kept(m, d) /\ j \in Held(d) /\ The(d, j).state = s
            /\ Filled(d, phase, IF s = "waiting" THEN {j} ELSE {})
        BY ONLY <1>0, <1>1, <1>2, <2>2, <4>1, InsertedSound
      <4>. HIDE DEF d
      <4>7. Filled(d, phase, {j}) /\ {j} \in SUBSET {j} /\ The(d, j).state \in {"waiting", "waiting-children"}
        BY <4>4, <4>6, <4>1
      <4>8. Sound(e, {}, open) /\ Released(d, e, j)
        BY <4>3, <4>6, <4>7, AdmittedAsIs DEF open
      <4>9. Awaits(e, hs)
        BY <4>5, <4>6, <4>8, ReleasedAwaits
      <4>10. S \cup {j} \in SUBSET Held(d)
        BY <1>0, <4>6 DEF Kept, Held
      <4>11. Branching(e, S \cup {j})
        <5>. DEFINE T == S \cup {j}
        <5>1. j \in T /\ T \in SUBSET Held(d) /\ Branching(d, T) /\ ~(Len(Children[j]) > 0)
          BY <3>2, <3>4, <4>5, <4>10
        <5>. HIDE DEF T
        <5>2. Branching(e, T)
          BY <4>8, <5>1, BranchingReleased
        <5>. QED BY <5>2 DEF T
      <4>. QED BY <4>9, <4>11
    <3>. QED BY <3>3, <3>4
  <2>. HIDE DEF e, parent, n
  <2>4. Built(f, j).mem = e /\ Built(f, j).new = S \cup {j}
    BY <1>0, <2>1
  <2>. QED BY <2>3, <2>4
<1>. QED BY <1>3, <1>4

LEMMA FlowAwaits ==
  ASSUME NEW m, Sound(m, {}, transport = "open"), Filled(m, phase, {}), OneOpen(phase), NEW j \in Jobs,
         \A k \in ToSet(Preorder[j]) : m.held[k] # 0 \/ Births(m, k) < MaxEnqueues,
         NEW hs, Awaits(m, hs)
  PROVE  Awaits(FlowBuilt(m, j), hs)
<1>. DEFINE N == Len(Preorder[j])
            K == ToSet(Preorder[j])
            flow == Flows(m, j)
            Good(n) == Growing(flow[n], K) /\ Awaits(flow[n].mem, hs) /\ Branching(flow[n].mem, flow[n].new)
            bad == {n \in 0 .. N : ~Good(n)}
<1>1. /\ FlowBuilt(m, j) = flow[N].mem /\ N \in Nat
      /\ flow[0] = [mem |-> m, new |-> {}, root |-> j]
      /\ \A n \in 1 .. N : flow[n] = Built(flow[n - 1], Preorder[j][n])
  BY FlowsFacts
<1>2. K \in SUBSET Jobs /\ \A n \in 1 .. N : Preorder[j][n] \in K
  <2>1. Preorder[j] \in Seq(Jobs)
    BY FlowAssumption
  <2>2. DOMAIN Preorder[j] = 1 .. N /\ \A n \in 1 .. N : Preorder[j][n] \in Jobs
    BY <2>1
  <2>. QED BY <2>2 DEF ToSet
<1>3. m \in Memory
  BY DEF Sound
<1>. HIDE DEF flow, N, K
<1>4. Good(0)
  <2>1. flow[0].mem = m /\ flow[0].new = {} /\ flow[0] \in [mem : Memory, new : SUBSET Jobs, root : Jobs]
    BY <1>1, <1>3
  <2>2. \A k \in K : m.held[k] # 0 \/ Births(m, k) < MaxEnqueues
    BY DEF K
  <2>3. Branching(m, {})
    BY DEF Branching
  <2>. QED BY <2>1, <2>2, <2>3 DEF Growing
<1>5. ASSUME NEW n \in bad, \A l \in bad : n <= l PROVE FALSE
  <2>1. n \in 1 .. N /\ n - 1 \in 0 .. N /\ n - 1 \notin bad
    BY <1>1, <1>4, <1>5
  <2>2. Good(n - 1)
    BY <2>1
  <2>3. flow[n] = Built(flow[n - 1], Preorder[j][n]) /\ Preorder[j][n] \in K
    BY <1>1, <1>2, <2>1
  <2>4. Growing(flow[n], K)
    BY <1>2, <2>2, <2>3, BuiltFacts
  <2>5. Awaits(flow[n].mem, hs) /\ Branching(flow[n].mem, flow[n].new)
    BY <1>2, <2>2, <2>3, BuiltAwaits
  <2>. QED BY <1>5, <2>4, <2>5
<1>6. bad = {}
  <2>. SUFFICES ASSUME bad # {} PROVE FALSE
    OBVIOUS
  <2>1. bad \subseteq Nat
    BY <1>1
  <2>2. PICK k \in bad : \A l \in bad : k <= l
    BY <2>1, Least
  <2>. QED BY <1>5, <2>2
<1>7. Good(N)
  BY <1>1, <1>6
<1>. QED BY <1>1, <1>7

-----------------------------------------------------------------------------
(* The parents wait through every step.                                     *)
Grip(hd) == {hd[h] : h \in Handles}

WaitInv == TransportInv /\ Awaits(mem, Grip(handle))

LEMMA WaitFacts ==
  ASSUME TransportInv
  PROVE  /\ Sound(mem, {}, transport = "open") /\ Filled(mem, phase, {}) /\ OneOpen(phase)
         /\ mem \in Memory /\ Trying(mem) /\ InTurn(mem) /\ TypeOK
BY DEF TransportInv, Sound

(* What is left of a record that counted: it is live no more.               *)
LEMMA LessAwaits ==
  ASSUME NEW m, NEW X, NEW open, Sound(m, X, open), NEW n, NEW Y, NEW still, Sound(n, Y, still), Onward(m, n),
         NEW hs, Known(m, hs), NEW M, Patient(n, M), Live(m, hs) \subseteq M
  PROVE  Awaits(n, hs)
<1>1. Live(n, hs) \subseteq Live(m, hs) /\ Known(n, hs)
  BY LiveFewer, OnwardKnown
<1>2. Live(n, hs) \subseteq M
  BY <1>1
<1>3. Quiet(n, n)
  BY QuietSelf
<1>. QED BY <1>1, <1>2, <1>3, QuietPatient DEF Awaits

LEMMA EnqueueWaits ==
  ASSUME TransportInv, NEW hs, Awaits(mem, hs), NEW j \in Jobs, Enqueue(j)
  PROVE  Awaits(mem', hs)
<1>. DEFINE m == Inserted(mem, j, "waiting", None, 0)
            n == mem'
            open == transport = "open"
<1>0. Sound(mem, {}, open) /\ OneOpen(phase) /\ Filled(mem, phase, {})
  BY WaitFacts
<1>1. mem.held[j] = 0 /\ Births(mem, j) < MaxEnqueues /\ n = Admitted(m, j)
  BY DEF Enqueue
<1>2. /\ Sound(m, {}, open) /\ Filled(m, phase, IF "waiting" = "waiting" THEN {j} ELSE {})
      /\ j \in Held(m) /\ The(m, j).state = "waiting"
  <2>1. /\ 0 \in Nat /\ "waiting" \in {"waiting", "waiting-children"} /\ ("waiting" = "waiting-children" => 0 > 0)
        /\ None \in Refs \cup {None} /\ mem.held[j] = 0 /\ Births(mem, j) < MaxEnqueues
    BY <1>1
  <2>2. Sound(mem, {}, transport = "open") /\ Filled(mem, phase, {})
    BY <1>0
  <2>. HIDE DEF m, n
  <2>. QED BY <2>1, <2>2, InsertedSound DEF m
<1>3. Awaits(m, hs) /\ \A M : Kids(m, M, <<j, m.held[j]>>) = {}
  BY <1>0, <1>1, InsertedAwaits
<1>. HIDE DEF m, n
<1>4. Filled(m, phase, {j}) /\ {j} \in SUBSET {j}
  BY <1>2
<1>5. Sound(n, {}, open) /\ Released(m, n, j)
  BY <1>0, <1>1, <1>2, <1>4, AdmittedAsIs
<1>6. Awaits(n, hs)
  BY <1>2, <1>3, <1>5, ReleasedAwaits
<1>. QED BY <1>6 DEF n

LEMMA EnqueueFlowWaits ==
  ASSUME TransportInv, NEW hs, Awaits(mem, hs), NEW j \in Jobs, EnqueueFlow(j)
  PROVE  Awaits(mem', hs)
<1>1. /\ mem' = FlowBuilt(mem, j)
      /\ \A k \in ToSet(Preorder[j]) : mem.held[k] # 0 \/ Births(mem, k) < MaxEnqueues
  BY DEF EnqueueFlow
<1>2. Awaits(FlowBuilt(mem, j), hs)
  BY <1>1, WaitFacts, FlowAwaits
<1>. QED BY <1>1, <1>2

LEMMA TimerWaits ==
  ASSUME TransportInv, NEW hs, Awaits(mem, hs), NEW j \in Jobs, NEW i \in 1 .. MaxEnqueues, Timer(j, i)
  PROVE  Awaits(mem', hs)
<1>. DEFINE e == Fired(mem, j, i)
            n == mem'
            open == transport = "open"
<1>1. /\ Edited(mem, e, j, i) /\ i \in Insertions /\ mem.rec[j][i].state = "delayed" /\ Born(mem, j, i)
      /\ e.rec[j][i].state = "waiting" /\ e.rec[j][i].pending = mem.rec[j][i].pending
      /\ Sound(e, {}, open) /\ Filled(e, phase, {j}) /\ n = Pump(e, QueueOf[j])
  BY TimerFacts
<1>2. Sound(mem, {}, open) /\ OneOpen(phase) /\ QueueOf[j] \in Queues
  BY WaitFacts, ConstantsAssumption
<1>. HIDE DEF e, n
<1>3. Onward(mem, e) /\ \A k \in Held(e) : k # j \/ mem.held[j] # i => Same(mem, e, k)
  BY <1>1, <1>2, EditOnward
<1>4. mem.held[j] = i => Same(mem, e, j)
  BY <1>1 DEF Same, The, Edited
<1>5. Quiet(mem, e)
  BY <1>3, <1>4 DEF Quiet
<1>6. Awaits(e, hs)
  BY <1>2, <1>5, QuietAwaits
<1>7. Carried(e, n)
  BY <1>1, <1>2, PumpFacts DEF open
<1>8. Awaits(n, hs)
  BY <1>1, <1>6, <1>7, CarriedQuiet, QuietAwaits
<1>. QED BY <1>8 DEF n

LEMMA RetryWaits ==
  ASSUME TransportInv, NEW hs, Awaits(mem, hs), NEW a \in mem.attempts, Retry(a)
  PROVE  Awaits(mem', hs)
<1>. DEFINE b == Answered(a, FALSE, FALSE)
            n == mem'
<1>1. /\ n \in Memory /\ n.held = mem.held /\ n.attempts = (mem.attempts \ {a}) \cup {b}
      /\ b.phase = "callback" /\ ~b.ok /\ n.rec[a.job][a.inc].state = "delayed"
      /\ n.rec[a.job][a.inc].parent = mem.rec[a.job][a.inc].parent
      /\ n.rec[a.job][a.inc].pending = mem.rec[a.job][a.inc].pending
      /\ \A k \in Jobs, l \in Insertions : ~(k = a.job /\ l = a.inc) => n.rec[k][l] = mem.rec[k][l]
      /\ a.phase = "process"
  BY RetryFacts
<1>2. /\ a.job \in Jobs /\ a.inc \in Insertions /\ Ref(a) \in Refs /\ Ref(a) = <<a.job, a.inc>>
      /\ mem.rec[a.job][a.inc].state = "active"
  BY <1>1, EndFacts DEF Ref
<1>3. Sound(mem, {}, transport = "open")
  BY WaitFacts
<1>. HIDE DEF b, n
<1>4. Ref(a) \in Going(mem) /\ \A d \in mem.attempts : d.phase = "process" => Ref(d) \in Going(mem)
  BY <1>1, <1>2, <1>3, Referred DEF Going
<1>5. ASSUME NEW k \in Jobs, NEW l \in Insertions
      PROVE  /\ n.rec[k][l].parent = mem.rec[k][l].parent /\ (Born(n, k, l) <=> Born(mem, k, l))
             /\ n.rec[k][l].pending = mem.rec[k][l].pending
             /\ n.rec[k][l].state = "waiting-children" <=> mem.rec[k][l].state = "waiting-children"
             /\ mem.rec[k][l].state = "active" /\ n.rec[k][l].state # "active" => <<k, l>> \in Going(mem)
  <2>1. CASE k = a.job /\ l = a.inc
    BY <1>1, <1>2, <1>4, <2>1 DEF Born
  <2>2. CASE ~(k = a.job /\ l = a.inc)
    BY <1>1, <2>2 DEF Born
  <2>. QED BY <2>1, <2>2
<1>6. \A d \in n.attempts : (d.phase = "process" => Ref(d) \in Going(mem)) /\ (d.ok => d \in mem.attempts)
  BY <1>1, <1>4
<1>7. Onward(mem, n)
  BY <1>1, <1>5, <1>6 DEF Onward
<1>8. ASSUME NEW k \in Held(n) PROVE Same(mem, n, k)
  <2>1. k \in Jobs /\ n.held[k] = mem.held[k] /\ mem.held[k] \in Insertions
    BY <1>1, <1>3, Referred DEF Held
  <2>2. /\ n.rec[k][mem.held[k]].pending = mem.rec[k][mem.held[k]].pending
        /\ n.rec[k][mem.held[k]].state = "waiting-children" <=> mem.rec[k][mem.held[k]].state = "waiting-children"
    BY <1>5, <2>1
  <2>. QED BY <2>1, <2>2 DEF Same, The
<1>9. Awaits(n, hs)
  BY <1>3, <1>7, <1>8, QuietAwaits DEF Quiet
<1>. QED BY <1>9 DEF n

(* The end of a handler, its record gone from the map.                      *)
LEMMA EndedFacts ==
  ASSUME TransportInv, NEW a \in mem.attempts, a.phase = "process", NEW ok \in BOOLEAN, NEW done \in BOOLEAN
  PROVE  /\ Over(a, ok, done) \in Memory
         /\ Over(a, ok, done).attempts = (mem.attempts \ {a}) \cup {Answered(a, ok, done)}
         /\ Answered(a, ok, done).phase = "callback" /\ (Answered(a, ok, done).ok <=> ok)
         /\ Ref(Answered(a, ok, done)) = Ref(a) /\ Answered(a, ok, done).job = a.job /\ Answered(a, ok, done).inc = a.inc
         /\ \A k \in Jobs : Over(a, ok, done).held[k] = IF k = a.job THEN 0 ELSE mem.held[k]
         /\ \A k \in Jobs, l \in Insertions :
              /\ Over(a, ok, done).rec[k][l].state = mem.rec[k][l].state
              /\ Over(a, ok, done).rec[k][l].parent = mem.rec[k][l].parent
              /\ Over(a, ok, done).rec[k][l].pending = mem.rec[k][l].pending
         /\ Ref(a) \in Going(mem) /\ Ref(a) \notin Going(Over(a, ok, done))
         /\ Going(Over(a, ok, done)) \subseteq Going(mem)
<1>. DEFINE c == Called(mem, a, ok, done)
            b == Answered(a, ok, done)
            D == {a.job}
            e == Deleted(c, D)
<1>0. mem \in Memory /\ Sound(mem, {}, transport = "open")
  BY WaitFacts
<1>1. /\ a \in Attempt /\ a.job \in Jobs /\ a.inc \in Insertions /\ Ref(a) \in Refs /\ Ref(a) = <<a.job, a.inc>>
      /\ \A d \in mem.attempts : d # a /\ d.phase = "process" /\ d.job = a.job => d.inc # a.inc
  BY EndFacts DEF Ref
<1>2. /\ c \in Memory /\ c.held = mem.held /\ c.attempts = (mem.attempts \ {a}) \cup {b}
      /\ \A k \in Jobs, l \in Insertions : c.rec[k][l] = IF k = a.job /\ l = a.inc THEN Made(mem.rec[k][l]) ELSE mem.rec[k][l]
  BY <1>0, <1>1, CalledFacts
<1>3. /\ b.job = a.job /\ b.inc = a.inc /\ b.phase = "callback" /\ b.ok = ok
  BY <1>1, AnsweredFacts
<1>4. Over(a, ok, done) = e
  BY DEF Over
<1>. HIDE DEF c, b, D
<1>5. /\ e \in Memory /\ e.rec = c.rec /\ e.attempts = c.attempts
      /\ \A k \in Jobs : e.held[k] = IF k \in D THEN 0 ELSE c.held[k]
  BY <1>2, DeletedFacts
<1>. HIDE DEF e
<1>6. \A k \in Jobs, l \in Insertions :
        /\ e.rec[k][l].state = mem.rec[k][l].state /\ e.rec[k][l].parent = mem.rec[k][l].parent
        /\ e.rec[k][l].pending = mem.rec[k][l].pending
  <2>1. \A k \in Jobs, l \in Insertions : mem.rec[k][l] \in Record
    BY <1>0, MemFacts
  <2>. QED BY <1>2, <1>5, <2>1, MadeFacts
<1>7. \A k \in Jobs : e.held[k] = IF k = a.job THEN 0 ELSE mem.held[k]
  BY <1>2, <1>5 DEF D
<1>8. Ref(b) = Ref(a)
  BY <1>3 DEF Ref
<1>9. Ref(a) \in Going(mem)
  BY <1>1 DEF Going
<1>10. Ref(a) \notin Going(e)
  <2>1. e.held[a.job] # a.inc
    BY <1>1, <1>7 DEF Insertions
  <2>2. \A d \in e.attempts : d.phase = "process" => Ref(d) # Ref(a)
    BY <1>1, <1>2, <1>3, <1>5 DEF Ref
  <2>. QED BY <1>1, <2>1, <2>2 DEF Going
<1>11. Going(e) \subseteq Going(mem)
  <2>. SUFFICES ASSUME NEW r \in Going(e) PROVE r \in Going(mem)
    OBVIOUS
  <2>1. r \in Refs /\ r[1] \in Jobs /\ r[2] # 0
    BY DEF Going, Refs
  <2>2. CASE e.held[r[1]] = r[2]
    BY <1>7, <2>1, <2>2 DEF Going
  <2>3. CASE \E d \in e.attempts : Ref(d) = r /\ d.phase = "process"
    BY <1>2, <1>3, <1>5, <2>1, <2>3 DEF Going
  <2>. QED BY <2>2, <2>3 DEF Going
<1>12. b.ok <=> ok
  BY <1>3
<1>. QED BY <1>2, <1>3, <1>4, <1>5, <1>6, <1>7, <1>8, <1>9, <1>10, <1>11, <1>12 DEF b

LEMMA SucceedWaits ==
  ASSUME TransportInv, NEW hs, Awaits(mem, hs), NEW a \in mem.attempts, Succeed(a)
  PROVE  Awaits(mem', hs)
<1>. DEFINE ok == TRUE
            e == Over(a, ok, ok)
            b == Answered(a, ok, ok)
            r == Ref(a)
            n == mem'
            L == Live(mem, hs)
<1>1. a.phase = "process" /\ n = e /\ ok \in BOOLEAN
  BY DEF Succeed, Over
<1>. HIDE DEF ok, n, b
<1>2. /\ e \in Memory /\ e.attempts = (mem.attempts \ {a}) \cup {b} /\ b.phase = "callback"
      /\ Ref(b) = r /\ b.job = a.job /\ b.inc = a.inc
      /\ \A k \in Jobs : e.held[k] = IF k = a.job THEN 0 ELSE mem.held[k]
      /\ \A k \in Jobs, l \in Insertions :
           /\ e.rec[k][l].state = mem.rec[k][l].state /\ e.rec[k][l].parent = mem.rec[k][l].parent
           /\ e.rec[k][l].pending = mem.rec[k][l].pending
      /\ r \in Going(mem) /\ r \notin Going(e) /\ Going(e) \subseteq Going(mem)
  BY <1>1, EndedFacts DEF b
<1>3. a.job \in Jobs /\ a.inc \in Insertions /\ mem.rec[a.job][a.inc].state = "active"
  BY <1>1, EndFacts
<1>4. /\ Known(mem, hs) /\ Lineage(mem) /\ Completing(mem) /\ mem \in Memory /\ Sound(mem, {}, transport = "open")
      /\ \A j \in Held(mem) : Waits(mem, L, <<j, mem.held[j]>>)
  BY WaitFacts DEF Awaits, Patient
<1>. HIDE DEF e, b, r, L
<1>5. \A k \in Jobs, l \in Insertions : Born(e, k, l) <=> Born(mem, k, l)
  BY <1>2 DEF Born
<1>6. Lineage(e)
  <2>. SUFFICES ASSUME NEW k \in Jobs, NEW i \in Insertions, e.rec[k][i].parent # None
                PROVE  /\ Born(e, e.rec[k][i].parent[1], e.rec[k][i].parent[2]) /\ IsChild(k, e.rec[k][i].parent[1])
                       /\ \A l \in Insertions : e.rec[k][l].parent = e.rec[k][i].parent => l = i
    BY DEF Lineage
  <2>. DEFINE p == mem.rec[k][i].parent
  <2>1. e.rec[k][i].parent = p /\ p # None /\ \A l \in Insertions : e.rec[k][l].parent = mem.rec[k][l].parent
    BY <1>2
  <2>2. p \in Refs
    BY <1>4, <2>1, MemFacts, RecordFacts
  <2>3. Born(mem, p[1], p[2]) /\ IsChild(k, p[1]) /\ \A l \in Insertions : mem.rec[k][l].parent = p => l = i
    BY <1>4, <2>1 DEF Lineage
  <2>4. Born(e, p[1], p[2])
    BY <1>5, <2>2, <2>3 DEF Refs, Insertions
  <2>. QED BY <2>1, <2>3, <2>4
<1>7. \A c \in mem.attempts : c.ok => Ref(c) # r
  BY <1>2, <1>4 DEF Completing
<1>8. Completing(e)
  <2>. SUFFICES ASSUME NEW c \in e.attempts, c.ok
                PROVE  /\ c.phase = "callback" /\ Ref(c) \notin Going(e) /\ e.rec[c.job][c.inc].state = "active"
                       /\ \A d \in e.attempts : d.ok /\ Ref(d) = Ref(c) => c = d
    BY DEF Completing
  <2>1. CASE c = b
    <3>1. e.rec[c.job][c.inc].state = "active"
      BY <1>2, <1>3, <2>1
    <3>2. \A d \in e.attempts : d.ok /\ Ref(d) = Ref(c) => c = d
      BY <1>2, <1>7, <2>1
    <3>. QED BY <1>2, <2>1, <3>1, <3>2
  <2>2. CASE c # b
    <3>1. c \in mem.attempts
      BY <1>2, <2>2
    <3>2. /\ c.phase = "callback" /\ Ref(c) \notin Going(mem) /\ mem.rec[c.job][c.inc].state = "active"
          /\ \A d \in mem.attempts : d.ok /\ Ref(d) = Ref(c) => c = d
      BY <1>4, <3>1 DEF Completing
    <3>3. c.job \in Jobs /\ c.inc \in Insertions
      BY <1>4, <3>1, Referred
    <3>4. e.rec[c.job][c.inc].state = "active"
      BY <1>2, <3>2, <3>3
    <3>5. \A d \in e.attempts : d.ok /\ Ref(d) = Ref(c) => c = d
      BY <1>2, <1>7, <3>1, <3>2
    <3>. QED BY <1>2, <3>2, <3>4, <3>5
  <2>. QED BY <2>1, <2>2
<1>9. Live(e, hs) \subseteq L
  <2>. SUFFICES ASSUME NEW t \in Live(e, hs) PROVE t \in L
    OBVIOUS
  <2>1. CASE t \in Going(e)
    BY <1>2, <2>1 DEF Live, L
  <2>2. CASE \E c \in e.attempts : c.ok /\ t = Ref(c)
    BY <1>2, <2>2 DEF Live, L
  <2>3. CASE t \in Refs \cap hs /\ e.rec[t[1]][t[2]].state # "active"
    <3>1. t[1] \in Jobs /\ t[2] \in Insertions
      BY <2>3 DEF Refs, Insertions
    <3>. QED BY <1>2, <2>3, <3>1 DEF Live, L
  <2>. QED BY <2>1, <2>2, <2>3 DEF Live
<1>10. Known(e, hs)
  BY <1>4, <1>5 DEF Known, Refs, Insertions
<1>11. ASSUME NEW j \in Held(e) PROVE Waits(e, Live(e, hs), <<j, e.held[j]>>)
  <2>1. j \in Held(mem) /\ e.held[j] = mem.held[j]
    BY <1>2 DEF Held
  <2>. DEFINE p == <<j, mem.held[j]>>
              M == Live(e, hs)
  <2>2. p \in Refs /\ Waits(mem, L, p) /\ M \subseteq L
    BY <1>4, <1>9, <2>1, Referred
  <2>. HIDE DEF p, M
  <2>3. p[1] \in Jobs /\ p[2] \in Insertions
    BY <2>2 DEF Refs, Insertions
  <2>5. /\ e.rec[p[1]][p[2]].state = "waiting-children" <=> mem.rec[p[1]][p[2]].state = "waiting-children"
        /\ e.rec[p[1]][p[2]].pending = mem.rec[p[1]][p[2]].pending
        /\ \A k \in Jobs, i \in Insertions : e.rec[k][i].parent = mem.rec[k][i].parent
    BY <1>2, <2>3
  <2>6. e \in Memory /\ mem \in Memory
    BY <1>2, <1>4
  <2>4. Waits(e, M, p)
    BY <2>2, <2>5, <2>6, WaitsFewer
  <2>. QED BY <2>1, <2>4 DEF p, M
<1>12. Awaits(e, hs)
  BY <1>6, <1>8, <1>10, <1>11 DEF Awaits, Patient
<1>. QED BY <1>1, <1>12 DEF n

LEMMA FailWaits ==
  ASSUME TransportInv, NEW hs, Awaits(mem, hs), NEW a \in mem.attempts, Fail(a)
  PROVE  Awaits(mem', hs)
<1>. DEFINE ok == FALSE
            done == TRUE
            e == Over(a, ok, done)
            r == Ref(a)
            n == mem'
            L == Live(mem, hs)
<1>1. a.phase = "process" /\ n = Settled(e, r) /\ ok \in BOOLEAN /\ done \in BOOLEAN /\ ~ok
  BY DEF Fail, Over
<1>2. Sound(n, {}, transport = "open")
  <2>1. TransportInv' /\ transport' = transport
    BY FailInv DEF Fail
  <2>. QED BY <2>1 DEF TransportInv
<1>. HIDE DEF ok, done, n
<1>3. Sound(e, {}, transport = "open") /\ Filled(e, phase, {})
  BY <1>1, DoneSound
<1>4. /\ Sound(mem, {}, transport = "open") /\ OneOpen(phase) /\ mem \in Memory
      /\ Known(mem, hs) /\ Patient(mem, L) /\ Completing(mem)
  BY WaitFacts DEF Awaits, Patient
<1>. DEFINE b == Answered(a, ok, done)
<1>5. /\ e \in Memory /\ e.attempts = (mem.attempts \ {a}) \cup {b} /\ b.phase = "callback" /\ ~b.ok
      /\ \A k \in Jobs : e.held[k] = IF k = a.job THEN 0 ELSE mem.held[k]
      /\ \A k \in Jobs, l \in Insertions :
           /\ e.rec[k][l].state = mem.rec[k][l].state /\ e.rec[k][l].parent = mem.rec[k][l].parent
           /\ e.rec[k][l].pending = mem.rec[k][l].pending
      /\ r \in Going(mem) /\ r \notin Going(e) /\ Going(e) \subseteq Going(mem)
  BY <1>1, EndedFacts
<1>6. r \in Refs /\ r = <<a.job, a.inc>> /\ mem.rec[a.job][a.inc].state = "active" /\ a.job \in Jobs /\ a.inc \in Insertions
  BY <1>1, EndFacts DEF Ref
<1>. HIDE DEF e, b, r, L
<1>7. Quiet(mem, e)
  <2>1. \A d \in e.attempts : (d.phase = "process" => Ref(d) \in Going(mem)) /\ (d.ok => d \in mem.attempts)
    <3>1. \A d \in mem.attempts : d.phase = "process" => Ref(d) \in Going(mem)
      BY <1>4, Referred DEF Going
    <3>. QED BY <1>5, <3>1
  <2>2. Onward(mem, e)
    BY <1>5, <2>1 DEF Onward, Born
  <2>3. ASSUME NEW k \in Held(e) PROVE Same(mem, e, k)
    <3>1. k \in Held(mem) /\ e.held[k] = mem.held[k]
      BY <1>5 DEF Held
    <3>2. k \in Jobs /\ mem.held[k] \in Insertions
      BY <1>4, <3>1, Referred
    <3>. QED BY <1>5, <3>1, <3>2 DEF Same, The
  <2>. QED BY <2>2, <2>3 DEF Quiet
<1>8. Patient(e, L) /\ r \in L
  BY <1>4, <1>5, <1>7, QuietPatient DEF L, Live
<1>9. Patient(n, L \ {r}) /\ Onward(e, n)
  BY <1>1, <1>3, <1>4, <1>6, <1>8, SettledPatient
<1>10. Live(e, hs) \subseteq L \ {r}
  <2>1. Live(e, hs) \subseteq L
    BY <1>4, <1>7, LiveFewer DEF L, Quiet
  <2>2. ASSUME r \in Live(e, hs) PROVE FALSE
    <3>1. CASE \E c \in e.attempts : c.ok /\ r = Ref(c)
      BY <1>4, <1>5, <3>1 DEF Completing
    <3>2. CASE e.rec[r[1]][r[2]].state # "active"
      BY <1>5, <1>6, <3>2
    <3>. QED BY <1>5, <2>2, <3>1, <3>2 DEF Live
  <2>. QED BY <2>1, <2>2
<1>11. Known(e, hs)
  BY <1>4, <1>7, OnwardKnown DEF Quiet
<1>12. Awaits(n, hs)
  BY <1>2, <1>3, <1>9, <1>10, <1>11, LessAwaits
<1>. QED BY <1>12 DEF n

LEMMA ReturnWaits ==
  ASSUME TransportInv, NEW hs, Awaits(mem, hs), NEW a \in mem.attempts, Return(a)
  PROVE  Awaits(mem', hs)
<1>. DEFINE m == Left(a)
            c == a.cons
            r == Ref(a)
            p == m.rec[a.job][a.inc].parent
            n == IF a.ok THEN Counted(m, p) ELSE m
            f == Freed(n, c)
            o == mem'
            L == Live(mem, hs)
<1>1. a.phase = "callback" /\ o = Pump(f, ServedBy[c])
  BY DEF Return, Left, Freed
<1>2. /\ Sound(m, {c}, transport = "open") /\ Filled(m, phase, {})
      /\ c \in Consumers /\ a.job \in Jobs /\ a.inc \in Insertions /\ r \in Refs
      /\ m.rec = mem.rec /\ m.held = mem.held /\ m.attempts = mem.attempts \ {a}
      /\ p \in Refs \cup {None} /\ r = <<a.job, a.inc>>
  BY <1>1, LeftFacts DEF Ref
<1>3. /\ Sound(mem, {}, transport = "open") /\ OneOpen(phase) /\ mem \in Memory /\ InTurn(mem)
      /\ Known(mem, hs) /\ Patient(mem, L) /\ Completing(mem)
  BY WaitFacts DEF Awaits, Patient
<1>. HIDE DEF m, r, L, o, c
<1>4. Quiet(mem, m)
  <2>1. \A d \in m.attempts : (d.phase = "process" => Ref(d) \in Going(mem)) /\ (d.ok => d \in mem.attempts)
    <3>1. \A d \in mem.attempts : d.phase = "process" => Ref(d) \in Going(mem)
      BY <1>3, Referred DEF Going
    <3>. QED BY <1>2, <3>1
  <2>2. m \in Memory
    BY <1>2 DEF Sound
  <2>3. Onward(mem, m)
    BY <1>2, <2>1, <2>2 DEF Onward, Born
  <2>. QED BY <1>2, <2>3 DEF Quiet, Same, The
<1>5. Awaits(m, hs)
  BY <1>3, <1>4, QuietAwaits
<1>6. Sound(n, {c}, transport = "open") /\ Filled(n, phase, {}) /\ Awaits(n, hs)
  <2>1. CASE a.ok
    <3>1. n = Counted(m, p)
      BY <2>1
    <3>2. r \in L /\ r \notin Going(mem) /\ mem.rec[a.job][a.inc].state = "active"
          /\ \A d \in mem.attempts : d.ok /\ Ref(d) = r => a = d
      BY <1>3, <2>1 DEF L, Live, Completing, r
    <3>3. p = m.rec[r[1]][r[2]].parent
      BY <1>2
    <3>. HIDE DEF n, p
    <3>4. Sound(n, {c}, transport = "open") /\ Filled(n, phase, {})
      BY <1>2, <1>3, <3>1, CountedFacts
    <3>5. Patient(m, L)
      BY <1>3, <1>4, QuietPatient
    <3>6. Patient(n, L \ {r}) /\ Onward(m, n)
      BY <1>2, <1>3, <3>1, <3>2, <3>3, <3>5, CountedPatient
    <3>7. Live(m, hs) \subseteq L \ {r}
      <4>1. Live(m, hs) \subseteq L /\ Going(m) \subseteq Going(mem)
        BY <1>3, <1>4, LiveFewer, GoingFewer DEF L, Quiet
      <4>2. ASSUME r \in Live(m, hs) PROVE FALSE
        <5>1. CASE \E d \in m.attempts : d.ok /\ r = Ref(d)
          BY <1>2, <3>2, <5>1
        <5>2. CASE m.rec[r[1]][r[2]].state # "active"
          BY <1>2, <3>2, <5>2
        <5>. QED BY <3>2, <4>1, <4>2, <5>1, <5>2 DEF Live
      <4>. QED BY <4>1, <4>2
    <3>8. Awaits(n, hs)
      BY <1>2, <1>5, <3>4, <3>6, <3>7, LessAwaits DEF Awaits
    <3>. QED BY <3>4, <3>8
  <2>2. CASE ~a.ok
    <3>1. n = m
      BY <2>2
    <3>. QED BY <1>2, <1>5, <3>1
  <2>. QED BY <2>1, <2>2
<1>. HIDE DEF n, p
<1>. DEFINE J == {j \in Jobs : QueueOf[j] = ServedBy[c]}
<1>7. Sound(f, {}, transport = "open") /\ Filled(f, phase, J) /\ Alike(n, f) /\ f.attempts = n.attempts /\ f.rec = n.rec
  <2>. DEFINE open == transport = "open"
  <2>1. c \in Consumers /\ Sound(n, {c}, open) /\ OneOpen(phase) /\ Filled(n, phase, {})
    BY <1>2, <1>3, <1>6
  <2>2. f = Freed(n, c) /\ J = {j \in Jobs : QueueOf[j] = ServedBy[c]}
    OBVIOUS
  <2>. HIDE DEF f, J, open
  <2>3. Sound(f, {}, open) /\ Filled(f, phase, J) /\ Alike(n, f) /\ f.attempts = n.attempts /\ f.rec = n.rec
    BY <2>1, <2>2, FreedSound
  <2>. QED BY <2>3 DEF open
<1>. HIDE DEF f
<1>8. Quiet(n, f)
  <2>1. Quiet(n, n) /\ f \in Memory /\ f.held = n.held
    BY <1>6, <1>7, QuietSelf DEF Alike
  <2>2. Onward(n, f)
    BY <1>7, <2>1 DEF Quiet, Onward, Born
  <2>. QED BY <1>7, <2>1, <2>2 DEF Quiet, Same, The
<1>9. Awaits(f, hs)
  BY <1>6, <1>8, QuietAwaits
<1>10. J \in SUBSET Jobs /\ ServedBy[c] \in Queues /\ \A j \in J : QueueOf[j] = ServedBy[c]
  BY <1>2, ConstantsAssumption
<1>. HIDE DEF J
<1>11. Carried(f, o)
  BY <1>1, <1>3, <1>7, <1>10, PumpFacts
<1>12. Awaits(o, hs)
  BY <1>7, <1>9, <1>11, CarriedQuiet, QuietAwaits
<1>. QED BY <1>12 DEF o

(* A new handle: the record is in the map.                                  *)
LEMMA GetJobWaits ==
  ASSUME WaitInv, NEW h \in Handles, NEW j \in Jobs, GetJob(h, j)
  PROVE  Awaits(mem', Grip(handle'))
<1>. DEFINE r == <<j, mem.held[j]>>
            G == Grip(handle)
            H == Grip(handle')
<1>1. /\ mem' = mem /\ mem.held[j] # 0 /\ handle' = [handle EXCEPT ![h] = r]
      /\ Sound(mem, {}, transport = "open") /\ mem \in Memory /\ InTurn(mem)
      /\ Known(mem, G) /\ Patient(mem, Live(mem, G))
  BY WaitFacts DEF GetJob, WaitInv, Awaits
<1>2. j \in Held(mem) /\ r \in Refs /\ r \in Going(mem) /\ Born(mem, r[1], r[2])
  <2>1. j \in Held(mem)
    BY <1>1 DEF Held
  <2>. QED BY <1>1, <2>1, Referred, HeldFacts
<1>. HIDE DEF r
<1>3. H \subseteq G \cup {r}
  <2>1. handle \in [Handles -> Refs \cup {None}]
    BY WaitFacts DEF WaitInv, TypeOK
  <2>. QED BY <1>1, <2>1 DEF Grip
<1>. HIDE DEF G, H
<1>4. Known(mem, H)
  BY <1>1, <1>2, <1>3 DEF Known
<1>5. Live(mem, H) \subseteq Live(mem, G)
  BY <1>2, <1>3 DEF Live
<1>6. Quiet(mem, mem)
  BY <1>1, QuietSelf
<1>7. Patient(mem, Live(mem, H))
  BY <1>1, <1>5, <1>6, QuietPatient
<1>8. Awaits(mem, H)
  BY <1>4, <1>7 DEF Awaits
<1>. QED BY <1>1, <1>8 DEF H

(* The handle that removes is the only one: its record is live no more.      *)
LEMMA RemoveJobWaits ==
  ASSUME WaitInv, \A g, h \in Handles : g = h, NEW h \in Handles, RemoveJob(h)
  PROVE  Awaits(mem', Grip(handle'))
<1>. DEFINE r == handle[h]
            G == Grip(handle)
            H == Grip(handle')
            L == Live(mem, G)
            n == mem'
            d == Dropped(r)
            p == mem.rec[r[1]][r[2]].parent
<1>1. /\ TransportInv /\ Sound(mem, {}, transport = "open") /\ mem \in Memory /\ Trying(mem) /\ OneOpen(phase)
      /\ Known(mem, G) /\ Patient(mem, L) /\ Completing(mem) /\ TypeOK
  BY WaitFacts DEF WaitInv, Awaits, Patient
<1>2. Sound(n, {}, transport = "open")
  <2>1. TransportInv' /\ transport' = transport
    BY <1>1, RemoveJobInv DEF RemoveJob
  <2>. QED BY <2>1 DEF TransportInv
<1>3. r \in Refs /\ r \in G /\ handle' = [handle EXCEPT ![h] = None] /\ handle \in [Handles -> Refs \cup {None}]
  BY <1>1 DEF RemoveJob, TypeOK, Grip
<1>4. H \subseteq {None}
  BY <1>3 DEF Grip
<1>5. Refs \cap H = {}
  BY <1>4 DEF Refs, None
<1>6. Known(mem, H)
  BY <1>5 DEF Known
<1>7. CASE mem.rec[r[1]][r[2]].state = "active"
  <2>1. n = mem
    BY <1>7 DEF RemoveJob
  <2>. HIDE DEF H, G, n
  <2>2. Live(mem, H) \subseteq L
    BY <1>5 DEF Live
  <2>3. Quiet(mem, mem)
    BY <1>1, QuietSelf
  <2>4. Patient(mem, Live(mem, H))
    BY <1>1, <2>2, <2>3, QuietPatient
  <2>. QED BY <1>6, <2>1, <2>4 DEF Awaits, H, n
<1>8. CASE mem.rec[r[1]][r[2]].state # "active"
  <2>1. n = Counted(d, p)
    BY <1>8 DEF RemoveJob, Removed, Dropped, Untimed
  <2>2. r[1] \in Jobs /\ r[2] \in Insertions /\ r = <<r[1], r[2]>> /\ r[2] # 0
    BY <1>3 DEF Refs, Insertions
  <2>. HIDE DEF r, n
  <2>3. /\ Sound(d, {}, transport = "open") /\ Filled(d, phase, {})
        /\ d.attempts = mem.attempts
        /\ \A k \in Jobs : d.held[k] = IF k = r[1] THEN 0 ELSE mem.held[k]
        /\ \A k \in Jobs, l \in Insertions :
             /\ d.rec[k][l].state = mem.rec[k][l].state /\ d.rec[k][l].parent = mem.rec[k][l].parent
             /\ d.rec[k][l].pending = mem.rec[k][l].pending
    BY <1>1, <1>3, DroppedFacts
  <2>. HIDE DEF d, p, G, H, L
  <2>4. Quiet(mem, d)
    <3>1. \A a \in d.attempts : (a.phase = "process" => Ref(a) \in Going(mem)) /\ (a.ok => a \in mem.attempts)
      BY <1>1, <2>3, Referred DEF Going
    <3>2. d \in Memory
      BY <2>3 DEF Sound
    <3>3. Onward(mem, d)
      BY <2>3, <3>1, <3>2 DEF Onward, Born
    <3>4. ASSUME NEW k \in Held(d) PROVE Same(mem, d, k)
      <4>1. k \in Held(mem) /\ d.held[k] = mem.held[k]
        BY <2>3 DEF Held
      <4>2. k \in Jobs /\ mem.held[k] \in Insertions
        BY <1>1, <4>1, Referred
      <4>. QED BY <2>3, <4>1, <4>2 DEF Same, The
    <3>. QED BY <3>3, <3>4 DEF Quiet
  <2>5. Patient(d, L) /\ p = d.rec[r[1]][r[2]].parent
    BY <1>1, <2>2, <2>3, <2>4, QuietPatient DEF p
  <2>6. r \in L
    BY <1>3, <1>8 DEF L, Live
  <2>7. Patient(n, L \ {r}) /\ Onward(d, n)
    BY <1>1, <1>3, <2>1, <2>3, <2>5, <2>6, CountedPatient
  <2>8. r \notin Going(d)
    <3>1. d.held[r[1]] # r[2]
      BY <2>2, <2>3
    <3>2. ASSUME NEW a \in mem.attempts, a.phase = "process", Ref(a) = r PROVE FALSE
      <4>1. r = <<a.job, a.inc>> /\ Tries(mem, a)
        BY <1>1, <3>2 DEF Trying, Ref
      <4>. QED BY <1>8, <3>2, <4>1 DEF Tries
    <3>. QED BY <2>3, <3>1, <3>2 DEF Going
  <2>9. \A a \in mem.attempts : a.ok => Ref(a) # r
    BY <1>1, <1>8 DEF Completing, Ref
  <2>10. Live(d, H) \subseteq L \ {r}
    <3>1. Going(d) \subseteq Going(mem)
      BY <2>4, GoingFewer DEF Quiet
    <3>. QED BY <1>5, <2>3, <2>8, <2>9, <3>1 DEF Live, L
  <2>11. Known(d, H)
    BY <1>5 DEF Known
  <2>12. Awaits(n, H)
    BY <1>2, <2>3, <2>7, <2>10, <2>11, LessAwaits DEF n
  <2>. QED BY <2>12 DEF n, H
<1>. QED BY <1>7, <1>8

LEMMA ConsumeWaits ==
  ASSUME TransportInv, NEW hs, Awaits(mem, hs), NEW c \in Consumers, Consume(c)
  PROVE  Awaits(mem', hs)
<1>. DEFINE n == mem'
<1>1. Sound(mem, {}, transport = "open") /\ Carried(mem, n)
  BY WaitFacts, ConsumeFacts
<1>. HIDE DEF n
<1>2. Awaits(n, hs)
  BY <1>1, CarriedQuiet, QuietAwaits
<1>. QED BY <1>2 DEF n

LEMMA CloseTransportWaits ==
  ASSUME TransportInv, NEW hs, Awaits(mem, hs), CloseTransport
  PROVE  Awaits(mem', hs)
<1>. DEFINE n == mem'
<1>1. /\ n \in Memory /\ n.held = mem.held /\ n.attempts = mem.attempts
      /\ \A j \in Jobs, i \in Insertions :
           /\ n.rec[j][i].state = mem.rec[j][i].state /\ n.rec[j][i].parent = mem.rec[j][i].parent
           /\ n.rec[j][i].pending = mem.rec[j][i].pending
  BY StoppedFacts
<1>2. Sound(mem, {}, transport = "open")
  BY WaitFacts
<1>. HIDE DEF n
<1>3. Onward(mem, n)
  <2>1. Quiet(mem, mem)
    BY <1>2, QuietSelf
  <2>. QED BY <1>1, <2>1 DEF Quiet, Onward, Born
<1>4. ASSUME NEW k \in Held(n) PROVE Same(mem, n, k)
  <2>1. k \in Jobs /\ n.held[k] = mem.held[k] /\ mem.held[k] \in Insertions
    BY <1>1, <1>2, Referred DEF Held
  <2>. QED BY <1>1, <2>1 DEF Same, The
<1>5. Awaits(n, hs)
  BY <1>2, <1>3, <1>4, QuietAwaits DEF Quiet
<1>. QED BY <1>5 DEF n

LEMMA TransportClosedWaits ==
  ASSUME TransportInv, NEW hs, Awaits(mem, hs), TransportClosed
  PROVE  Awaits(mem', hs)
<1>1. Sound(mem, {}, transport = "open") /\ mem' = Deleted(mem, Jobs)
  BY WaitFacts DEF TransportClosed
<1>2. Awaits(Deleted(mem, Jobs), hs)
  BY <1>1, DeletedQuiet, QuietAwaits
<1>. QED BY <1>1, <1>2

LEMMA InitWaits == Init => WaitInv
<1>. SUFFICES ASSUME Init PROVE WaitInv
  OBVIOUS
<1>1. TransportInv
  BY InitInv
<1>2. /\ mem.attempts = {} /\ \A j \in Jobs : mem.held[j] = 0
      /\ \A j \in Jobs, i \in Insertions : mem.rec[j][i].parent = None
      /\ handle = [h \in Handles |-> None]
  BY DEF Init, Unborn, Insertions
<1>3. Lineage(mem) /\ Completing(mem) /\ Held(mem) = {}
  BY <1>2 DEF Lineage, Completing, Held
<1>4. Refs \cap Grip(handle) = {}
  <2>1. Grip(handle) \subseteq {None}
    BY <1>2 DEF Grip
  <2>. QED BY <2>1 DEF Refs, None
<1>. QED BY <1>1, <1>3, <1>4 DEF WaitInv, Awaits, Known, Patient

LEMMA StepWaits == ASSUME \A g, h \in Handles : g = h PROVE WaitInv /\ [Next]_vars => WaitInv'
<1>. SUFFICES ASSUME WaitInv, [Next]_vars PROVE WaitInv'
  OBVIOUS
<1>. DEFINE hs == Grip(handle)
<1>0. TransportInv /\ TransportInv' /\ Awaits(mem, hs)
  BY StepInv DEF WaitInv
<1>. HIDE DEF hs
<1>1. ASSUME handle' = handle, Awaits(mem', hs) PROVE WaitInv'
  <2>1. Awaits(mem', Grip(handle'))
    BY <1>1 DEF hs
  <2>. QED BY <1>0, <2>1 DEF WaitInv
<1>2. ASSUME NEW j \in Jobs, Enqueue(j) \/ EnqueueFlow(j) PROVE WaitInv'
  BY <1>0, <1>1, <1>2, EnqueueWaits, EnqueueFlowWaits DEF Enqueue, EnqueueFlow
<1>3. ASSUME NEW j \in Jobs, NEW i \in 1 .. MaxEnqueues, Timer(j, i) PROVE WaitInv'
  BY <1>0, <1>1, <1>3, TimerWaits DEF Timer
<1>4. ASSUME NEW a \in mem.attempts, Advance(a) PROVE WaitInv'
  <2>1. handle' = handle
    BY <1>4 DEF Advance, Succeed, Retry, Fail, Return
  <2>2. Awaits(mem', hs)
    BY <1>0, <1>4, SucceedWaits, RetryWaits, FailWaits, ReturnWaits DEF Advance
  <2>. QED BY <1>1, <2>1, <2>2
<1>5. ASSUME NEW h \in Handles, RemoveJob(h) \/ \E j \in Jobs : GetJob(h, j) PROVE WaitInv'
  <2>1. Awaits(mem', Grip(handle'))
    BY <1>0, <1>5, RemoveJobWaits, GetJobWaits
  <2>. QED BY <1>0, <2>1 DEF WaitInv
<1>6. ASSUME NEW c \in Consumers, Consume(c) \/ CloseConsumer(c) \/ ConsumerClosed(c) PROVE WaitInv'
  <2>1. handle' = handle
    BY <1>6 DEF Consume, CloseConsumer, ConsumerClosed
  <2>2. CASE Consume(c)
    BY <1>0, <1>1, <2>1, <2>2, ConsumeWaits
  <2>3. CASE CloseConsumer(c) \/ ConsumerClosed(c)
    <3>1. mem' = mem
      BY <2>3 DEF CloseConsumer, ConsumerClosed
    <3>. QED BY <1>0, <1>1, <2>1, <3>1
  <2>. QED BY <1>6, <2>2, <2>3
<1>7. CASE CloseTransport
  BY <1>0, <1>1, <1>7, CloseTransportWaits DEF CloseTransport
<1>8. CASE TransportClosed
  BY <1>0, <1>1, <1>8, TransportClosedWaits DEF TransportClosed
<1>9. CASE UNCHANGED vars
  BY <1>0, <1>1, <1>9 DEF vars
<1>. QED BY <1>2, <1>3, <1>4, <1>5, <1>6, <1>7, <1>8, <1>9 DEF Next

(* "A parent runs after all of its children complete": while a child may    *)
(* still be tried, or its completion is being reported, its parent waits, as *)
(* long as clients hold no more than one handle at a time.                  *)
THEOREM ParentWaitsCorrect ==
  ASSUME \A g, h \in Handles : g = h
  PROVE  Spec => []ParentWaits
<1>1. ASSUME WaitInv PROVE ParentWaits
  <2>. SUFFICES ASSUME NEW j \in Held(mem), NEW k \in Jobs, NEW i \in Insertions,
                       mem.rec[k][i].parent = <<j, mem.held[j]>>,
                       \/ mem.held[k] = i
                       \/ \E a \in mem.attempts : Ref(a) = <<k, i>> /\ a.phase = "callback" /\ a.ok,
                       \A q \in Jobs : IsChild(q, j) => OnFailure[q] # "continue"
                PROVE  The(mem, j).state = "waiting-children"
    BY DEF ParentWaits, Insertions
  <2>. DEFINE L == Live(mem, Grip(handle))
              p == <<j, mem.held[j]>>
  <2>1. Waits(mem, L, p) /\ Loyal(j)
    BY <1>1 DEF WaitInv, Awaits, Patient, Loyal
  <2>2. <<k, i>> \in L
    <3>1. <<k, i>> \in Refs
      BY DEF Refs, Insertions
    <3>. QED BY <3>1 DEF Live, Going
  <2>. HIDE DEF L
  <2>3. k \in Kids(mem, L, p)
    BY <2>2 DEF Kids
  <2>. QED BY <2>1, <2>3 DEF Waits, The
<1>. QED BY <1>1, InitWaits, StepWaits, PTL DEF Spec

-----------------------------------------------------------------------------
(* The delivery contract: first what each part of a step adds to the memory. *)

(* The attempts that a part of a step adds: those that pump starts.          *)
Joined(m, n) ==
  /\ "attempts" \in DOMAIN n /\ m.attempts \subseteq n.attempts
  /\ \A b \in n.attempts \ m.attempts : b.phase = "process" /\ ~b.done

LEMMA JoinedTransitive ==
  ASSUME NEW m, NEW n, NEW o, Joined(m, n), Joined(n, o)
  PROVE  Joined(m, o)
BY DEF Joined

LEMMA PumpJoined ==
  ASSUME NEW m, "attempts" \in DOMAIN m, NEW q
  PROVE  Joined(m, Pump(m, q))
<1>1. \A T, c : Joined(m, Started(m, T, c))
  BY DEF Started, Joined
<1>. QED BY <1>1 DEF Pump, Joined

LEMMA AdmittedJoined ==
  ASSUME NEW m, "attempts" \in DOMAIN m, NEW j
  PROVE  Joined(m, Admitted(m, j))
<1>1. Joined(m, Postponed(m, j))
  BY DEF Joined, Postponed
<1>2. Joined(m, Ready(m, j))
  <2>. DEFINE e == [m EXCEPT !.rec[j][m.held[j]].state = "waiting"]
  <2>1. "attempts" \in DOMAIN e /\ e.attempts = m.attempts
    OBVIOUS
  <2>2. Ready(m, j) = Pump(e, QueueOf[j])
    BY DEF Ready
  <2>. HIDE DEF e
  <2>. QED BY <2>1, <2>2, PumpJoined DEF Joined
<1>. QED BY <1>1, <1>2 DEF Admitted

LEMMA CountedJoined ==
  ASSUME NEW m, "attempts" \in DOMAIN m, NEW p
  PROVE  Joined(m, Counted(m, p))
<1>. DEFINE n == m.rec[p[1]][p[2]].pending
            c == [m EXCEPT !.rec[p[1]][p[2]].pending = n - 1]
<1>1. "attempts" \in DOMAIN c /\ c.attempts = m.attempts
  OBVIOUS
<1>2. Counted(m, p) \in {m, c, Admitted(c, p[1])}
  BY DEF Counted
<1>. HIDE DEF c
<1>. QED BY <1>1, <1>2, AdmittedJoined DEF Joined

LEMMA DeletedJoined ==
  ASSUME NEW m, "attempts" \in DOMAIN m, NEW S
  PROVE  Joined(m, Deleted(m, S)) /\ Deleted(m, S).attempts = m.attempts
BY DEF Joined, Deleted

LEMMA SettledJoined ==
  ASSUME NEW m, "attempts" \in DOMAIN m, NEW r
  PROVE  Joined(m, Settled(m, r))
<1>1. Settled(m, r) \in {Counted(m, m.rec[r[1]][r[2]].parent), Admitted(m, m.rec[r[1]][r[2]].parent[1]),
                         Deleted(m, Felled(m, r))}
  BY DEF Settled
<1>. QED BY <1>1, CountedJoined, AdmittedJoined, DeletedJoined

LEMMA BuiltJoined ==
  ASSUME NEW f, {"mem", "new"} \subseteq DOMAIN f, "attempts" \in DOMAIN f.mem, NEW j
  PROVE  Joined(f.mem, Built(f, j).mem) /\ {"mem", "new"} \subseteq DOMAIN Built(f, j)
<1>. DEFINE m == f.mem
            above == {p \in f.new : IsChild(j, p)}
            parent == IF above = {} THEN None
                      ELSE LET p == CHOOSE p \in above : TRUE IN <<p, m.held[p]>>
            n == Len(Children[j])
            e == IF n > 0 THEN Inserted(m, j, "waiting-children", parent, n)
                 ELSE Admitted(Inserted(m, j, "waiting", parent, 0), j)
<1>1. \A s, p, k : "attempts" \in DOMAIN Inserted(m, j, s, p, k) /\ Inserted(m, j, s, p, k).attempts = m.attempts
  BY DEF Inserted
<1>. HIDE DEF m, n, parent
<1>2. Joined(m, e)
  BY <1>1, AdmittedJoined DEF Joined
<1>. HIDE DEF e
<1>3. Built(f, j) = f \/ Built(f, j) = [f EXCEPT !.new = @ \cup {j}, !.mem = e]
  BY DEF Built, e, m, n, parent
<1>4. Joined(m, m)
  BY DEF Joined, m
<1>. QED BY <1>2, <1>3, <1>4 DEF m

LEMMA FlowJoined ==
  ASSUME NEW m, "attempts" \in DOMAIN m, NEW j \in Jobs
  PROVE  Joined(m, FlowBuilt(m, j))
<1>. DEFINE N == Len(Preorder[j])
            flow == Flows(m, j)
            Good(n) == {"mem", "new"} \subseteq DOMAIN flow[n] /\ Joined(m, flow[n].mem)
            bad == {n \in 0 .. N : ~Good(n)}
<1>1. /\ FlowBuilt(m, j) = flow[N].mem /\ N \in Nat
      /\ flow[0] = [mem |-> m, new |-> {}, root |-> j]
      /\ \A n \in 1 .. N : flow[n] = Built(flow[n - 1], Preorder[j][n])
  BY FlowsFacts
<1>. HIDE DEF flow, N
<1>2. Good(0)
  BY <1>1 DEF Joined
<1>3. ASSUME NEW n \in bad, \A l \in bad : n <= l PROVE FALSE
  <2>1. n \in 1 .. N /\ n - 1 \in 0 .. N /\ n - 1 \notin bad
    BY <1>1, <1>2, <1>3
  <2>2. Good(n - 1) /\ flow[n] = Built(flow[n - 1], Preorder[j][n])
    BY <1>1, <2>1
  <2>3. Joined(flow[n - 1].mem, flow[n].mem) /\ {"mem", "new"} \subseteq DOMAIN flow[n]
    BY <2>2, BuiltJoined DEF Joined
  <2>4. Joined(m, flow[n].mem)
    BY <2>2, <2>3, JoinedTransitive
  <2>. QED BY <1>3, <2>3, <2>4
<1>4. bad = {}
  <2>. SUFFICES ASSUME bad # {} PROVE FALSE
    OBVIOUS
  <2>1. bad \subseteq Nat
    BY <1>1
  <2>2. PICK k \in bad : \A l \in bad : k <= l
    BY <2>1, Least
  <2>. QED BY <1>3, <2>2
<1>. QED BY <1>1, <1>4

(* The records that a part of a step makes are in the map, one of an id.     *)
Grown(m, n) ==
  \A k \in Jobs : Births(n, k) = IF m.held[k] = 0 /\ n.held[k] # 0 THEN Births(m, k) + 1 ELSE Births(m, k)

LEMMA GrownTransitive ==
  ASSUME NEW m, NEW n, NEW o, Grown(m, n), Grown(n, o), Kept(m, n), Kept(n, o)
  PROVE  Grown(m, o)
BY DEF Grown, Kept

LEMMA InsertedGrown ==
  ASSUME NEW m, NEW X, NEW open, Sound(m, X, open), NEW j \in Jobs, m.held[j] = 0, Births(m, j) < MaxEnqueues,
         NEW s \in {"waiting", "waiting-children"}, NEW p \in Refs \cup {None}, NEW n \in Nat,
         NEW d, d = Inserted(m, j, s, p, n), NEW e, Alike(d, e)
  PROVE  /\ Grown(m, e)
         /\ \A k \in Jobs : e.held[k] # 0 <=> k = j \/ m.held[k] # 0
<1>0. m \in Memory /\ InTurn(m)
  BY DEF Sound
<1>. DEFINE b == Births(m, j) + 1
<1>1. /\ b \in Insertions /\ ~Born(m, j, b) /\ d \in Memory
      /\ \A k \in Jobs : d.held[k] = IF k = j THEN b ELSE m.held[k]
      /\ \A k \in Jobs, l \in Insertions : Born(d, k, l) <=> Born(m, k, l) \/ (k = j /\ l = b)
  <2>. DEFINE R == [state |-> s, made |-> 0, seq |-> m.seq, timer |-> FALSE, parent |-> p, pending |-> n]
  <2>1. /\ b \in Insertions /\ ~Born(m, j, b) /\ d \in Memory
        /\ \A k \in Jobs : d.held[k] = IF k = j THEN b ELSE m.held[k]
        /\ \A k \in Jobs, l \in Insertions : d.rec[k][l] = IF k = j /\ l = b THEN R ELSE m.rec[k][l]
    BY <1>0, InsertedFacts
  <2>2. R.state # "unborn"
    OBVIOUS
  <2>. HIDE DEF R, b
  <2>. QED BY <2>1, <2>2 DEF Born
<1>2. \A k \in Jobs : k # j => Births(e, k) = Births(m, k)
  BY <1>1, BirthsAlike DEF Alike
<1>3. Births(e, j) = b
  <2>1. /\ Births(m, j) \in 0 .. MaxEnqueues
        /\ \A i \in Insertions : Born(m, j, i) <=> i <= Births(m, j)
    BY <1>0, BirthsFacts
  <2>2. b \in Insertions /\ b \in Nat /\ \A i \in Insertions : Born(e, j, i) <=> i <= b
    BY <1>1, <2>1, ConstantsAssumption DEF Alike, Insertions
  <2>. HIDE DEF b
  <2>3. {i \in 1 .. MaxEnqueues : e.rec[j][i].state # "unborn"} = 1 .. b
    BY <2>2, ConstantsAssumption DEF Born, Insertions
  <2>4. Cardinality(1 .. b) = b
    <3>1. b \in Int /\ 1 \in Int /\ b >= 1
      BY <2>2, ConstantsAssumption DEF Insertions
    <3>. QED BY <3>1, FS_Interval
  <2>. QED BY <2>3, <2>4 DEF Births
<1>4. b # 0
  BY <1>1, ConstantsAssumption DEF Insertions
<1>. HIDE DEF b
<1>5. \A k \in Jobs : e.held[k] = IF k = j THEN b ELSE m.held[k]
  BY <1>1 DEF Alike
<1>. QED BY <1>2, <1>3, <1>4, <1>5 DEF Grown, b

LEMMA BuiltGrown ==
  ASSUME NEW K \in SUBSET Jobs, NEW f, Growing(f, K), NEW j \in K, OneOpen(phase)
  PROVE  Grown(f.mem, Built(f, j).mem)
<1>. DEFINE m == f.mem
            above == {p \in f.new : IsChild(j, p)}
            parent == IF above = {} THEN None
                      ELSE LET p == CHOOSE p \in above : TRUE IN <<p, m.held[p]>>
            n == Len(Children[j])
            open == transport = "open"
<1>0. /\ f \in [mem : Memory, new : SUBSET Jobs, root : Jobs] /\ m \in Memory /\ InTurn(m)
      /\ Sound(m, {}, open) /\ Filled(m, phase, {}) /\ f.new \subseteq Held(m) /\ j \in Jobs
      /\ \A k \in K : m.held[k] # 0 \/ Births(m, k) < MaxEnqueues
  BY DEF Growing, Sound
<1>1. parent \in Refs \cup {None}
  <2>1. CASE above = {}
    BY <2>1
  <2>2. CASE above # {}
    <3>1. PICK p \in above : parent = <<p, m.held[p]>>
      BY <2>2
    <3>. HIDE DEF parent
    <3>2. p \in Held(m)
      BY <1>0, <3>1
    <3>. QED BY <1>0, <3>1, <3>2, HeldFacts DEF Refs, Insertions
  <2>. QED BY <2>1, <2>2
<1>2. n \in Nat
  BY <1>0, ConstantsAssumption
<1>. DEFINE e == IF n > 0 THEN Inserted(m, j, "waiting-children", parent, n)
                 ELSE Admitted(Inserted(m, j, "waiting", parent, 0), j)
<1>3. CASE m.held[j] # 0 \/ (above = {} /\ j # f.root)
  <2>1. Built(f, j) = f
    BY <1>3 DEF Built
  <2>. QED BY <2>1 DEF Grown
<1>4. CASE ~(m.held[j] # 0 \/ (above = {} /\ j # f.root))
  <2>1. Built(f, j).mem = e
    BY <1>0, <1>4 DEF Built
  <2>2. m.held[j] = 0 /\ Births(m, j) < MaxEnqueues
    BY <1>0, <1>4
  <2>. HIDE DEF parent, n, open, m
  <2>3. CASE n > 0
    <3>. DEFINE d == Inserted(m, j, "waiting-children", parent, n)
    <3>1. Sound(d, {}, open)
      BY <1>0, <1>1, <1>2, <2>2, <2>3, InsertedSound
    <3>2. Alike(d, d) /\ e = d
      BY <2>3, <3>1 DEF Alike, Sound
    <3>3. Grown(m, d)
      BY <1>0, <1>1, <1>2, <2>2, <3>2, InsertedGrown
    <3>. QED BY <2>1, <3>2, <3>3 DEF m
  <2>4. CASE ~(n > 0)
    <3>. DEFINE d == Inserted(m, j, "waiting", parent, 0)
    <3>0. 0 \in Nat /\ "waiting" \in {"waiting", "waiting-children"} /\ ("waiting" = "waiting-children" => 0 > 0)
      OBVIOUS
    <3>1. /\ Sound(d, {}, open) /\ j \in Held(d) /\ The(d, j).state = "waiting"
          /\ Filled(d, phase, IF "waiting" = "waiting" THEN {j} ELSE {})
      <4>. HIDE DEF d
      <4>. QED BY <1>0, <1>1, <2>2, <3>0, InsertedSound DEF d
    <3>2. e = Admitted(d, j)
      BY <2>4
    <3>. HIDE DEF d, e
    <3>3. Filled(d, phase, {j}) /\ {j} \in SUBSET {j}
      BY <3>1
    <3>4. Alike(d, e)
      BY <3>1, <3>2, <3>3, AdmittedAsIs DEF open
    <3>5. Grown(m, e)
      BY <1>0, <1>1, <2>2, <3>0, <3>4, InsertedGrown DEF d
    <3>. QED BY <2>1, <3>5 DEF m
  <2>. QED BY <2>3, <2>4
<1>. QED BY <1>3, <1>4

LEMMA FlowGrown ==
  ASSUME NEW m, Sound(m, {}, transport = "open"), Filled(m, phase, {}), OneOpen(phase), NEW j \in Jobs,
         \A k \in ToSet(Preorder[j]) : m.held[k] # 0 \/ Births(m, k) < MaxEnqueues
  PROVE  Grown(m, FlowBuilt(m, j))
<1>. DEFINE N == Len(Preorder[j])
            K == ToSet(Preorder[j])
            flow == Flows(m, j)
            Good(n) == Growing(flow[n], K) /\ Kept(m, flow[n].mem) /\ Grown(m, flow[n].mem)
            bad == {n \in 0 .. N : ~Good(n)}
<1>1. /\ FlowBuilt(m, j) = flow[N].mem /\ N \in Nat
      /\ flow[0] = [mem |-> m, new |-> {}, root |-> j]
      /\ \A n \in 1 .. N : flow[n] = Built(flow[n - 1], Preorder[j][n])
  BY FlowsFacts
<1>2. K \in SUBSET Jobs /\ \A n \in 1 .. N : Preorder[j][n] \in K
  <2>1. Preorder[j] \in Seq(Jobs)
    BY FlowAssumption
  <2>2. DOMAIN Preorder[j] = 1 .. N /\ \A n \in 1 .. N : Preorder[j][n] \in Jobs
    BY <2>1
  <2>. QED BY <2>2 DEF ToSet
<1>3. m \in Memory
  BY DEF Sound
<1>. HIDE DEF flow, N, K
<1>4. Good(0)
  <2>1. flow[0].mem = m /\ flow[0].new = {} /\ flow[0] \in [mem : Memory, new : SUBSET Jobs, root : Jobs]
    BY <1>1, <1>3
  <2>2. \A k \in K : m.held[k] # 0 \/ Births(m, k) < MaxEnqueues
    BY DEF K
  <2>3. Kept(m, m) /\ Grown(m, m)
    BY DEF Kept, Grown
  <2>. QED BY <2>1, <2>2, <2>3 DEF Growing
<1>5. ASSUME NEW n \in bad, \A l \in bad : n <= l PROVE FALSE
  <2>1. n \in 1 .. N /\ n - 1 \in 0 .. N /\ n - 1 \notin bad
    BY <1>1, <1>4, <1>5
  <2>2. Growing(flow[n - 1], K) /\ Kept(m, flow[n - 1].mem) /\ Grown(m, flow[n - 1].mem)
    BY <2>1
  <2>3. flow[n] = Built(flow[n - 1], Preorder[j][n]) /\ Preorder[j][n] \in K
    BY <1>1, <1>2, <2>1
  <2>4. /\ Growing(flow[n], K) /\ Kept(flow[n - 1].mem, flow[n].mem)
        /\ Grown(flow[n - 1].mem, flow[n].mem)
    BY <1>2, <2>2, <2>3, BuiltFacts, BuiltGrown
  <2>5. /\ flow[n - 1].mem \in Memory /\ flow[n].mem \in Memory
        /\ InTurn(flow[n - 1].mem) /\ Trying(flow[n - 1].mem)
    BY <2>2, <2>4 DEF Growing, Sound
  <2>6. Kept(m, flow[n].mem) /\ Grown(m, flow[n].mem)
    BY <1>3, <2>2, <2>4, <2>5, KeptTransitive, GrownTransitive
  <2>. QED BY <1>5, <2>4, <2>6
<1>6. bad = {}
  <2>. SUFFICES ASSUME bad # {} PROVE FALSE
    OBVIOUS
  <2>1. bad \subseteq Nat
    BY <1>1
  <2>2. PICK k \in bad : \A l \in bad : k <= l
    BY <2>1, Least
  <2>. QED BY <1>5, <2>2
<1>7. Good(N)
  BY <1>1, <1>6
<1>. QED BY <1>1, <1>7

(* The end of a child that failed makes no record.                          *)
LEMMA SettledBirths ==
  ASSUME NEW m, NEW X, Sound(m, X, transport = "open"), OneOpen(phase), Filled(m, phase, {}), NEW r \in Refs
  PROVE  /\ \A j \in Jobs, i \in Insertions : Born(Settled(m, r), j, i) <=> Born(m, j, i)
         /\ \A j \in Jobs : Settled(m, r).held[j] = IF j \in Felled(m, r) THEN 0 ELSE m.held[j]
<1>. DEFINE p == m.rec[r[1]][r[2]].parent
            e == Settled(m, r)
<1>0. m \in Memory /\ InTurn(m)
  BY DEF Sound
<1>1. p \in Refs \cup {None}
  BY <1>0, FelledFacts
<1>2. OnFailure[r[1]] # "fail" \/ ~ParentPending(m, p) => Felled(m, r) = {}
  BY DEF Felled
<1>. HIDE DEF p
<1>3. CASE OnFailure[r[1]] = "ignore"
  <2>1. e = Counted(m, p)
    BY <1>3 DEF Settled, p
  <2>2. Alike(m, e)
    BY <1>1, <2>1, CountedFacts
  <2>. QED BY <1>2, <1>3, <2>2 DEF Alike
<1>4. CASE OnFailure[r[1]] = "continue" /\ ParentPending(m, p)
  <2>1. e = Admitted(m, p[1])
    BY <1>4 DEF Settled, p
  <2>2. p[1] \in Held(m) /\ The(m, p[1]).state = "waiting-children" /\ {} \in SUBSET {p[1]}
    BY <1>0, <1>1, <1>4, ParentFacts
  <2>3. Alike(m, e)
    BY <2>1, <2>2, AdmittedAsIs
  <2>. QED BY <1>2, <1>4, <2>3 DEF Alike
<1>5. CASE ~(OnFailure[r[1]] = "ignore") /\ ~(OnFailure[r[1]] = "continue" /\ ParentPending(m, p))
  <2>1. e = Deleted(m, Felled(m, r))
    BY <1>5 DEF Settled, p
  <2>. QED BY <1>0, <2>1, DeletedFacts DEF Born
<1>. QED BY <1>3, <1>4, <1>5

LEMMA AlikeGrown ==
  ASSUME NEW m, NEW n, Alike(m, n)
  PROVE  Grown(m, n)
<1>1. \A j \in Jobs : Births(n, j) = Births(m, j)
  BY BirthsAlike DEF Alike
<1>. QED BY <1>1 DEF Grown, Alike

(* A step that makes records and starts handlers, and does no more.         *)
Growth ==
  /\ Sound(mem', {}, transport = "open") /\ Kept(mem, mem') /\ Grown(mem, mem') /\ Joined(mem, mem')
  /\ UNCHANGED fates

LEMMA EnqueueGrowth ==
  ASSUME TransportInv, NEW j \in Jobs, Enqueue(j)
  PROVE  Growth
<1>. DEFINE m == Inserted(mem, j, "waiting", None, 0)
<1>0. Sound(mem, {}, transport = "open") /\ OneOpen(phase) /\ Filled(mem, phase, {}) /\ mem \in Memory
  BY DEF TransportInv, Sound
<1>5. /\ 0 \in Nat /\ "waiting" \in {"waiting", "waiting-children"} /\ ("waiting" = "waiting-children" => 0 > 0)
      /\ None \in Refs \cup {None} /\ mem.held[j] = 0 /\ Births(mem, j) < MaxEnqueues
  BY DEF Enqueue
<1>1. /\ Sound(m, {}, transport = "open") /\ Kept(mem, m) /\ Filled(m, phase, IF "waiting" = "waiting" THEN {j} ELSE {})
      /\ j \in Held(m) /\ The(m, j).state = "waiting"
  <2>. HIDE DEF m
  <2>. QED BY <1>0, <1>5, InsertedSound DEF m
<1>2. mem' = Admitted(m, j) /\ UNCHANGED fates
  BY DEF Enqueue
<1>6. "attempts" \in DOMAIN m /\ m.attempts = mem.attempts
  BY <1>0 DEF Inserted, Memory
<1>. HIDE DEF m
<1>3. Filled(m, phase, {j}) /\ {j} \in SUBSET {j}
  BY <1>1
<1>4. Sound(mem', {}, transport = "open") /\ Alike(m, mem') /\ Kept(m, mem')
  BY <1>0, <1>1, <1>2, <1>3, AdmittedAsIs
<1>7. Grown(mem, mem')
  <2>1. m = Inserted(mem, j, "waiting", None, 0) /\ Alike(m, mem')
    BY <1>4 DEF m
  <2>. QED BY ONLY <1>0, <1>5, <2>1, InsertedGrown
<1>8. Joined(mem, mem')
  <2>1. Joined(m, mem')
    BY <1>2, <1>6, AdmittedJoined
  <2>. QED BY <1>6, <2>1 DEF Joined
<1>9. Kept(mem, mem')
  BY <1>0, <1>1, <1>4, KeptTransitive DEF Sound
<1>. QED BY <1>0, <1>2, <1>4, <1>7, <1>8, <1>9 DEF Growth

LEMMA EnqueueFlowGrowth ==
  ASSUME TransportInv, NEW j \in Jobs, EnqueueFlow(j)
  PROVE  Growth
<1>0. Sound(mem, {}, transport = "open") /\ OneOpen(phase) /\ Filled(mem, phase, {}) /\ "attempts" \in DOMAIN mem
  BY DEF TransportInv, Sound, Memory
<1>1. /\ mem' = FlowBuilt(mem, j) /\ UNCHANGED fates
      /\ \A k \in ToSet(Preorder[j]) : mem.held[k] # 0 \/ Births(mem, k) < MaxEnqueues
  BY DEF EnqueueFlow
<1>2. Sound(mem', {}, transport = "open") /\ Kept(mem, mem')
  BY <1>0, <1>1, FlowFacts
<1>3. Grown(mem, mem') /\ Joined(mem, mem')
  BY <1>0, <1>1, FlowGrown, FlowJoined
<1>. QED BY <1>0, <1>1, <1>2, <1>3 DEF Growth

LEMMA TimerGrowth ==
  ASSUME TransportInv, NEW j \in Jobs, NEW i \in 1 .. MaxEnqueues, Timer(j, i)
  PROVE  Growth
<1>. DEFINE e == Fired(mem, j, i)
<1>0. TransportInv /\ Sound(mem, {}, transport = "open") /\ OneOpen(phase) /\ mem \in Memory
  BY DEF TransportInv, Sound
<1>1. /\ Edited(mem, e, j, i) /\ i \in Insertions /\ Born(mem, j, i) /\ e.rec[j][i].state = "waiting"
      /\ Sound(e, {}, transport = "open") /\ Filled(e, phase, {j})
      /\ mem' = Pump(e, QueueOf[j]) /\ UNCHANGED fates
  BY <1>0, TimerFacts
<1>. HIDE DEF e
<1>2. Alike(mem, e) /\ Kept(mem, e) /\ e \in Memory /\ QueueOf[j] \in Queues /\ "attempts" \in DOMAIN e
  BY <1>0, <1>1, EditedFacts, ConstantsAssumption DEF Sound, Memory
<1>3. Sound(mem', {}, transport = "open") /\ Carried(e, mem')
  BY <1>0, <1>1, <1>2, PumpFacts
<1>4. Alike(e, mem') /\ Kept(e, mem') /\ mem' \in Memory
  BY <1>2, <1>3, CarriedFacts DEF Sound
<1>5. Kept(mem, mem')
  BY <1>0, <1>1, <1>2, <1>4, KeptTransitive DEF Sound
<1>6. Joined(mem, mem')
  <2>1. Joined(e, mem')
    BY <1>1, <1>2, PumpJoined
  <2>. QED BY <1>1, <2>1 DEF Joined, Edited
<1>7. Grown(mem, mem')
  <2>1. Alike(mem, mem')
    BY <1>2, <1>4 DEF Alike
  <2>. QED BY <2>1, AlikeGrown
<1>. QED BY <1>0, <1>1, <1>3, <1>5, <1>6, <1>7 DEF Growth

LEMMA ConsumeGrowth ==
  ASSUME TransportInv, NEW c \in Consumers, Consume(c)
  PROVE  Growth
<1>0. TransportInv /\ Sound(mem, {}, transport = "open") /\ mem \in Memory
  BY DEF TransportInv, Sound
<1>1. Sound(mem', {}, transport = "open") /\ Carried(mem, mem') /\ UNCHANGED fates
  BY <1>0, ConsumeFacts
<1>2. Alike(mem, mem') /\ Kept(mem, mem') /\ Grown(mem, mem')
  BY <1>0, <1>1, CarriedFacts, AlikeGrown
<1>3. Joined(mem, mem')
  <2>1. "attempts" \in DOMAIN mem'
    BY <1>1 DEF Sound, Memory
  <2>. QED BY <1>1, <2>1 DEF Carried, Joined
<1>. QED BY <1>0, <1>1, <1>2, <1>3 DEF Growth

-----------------------------------------------------------------------------
(* Unless a handle removes a record made after it took hold of the id, a    *)
(* handler runs for the record in the map, and the last callback of a record *)
(* is the only one of its kind and comes after the record has left the map. *)
Owning(m) ==
  \A a \in m.attempts :
    /\ a.phase = "process" => m.held[a.job] = a.inc
    /\ a.done => /\ a.phase = "callback" /\ m.held[a.job] # a.inc
                 /\ \A b \in m.attempts : b.done /\ Ref(b) = Ref(a) => a = b

(* The callbacks that are still owed.                                       *)
Owing(m) == {Ref(a) : a \in {a \in m.attempts : a.done}}

LEMMA OwingMember ==
  ASSUME NEW m, NEW r
  PROVE  r \in Owing(m) <=> \E a \in m.attempts : a.done /\ Ref(a) = r
BY DEF Owing

LEMMA OwingSame ==
  ASSUME NEW m, NEW n, Joined(m, n)
  PROVE  Owing(n) = Owing(m)
<1>1. \A r : r \in Owing(n) <=> r \in Owing(m)
  BY OwingMember DEF Joined
<1>2. \A r \in Owing(n) : r \in Owing(m)
  BY <1>1
<1>3. \A r \in Owing(m) : r \in Owing(n)
  BY <1>1
<1>. QED BY <1>2, <1>3

(* A record in the map is the last one made of its id.                      *)
LEMMA HeldBirths ==
  ASSUME NEW m, NEW X, NEW open, Sound(m, X, open)
  PROVE  /\ \A j \in Held(m) : j \in Jobs /\ m.held[j] = Births(m, j)
         /\ \A j \in Jobs : Births(m, j) \in Nat
         /\ \A a \in m.attempts : a.job \in Jobs /\ a.inc \in Nat /\ a.inc # 0 /\ a.inc <= Births(m, a.job)
<1>1. m \in Memory /\ InTurn(m) /\ Trying(m)
  BY DEF Sound
<1>2. \A j \in Jobs : /\ Births(m, j) \in 0 .. MaxEnqueues /\ m.held[j] \in {0, Births(m, j)}
                      /\ \A i \in Insertions : Born(m, j, i) <=> i <= Births(m, j)
  BY <1>1, BirthsFacts
<1>3. \A a \in m.attempts : a.job \in Jobs /\ a.inc \in Insertions /\ Born(m, a.job, a.inc)
  BY Referred
<1>4. \A i \in Insertions : i \in Nat /\ i # 0
  BY ConstantsAssumption DEF Insertions
<1>5. \A j \in Jobs : Births(m, j) \in Nat
  BY <1>2, ConstantsAssumption
<1>. QED BY <1>2, <1>3, <1>4, <1>5 DEF Held

LEMMA OwningKept ==
  ASSUME NEW m, NEW X, NEW open, Sound(m, X, open), Owning(m), NEW n, NEW Y, NEW still, Sound(n, Y, still),
         Kept(m, n), Joined(m, n), Grown(m, n)
  PROVE  Owning(n)
<1>. SUFFICES ASSUME NEW a \in n.attempts
              PROVE  /\ a.phase = "process" => n.held[a.job] = a.inc
                     /\ a.done => /\ a.phase = "callback" /\ n.held[a.job] # a.inc
                                  /\ \A b \in n.attempts : b.done /\ Ref(b) = Ref(a) => a = b
  BY DEF Owning
<1>1. CASE a \notin m.attempts
  BY <1>1 DEF Kept, Joined
<1>2. CASE a \in m.attempts
  <2>1. a.job \in Jobs /\ a.inc \in Nat /\ a.inc # 0 /\ a.inc <= Births(m, a.job) /\ Births(m, a.job) \in Nat
    BY <1>2, HeldBirths
  <2>2. ASSUME a.phase = "process" PROVE n.held[a.job] = a.inc
    BY <1>2, <2>1, <2>2 DEF Owning, Kept
  <2>3. ASSUME a.done PROVE n.held[a.job] # a.inc
    <3>1. CASE m.held[a.job] # 0
      BY <1>2, <2>1, <2>3, <3>1 DEF Owning, Kept
    <3>2. CASE m.held[a.job] = 0 /\ n.held[a.job] # 0
      <4>1. n.held[a.job] = Births(n, a.job)
        BY <2>1, <3>2, HeldBirths DEF Held
      <4>2. Births(n, a.job) = Births(m, a.job) + 1
        BY <2>1, <3>2 DEF Grown
      <4>. QED BY <2>1, <4>1, <4>2
    <3>3. CASE n.held[a.job] = 0
      BY <2>1, <3>3
    <3>. QED BY <3>1, <3>2, <3>3
  <2>4. ASSUME a.done PROVE a.phase = "callback" /\ \A b \in n.attempts : b.done /\ Ref(b) = Ref(a) => a = b
    BY <1>2, <2>4 DEF Owning, Joined
  <2>. QED BY <2>2, <2>3, <2>4
<1>. QED BY <1>1, <1>2

(* The contract's state.                                                    *)
LEMMA ContractState ==
  /\ Delivery!Held = Held(mem)
  /\ Delivery!Taken = {j \in Held(mem) : The(mem, j).state = "active"}
  /\ \A S \in SUBSET Jobs : Held(mem)' = S => Delivery!Holds(S)
<1>1. \A j \in Jobs : (Place[j] # "none" <=> mem.held[j] # 0) /\ (Place[j] = "taken" <=> mem.held[j] # 0 /\ The(mem, j).state = "active")
  BY DEF Place
<1>2. \A j \in Jobs : Place'[j] # "none" <=> mem'.held[j] # 0
  BY DEF Place
<1>3. Place' \in [Jobs -> {"none", "queued", "taken"}]
  BY DEF Place
<1>. QED BY <1>1, <1>2, <1>3 DEF Delivery!Held, Delivery!Taken, Delivery!Holds, Held

ContractInv == TransportInv /\ Owning(mem)

(* A step that starts handlers and makes records is an Enqueue of the       *)
(* contract, of no job at all if it makes none.                             *)
LEMMA GrowthStep ==
  ASSUME Kept(mem, mem'), Grown(mem, mem'), Joined(mem, mem'), UNCHANGED fates
  PROVE  \E S \in SUBSET Jobs : Delivery!Enqueue(S)
<1>. DEFINE S == Held(mem') \ Held(mem)
<1>1. S \in SUBSET Jobs /\ S \cap Held(mem) = {} /\ Held(mem') = Held(mem) \cup S
  BY DEF Held, Kept
<1>2. Delivery!Holds(Delivery!Held \cup S)
  <2>1. Held(mem)' = Held(mem') /\ Held(mem) \cup S \in SUBSET Jobs
    BY DEF Held
  <2>. QED BY <1>1, <2>1, ContractState
<1>3. \A j \in Jobs : Births(mem', j) = IF j \in S THEN Births(mem, j) + 1 ELSE Births(mem, j)
  BY DEF Grown, Held
<1>. HIDE DEF S
<1>4. [j \in Jobs |-> Births(mem, j)]' = [j \in Jobs |-> IF j \in S THEN [i \in Jobs |-> Births(mem, i)][j] + 1
                                                        ELSE [i \in Jobs |-> Births(mem, i)][j]]
  <2>1. [j \in Jobs |-> Births(mem, j)]' = [j \in Jobs |-> Births(mem', j)]
    BY DEF Births
  <2>. QED BY <1>3, <2>1
<1>5. Owing(mem') = Owing(mem)
  BY OwingSame
<1>. QED BY <1>1, <1>2, <1>4, <1>5, ContractState DEF Delivery!Enqueue, Owing, fates

LEMMA ContractIncs ==
  ASSUME \A j \in Jobs : Births(mem', j) = Births(mem, j)
  PROVE  UNCHANGED [j \in Jobs |-> Births(mem, j)]
<1>1. [j \in Jobs |-> Births(mem, j)]' = [j \in Jobs |-> Births(mem', j)]
  BY DEF Births
<1>. QED BY <1>1

LEMMA ContractCurrent ==
  ASSUME NEW X, NEW open, Sound(mem, X, open), NEW S \in SUBSET Held(mem)
  PROVE  Delivery!Current(S) = Current(mem, S)
<1>1. \A j \in S : [k \in Jobs |-> Births(mem, k)][j] = mem.held[j]
  BY HeldBirths
<1>. QED BY <1>1 DEF Delivery!Current, Current

(* A step that leaves the map and the callbacks that are owed as they are.  *)
LEMMA SteadyStep ==
  ASSUME Held(mem') = Held(mem), \A j \in Jobs : Births(mem', j) = Births(mem, j),
         Owing(mem') = Owing(mem), UNCHANGED fates
  PROVE  Delivery!Handle
<1>1. Held(mem)' = Held(mem) /\ Held(mem) \in SUBSET Jobs
  BY DEF Held
<1>. QED BY <1>1, ContractState, ContractIncs DEF Delivery!Handle, Owing, fates

LEMMA GrowthContract ==
  ASSUME ContractInv, Growth
  PROVE  Owning(mem') /\ \E S \in SUBSET Jobs : Delivery!Enqueue(S)
<1>1. Sound(mem, {}, transport = "open") /\ Owning(mem)
  BY DEF ContractInv, TransportInv
<1>. QED BY <1>1, OwningKept, GrowthStep DEF Growth

(* The steps that leave the memory alone, or only its timers.               *)
LEMMA IdleContract ==
  ASSUME ContractInv, UNCHANGED <<mem, fates>>
  PROVE  Owning(mem') /\ Delivery!Handle
<1>1. Owning(mem') /\ Held(mem') = Held(mem) /\ Owing(mem') = Owing(mem) /\ \A j \in Jobs : Births(mem', j) = Births(mem, j)
  BY DEF ContractInv
<1>2. UNCHANGED fates
  OBVIOUS
<1>. QED BY <1>1, <1>2, SteadyStep

LEMMA CloseTransportContract ==
  ASSUME ContractInv, CloseTransport
  PROVE  Owning(mem') /\ Delivery!Handle
<1>0. TransportInv /\ UNCHANGED fates /\ Owning(mem)
  BY DEF ContractInv, CloseTransport
<1>1. /\ mem'.held = mem.held /\ mem'.attempts = mem.attempts
      /\ \A j \in Jobs, i \in Insertions : Born(mem', j, i) <=> Born(mem, j, i)
  BY <1>0, StoppedFacts DEF Born
<1>2. \A j \in Jobs : Births(mem', j) = Births(mem, j)
  BY <1>1, BirthsAlike
<1>3. Owning(mem') /\ Held(mem') = Held(mem) /\ Owing(mem') = Owing(mem)
  BY <1>0, <1>1 DEF Owning, Held, Owing
<1>. QED BY <1>0, <1>2, <1>3, SteadyStep

LEMMA TransportClosedContract ==
  ASSUME ContractInv, TransportClosed
  PROVE  Owning(mem') /\ Delivery!Lose(Held(mem))
<1>0. Sound(mem, {}, transport = "open") /\ mem \in Memory /\ Owning(mem)
  BY DEF ContractInv, TransportInv, Sound
<1>1. /\ \A c \in Consumers : Drained(c)
      /\ mem' = Deleted(mem, Jobs)
      /\ lost' = lost \cup Current(mem, Held(mem)) /\ UNCHANGED <<reported, removed>>
  BY DEF TransportClosed
<1>2. mem.attempts = {}
  BY <1>0, <1>1, MemFacts, AttemptFacts DEF Drained
<1>3. mem'.attempts = {} /\ mem'.rec = mem.rec /\ \A j \in Jobs : mem'.held[j] = 0
  BY <1>0, <1>1, <1>2, DeletedFacts
<1>4. Owning(mem') /\ Owing(mem') = Owing(mem) /\ \A j \in Jobs : Births(mem', j) = Births(mem, j)
  BY <1>2, <1>3 DEF Owning, Owing, Births
<1>5. Held(mem)' = Held(mem) \ Held(mem) /\ Held(mem) \ Held(mem) \in SUBSET Jobs
  BY <1>3 DEF Held
<1>6. Delivery!Holds(Held(mem) \ Held(mem))
  BY <1>5, ContractState
<1>7. Delivery!Current(Held(mem)) = Current(mem, Held(mem))
  BY <1>0, ContractCurrent
<1>. QED BY <1>1, <1>4, <1>6, <1>7, ContractState, ContractIncs DEF Delivery!Lose, Owing

(* The end of a handler that was the last of its record: the record leaves   *)
(* the map and its callback is owed.                                       *)
LEMMA EndedContract ==
  ASSUME ContractInv, NEW a \in mem.attempts, a.phase = "process", NEW ok \in BOOLEAN
  PROVE  /\ Owning(Over(a, ok, TRUE)) /\ Held(Over(a, ok, TRUE)) = Held(mem) \ {a.job}
         /\ \A j \in Jobs : Births(Over(a, ok, TRUE), j) = Births(mem, j)
         /\ Owing(Over(a, ok, TRUE)) = Owing(mem) \cup {Ref(a)}
         /\ a.job \in Delivery!Taken /\ Current(mem, {a.job}) = {Ref(a)}
<1>. DEFINE done == TRUE
            how == ok
            n == Over(a, how, done)
            b == Answered(a, how, done)
<1>10. a.phase = "process" /\ done \in BOOLEAN /\ how \in BOOLEAN
  OBVIOUS
<1>11. done
  OBVIOUS
<1>. HIDE DEF done, how
<1>0. TransportInv /\ Sound(mem, {}, transport = "open") /\ Owning(mem) /\ mem \in Memory
  BY DEF ContractInv, TransportInv, Sound
<1>1. /\ a.job \in Jobs /\ a.inc \in Insertions /\ mem.rec[a.job][a.inc].state = "active"
      /\ \A d \in mem.attempts : d # a /\ d.phase = "process" /\ d.job = a.job => d.inc # a.inc
      /\ mem.held[a.job] = a.inc /\ Ref(a) = <<a.job, a.inc>> /\ a \in Attempt /\ 0 \notin Insertions
  <2>1. /\ a.job \in Jobs /\ a.inc \in Insertions /\ mem.rec[a.job][a.inc].state = "active" /\ a \in Attempt
        /\ \A d \in mem.attempts : d # a /\ d.phase = "process" /\ d.job = a.job => d.inc # a.inc
    BY <1>0, EndFacts
  <2>2. mem.held[a.job] = a.inc /\ Ref(a) = <<a.job, a.inc>>
    BY <1>0 DEF Owning, Ref
  <2>3. 0 \notin Insertions
    BY ConstantsAssumption DEF Insertions
  <2>. QED BY <2>1, <2>2, <2>3
<1>2. /\ n.attempts = (mem.attempts \ {a}) \cup {b} /\ b.phase = "callback" /\ Ref(b) = Ref(a)
      /\ b.job = a.job /\ b.inc = a.inc
      /\ \A k \in Jobs : n.held[k] = IF k = a.job THEN 0 ELSE mem.held[k]
      /\ \A k \in Jobs, l \in Insertions : n.rec[k][l].state = mem.rec[k][l].state
  <2>1. /\ n.attempts = (mem.attempts \ {a}) \cup {b} /\ b.phase = "callback" /\ Ref(b) = Ref(a)
        /\ b.job = a.job /\ b.inc = a.inc
    BY <1>0, <1>10, EndedFacts
  <2>2. \A k \in Jobs : n.held[k] = IF k = a.job THEN 0 ELSE mem.held[k]
    BY <1>0, <1>10, EndedFacts
  <2>3. \A k \in Jobs, l \in Insertions : n.rec[k][l].state = mem.rec[k][l].state
    BY <1>0, <1>10, EndedFacts
  <2>. QED BY <2>1, <2>2, <2>3
<1>3. b.done
  BY <1>1, <1>10, <1>11, AnsweredFacts
<1>. HIDE DEF n, b
<1>4. \A d \in mem.attempts : d.job \in Jobs /\ d.inc # 0 /\ Ref(d) = <<d.job, d.inc>>
  BY <1>0, HeldBirths DEF Ref
<1>5. Owning(n)
  <2>. SUFFICES ASSUME NEW d \in n.attempts
                PROVE  /\ d.phase = "process" => n.held[d.job] = d.inc
                       /\ d.done => /\ d.phase = "callback" /\ n.held[d.job] # d.inc
                                    /\ \A e \in n.attempts : e.done /\ Ref(e) = Ref(d) => d = e
    BY DEF Owning
  <2>1. \A e \in mem.attempts : e.done => Ref(e) # Ref(a)
    BY <1>0, <1>1, <1>4 DEF Owning
  <2>2. CASE d = b
    BY <1>1, <1>2, <2>1, <2>2
  <2>3. CASE d \in mem.attempts /\ d # a
    <3>1. d.phase = "process" => d.job # a.job
      BY <1>0, <1>1, <2>3 DEF Owning
    <3>2. d.phase = "process" => n.held[d.job] = d.inc
      BY <1>0, <1>2, <1>4, <2>3, <3>1 DEF Owning
    <3>3. d.done => d.phase = "callback" /\ n.held[d.job] # d.inc
      BY <1>0, <1>2, <1>4, <2>3 DEF Owning
    <3>4. d.done => \A e \in n.attempts : e.done /\ Ref(e) = Ref(d) => d = e
      BY <1>0, <1>2, <2>1, <2>3 DEF Owning
    <3>. QED BY <3>2, <3>3, <3>4
  <2>. QED BY <1>2, <2>2, <2>3
<1>6. Held(n) = Held(mem) \ {a.job}
  BY <1>1, <1>2 DEF Held
<1>7. \A j \in Jobs : Births(n, j) = Births(mem, j)
  BY <1>2, BirthsAlike DEF Born
<1>8. Owing(n) = Owing(mem) \cup {Ref(a)}
  <2>1. ~a.done
    BY <1>0 DEF Owning
  <2>2. \A r : r \in Owing(n) <=> r \in Owing(mem) \/ r = Ref(a)
    BY <1>2, <1>3, <2>1, OwingMember
  <2>3. \A r \in Owing(n) : r \in Owing(mem) \cup {Ref(a)}
    BY <2>2
  <2>4. \A r \in Owing(mem) \cup {Ref(a)} : r \in Owing(n)
    BY <2>2
  <2>. QED BY <2>3, <2>4
<1>9. a.job \in Held(mem) /\ The(mem, a.job).state = "active" /\ Current(mem, {a.job}) = {Ref(a)}
  BY <1>1 DEF Held, The, Current
<1>. QED BY <1>5, <1>6, <1>7, <1>8, <1>9, ContractState DEF n, done, how

LEMMA SucceedContract ==
  ASSUME ContractInv, NEW a \in mem.attempts, Succeed(a)
  PROVE  Owning(mem') /\ Delivery!End({a.job}, {})
<1>1. a.phase = "process" /\ mem' = Over(a, TRUE, TRUE) /\ UNCHANGED fates
  BY DEF Succeed, Over
<1>2. /\ Owning(mem') /\ Held(mem') = Held(mem) \ {a.job}
      /\ \A j \in Jobs : Births(mem', j) = Births(mem, j)
      /\ Owing(mem') = Owing(mem) \cup {Ref(a)}
      /\ a.job \in Delivery!Taken /\ Current(mem, {a.job}) = {Ref(a)}
  <2>1. TRUE \in BOOLEAN
    OBVIOUS
  <2>. QED BY <1>1, <2>1, EndedContract
<1>3. /\ Delivery!Held \ ({a.job} \cup {}) = Held(mem) \ {a.job} /\ Held(mem)' = Held(mem) \ {a.job}
      /\ Held(mem) \ {a.job} \in SUBSET Jobs /\ {a.job} \in SUBSET Held(mem)
  BY <1>2, ContractState DEF Held
<1>4. Delivery!Holds(Delivery!Held \ ({a.job} \cup {}))
  BY <1>3, ContractState
<1>5. Sound(mem, {}, transport = "open")
  BY DEF ContractInv, TransportInv
<1>6. Delivery!Current({a.job}) = {Ref(a)} /\ Delivery!Current({}) = {}
  <2>1. Delivery!Current({a.job}) = {Ref(a)}
    BY <1>2, <1>3, <1>5, ContractCurrent
  <2>. QED BY <2>1 DEF Delivery!Current
<1>. QED BY <1>1, <1>2, <1>4, <1>6, ContractIncs DEF Delivery!End, Owing, fates

LEMMA FailContract ==
  ASSUME ContractInv, NEW a \in mem.attempts, Fail(a)
  PROVE  Owning(mem') /\ \E V \in SUBSET Jobs : Delivery!End({a.job}, V)
<1>. DEFINE m == Over(a, FALSE, TRUE)
            W == Felled(m, Ref(a))
<1>0. TransportInv /\ Sound(mem, {}, transport = "open") /\ OneOpen(phase) /\ mem \in Memory
  BY DEF ContractInv, TransportInv, Sound
<1>1. a.phase = "process" /\ mem' = Settled(m, Ref(a)) /\ removed' = removed \cup Current(m, W) /\ UNCHANGED <<reported, lost>>
  BY DEF Fail, Over
<1>2. /\ Owning(m) /\ Held(m) = Held(mem) \ {a.job}
      /\ \A j \in Jobs : Births(m, j) = Births(mem, j)
      /\ Owing(m) = Owing(mem) \cup {Ref(a)}
      /\ a.job \in Delivery!Taken /\ Current(mem, {a.job}) = {Ref(a)}
      /\ Sound(m, {}, transport = "open") /\ Filled(m, phase, {})
      /\ \A k \in Jobs : m.held[k] = IF k = a.job THEN 0 ELSE mem.held[k]
  <2>1. TRUE \in BOOLEAN /\ FALSE \in BOOLEAN
    OBVIOUS
  <2>. QED BY <1>0, <1>1, <2>1, EndedContract, DoneSound, EndedFacts
<1>3. Ref(a) \in Refs /\ a.job \in Jobs
  BY <1>0, <1>1, EndFacts
<1>. HIDE DEF m
<1>4. m \in Memory /\ InTurn(m) /\ Trying(m) /\ "attempts" \in DOMAIN m
  BY <1>2 DEF Sound, Memory
<1>5. \A q \in W : q \in Held(m) /\ The(m, q).state = "waiting-children"
  BY <1>3, <1>4, FelledFacts
<1>. HIDE DEF W
<1>6. /\ \A j \in Jobs, i \in Insertions : Born(mem', j, i) <=> Born(m, j, i)
      /\ \A j \in Jobs : mem'.held[j] = IF j \in W THEN 0 ELSE m.held[j]
      /\ Joined(m, mem') /\ \A b \in mem'.attempts : b \in m.attempts \/ mem'.held[b.job] = b.inc
  BY <1>0, <1>1, <1>2, <1>3, <1>4, SettledBirths, SettledJoined, SettledFacts DEF W
<1>7. Owning(mem')
  <2>. SUFFICES ASSUME NEW b \in mem'.attempts
                PROVE  /\ b.phase = "process" => mem'.held[b.job] = b.inc
                       /\ b.done => /\ b.phase = "callback" /\ mem'.held[b.job] # b.inc
                                    /\ \A c \in mem'.attempts : c.done /\ Ref(c) = Ref(b) => b = c
    BY DEF Owning
  <2>1. CASE b \notin m.attempts
    BY <1>6, <2>1 DEF Joined
  <2>2. CASE b \in m.attempts
    <3>1. b.job \in Jobs /\ b.inc # 0
      BY <1>2, <2>2, HeldBirths
    <3>2. ASSUME b.phase = "process" PROVE mem'.held[b.job] = b.inc
      <4>1. m.held[b.job] = b.inc /\ m.rec[b.job][b.inc].state = "active"
        BY <1>2, <1>4, <2>2, <3>2 DEF Owning, Trying, Tries
      <4>2. b.job \notin W
        BY <1>5, <4>1 DEF The
      <4>. QED BY <1>6, <3>1, <4>1, <4>2
    <3>3. b.done => b.phase = "callback" /\ mem'.held[b.job] # b.inc
      BY <1>2, <1>6, <2>2, <3>1 DEF Owning
    <3>4. b.done => \A c \in mem'.attempts : c.done /\ Ref(c) = Ref(b) => b = c
      BY <1>2, <1>6, <2>2 DEF Owning, Joined
    <3>. QED BY <3>2, <3>3, <3>4
  <2>. QED BY <2>1, <2>2
<1>8. \A j \in Jobs : Births(mem', j) = Births(mem, j)
  BY <1>2, <1>6, BirthsAlike
<1>9. Owing(mem') = Owing(mem) \cup {Ref(a)}
  BY <1>2, <1>6, OwingSame
<1>10. /\ W \in SUBSET (Held(mem) \ {a.job}) /\ W \in SUBSET Jobs /\ Held(mem') = Held(mem) \ ({a.job} \cup W)
       /\ \A q \in W : m.held[q] = mem.held[q]
  BY <1>2, <1>3, <1>5, <1>6 DEF Held
<1>11. Delivery!Holds(Delivery!Held \ ({a.job} \cup W))
  <2>1. Held(mem)' = Held(mem) \ ({a.job} \cup W) /\ Held(mem) \ ({a.job} \cup W) \in SUBSET Jobs
    BY <1>10 DEF Held
  <2>. QED BY <2>1, ContractState
<1>12. Delivery!Current({a.job}) = {Ref(a)} /\ Delivery!Current(W) = Current(m, W)
  <2>1. {a.job} \in SUBSET Held(mem) /\ W \in SUBSET Held(mem)
    BY <1>2, <1>10, ContractState
  <2>2. Delivery!Current({a.job}) = {Ref(a)} /\ Delivery!Current(W) = Current(mem, W)
    BY <1>0, <1>2, <2>1, ContractCurrent
  <2>3. Current(m, W) = Current(mem, W)
    BY <1>10 DEF Current
  <2>. QED BY <2>2, <2>3
<1>13. {a.job} \in SUBSET Jobs /\ {a.job} \subseteq Delivery!Taken
  BY <1>2, <1>3
<1>14. Delivery!End({a.job}, W)
  BY <1>1, <1>8, <1>9, <1>10, <1>11, <1>12, <1>13, ContractIncs, ContractState DEF Delivery!End, Owing
<1>15. W \in SUBSET Jobs
  BY <1>10
<1>16. \E V \in SUBSET Jobs : Delivery!End({a.job}, V)
  BY <1>14, <1>15 DEF Delivery!End
<1>. QED BY <1>7, <1>16

LEMMA RetryContract ==
  ASSUME ContractInv, NEW a \in mem.attempts, Retry(a)
  PROVE  Owning(mem') /\ Delivery!Handle
<1>. DEFINE b == Answered(a, FALSE, FALSE)
<1>0. TransportInv /\ Sound(mem, {}, transport = "open") /\ Owning(mem) /\ mem \in Memory
  BY DEF ContractInv, TransportInv, Sound
<1>1. /\ mem'.held = mem.held /\ mem'.attempts = (mem.attempts \ {a}) \cup {b} /\ b.phase = "callback"
      /\ mem'.rec[a.job][a.inc].state = "delayed"
      /\ \A k \in Jobs, l \in Insertions : ~(k = a.job /\ l = a.inc) => mem'.rec[k][l] = mem.rec[k][l]
      /\ a.phase = "process" /\ UNCHANGED fates
  BY <1>0, RetryFacts
<1>2. mem.rec[a.job][a.inc].state = "active" /\ a \in Attempt
  BY <1>0, <1>1, EndFacts
<1>3. ~b.done
  <2>1. FALSE \in BOOLEAN
    OBVIOUS
  <2>. QED BY <1>2, <2>1, AnsweredFacts
<1>. HIDE DEF b
<1>4. ~a.done
  BY <1>0, <1>1 DEF Owning
<1>5. Owning(mem')
  BY <1>0, <1>1, <1>3 DEF Owning
<1>6. \A j \in Jobs : Births(mem', j) = Births(mem, j)
  BY <1>1, <1>2, BirthsAlike DEF Born
<1>7. Owing(mem') = Owing(mem)
  <2>1. \A r : r \in Owing(mem') <=> r \in Owing(mem)
    BY <1>1, <1>3, <1>4, OwingMember
  <2>2. \A r \in Owing(mem') : r \in Owing(mem)
    BY <2>1
  <2>3. \A r \in Owing(mem) : r \in Owing(mem')
    BY <2>1
  <2>. QED BY <2>2, <2>3
<1>8. Held(mem') = Held(mem)
  BY <1>1 DEF Held
<1>. QED BY <1>1, <1>5, <1>6, <1>7, <1>8, SteadyStep

(* The callback returns: what it leaves is as it was, but for what is counted. *)
LEMMA ReturnJoined ==
  ASSUME TransportInv, NEW a \in mem.attempts, Return(a)
  PROVE  /\ Sound(mem', {}, transport = "open")
         /\ Kept(Left(a), mem') /\ Alike(Left(a), mem') /\ Joined(Left(a), mem')
<1>. DEFINE open == transport = "open"
            m == Left(a)
            c == a.cons
            n == IF a.ok THEN Counted(m, m.rec[a.job][a.inc].parent) ELSE m
            f == Freed(n, c)
            J == {j \in Jobs : QueueOf[j] = ServedBy[c]}
<1>0. TransportInv /\ Sound(mem, {}, open) /\ OneOpen(phase) /\ mem \in Memory
  BY DEF TransportInv, Sound
<1>1. /\ a.phase = "callback" /\ mem' = Pump(f, ServedBy[c])
      /\ reported' = reported \cup (IF a.done THEN {Ref(a)} ELSE {})
      /\ UNCHANGED <<removed, lost>>
  BY DEF Return, Left, Freed
<1>2. /\ Sound(m, {c}, open) /\ Filled(m, phase, {})
      /\ c \in Consumers /\ Ref(a) \in Refs /\ m.rec = mem.rec /\ m.held = mem.held /\ m.attempts = mem.attempts \ {a}
      /\ mem.rec[a.job][a.inc].parent \in Refs \cup {None}
  BY <1>0, <1>1, LeftFacts
<1>. HIDE DEF m
<1>3. Sound(n, {c}, open) /\ Filled(n, phase, {}) /\ Kept(m, n) /\ Alike(m, n) /\ Joined(m, n)
  <2>0. m \in Memory /\ "attempts" \in DOMAIN m
    BY <1>2 DEF Sound, Memory
  <2>1. CASE a.ok
    <3>1. n = Counted(m, m.rec[a.job][a.inc].parent)
      BY <2>1
    <3>2. m.rec[a.job][a.inc].parent \in Refs \cup {None}
      BY <1>2
    <3>. HIDE DEF n, c
    <3>. QED BY <1>0, <1>2, <2>0, <3>1, <3>2, CountedFacts, CountedJoined
  <2>2. CASE ~a.ok
    <3>1. n = m
      BY <2>2
    <3>2. Kept(m, m) /\ Alike(m, m) /\ Joined(m, m)
      BY <2>0 DEF Kept, Alike, Joined
    <3>. QED BY <1>2, <3>1, <3>2
  <2>. QED BY <2>1, <2>2
<1>. HIDE DEF n
<1>4. Sound(f, {}, open) /\ Filled(f, phase, J) /\ Kept(n, f) /\ Alike(n, f) /\ f.attempts = n.attempts
  <2>1. f = Freed(n, c)
    OBVIOUS
  <2>2. J = {j \in Jobs : QueueOf[j] = ServedBy[c]}
    OBVIOUS
  <2>3. c \in Consumers /\ Sound(n, {c}, open) /\ OneOpen(phase) /\ Filled(n, phase, {})
    BY <1>0, <1>2, <1>3
  <2>. HIDE DEF f, J, c, open
  <2>. QED BY <2>1, <2>2, <2>3, FreedSound
<1>. HIDE DEF f
<1>5. J \in SUBSET Jobs /\ ServedBy[c] \in Queues /\ \A j \in J : QueueOf[j] = ServedBy[c]
  BY <1>2, ConstantsAssumption
<1>. HIDE DEF J, c
<1>6. Sound(mem', {}, open) /\ Carried(f, mem')
  BY <1>0, <1>1, <1>4, <1>5, PumpFacts
<1>7. f \in Memory /\ "attempts" \in DOMAIN f /\ n \in Memory /\ m \in Memory /\ mem' \in Memory /\ InTurn(n)
      /\ Trying(n) /\ InTurn(f) /\ Trying(f)
  BY <1>2, <1>3, <1>4, <1>6 DEF Sound, Memory
<1>8. Kept(f, mem') /\ Alike(f, mem') /\ Joined(f, mem')
  BY <1>1, <1>6, <1>7, CarriedFacts, PumpJoined
<1>9. Kept(m, mem') /\ Alike(m, mem') /\ Joined(m, mem')
  <2>1. Kept(n, mem')
    BY <1>4, <1>7, <1>8, KeptTransitive
  <2>2. Kept(m, mem')
    BY <1>3, <1>7, <2>1, KeptTransitive
  <2>3. Alike(m, mem')
    BY <1>3, <1>4, <1>8 DEF Alike
  <2>4. Joined(m, mem')
    BY <1>3, <1>4, <1>8 DEF Joined
  <2>. QED BY <2>2, <2>3, <2>4
<1>. QED BY <1>6, <1>9 DEF m, open

(* The callback returns: what was owed is reported.                         *)
LEMMA ReturnContract ==
  ASSUME ContractInv, NEW a \in mem.attempts, Return(a)
  PROVE  /\ Owning(mem')
         /\ Delivery!Handle \/ \E v \in Owing(mem) : Delivery!Report(v)
<1>. DEFINE open == transport = "open"
            m == Left(a)
            c == a.cons
<1>0. TransportInv /\ Owning(mem)
  BY DEF ContractInv
<1>1. /\ a.phase = "callback" /\ reported' = reported \cup (IF a.done THEN {Ref(a)} ELSE {})
      /\ UNCHANGED <<removed, lost>>
  BY DEF Return
<1>2. /\ Sound(m, {c}, open)
      /\ c \in Consumers /\ Ref(a) \in Refs /\ m.rec = mem.rec /\ m.held = mem.held /\ m.attempts = mem.attempts \ {a}
  BY <1>0, <1>1, LeftFacts
<1>6. Sound(mem', {}, open) /\ Kept(m, mem') /\ Alike(m, mem') /\ Joined(m, mem')
  BY <1>0, ReturnJoined
<1>9. Kept(m, mem') /\ Alike(m, mem') /\ Joined(m, mem')
  BY <1>6
<1>. HIDE DEF m, c, open
<1>10. Owning(m)
  BY <1>0, <1>2 DEF Owning
<1>11. Grown(m, mem')
  BY <1>9, AlikeGrown
<1>12. Owning(mem')
  BY <1>2, <1>6, <1>9, <1>10, <1>11, OwningKept
<1>13. Held(mem') = Held(mem)
  BY <1>2, <1>9 DEF Alike, Held
<1>14. \A j \in Jobs : Births(mem', j) = Births(mem, j)
  <2>1. \A j \in Jobs : Births(mem', j) = Births(m, j)
    BY <1>9, BirthsAlike DEF Alike
  <2>. QED BY <1>2, <2>1 DEF Births
<1>15. Owing(mem') = Owing(m)
  BY <1>9, OwingSame
<1>16. CASE ~a.done
  <2>1. \A r : r \in Owing(m) <=> r \in Owing(mem)
    BY <1>2, <1>16, OwingMember
  <2>2. \A r \in Owing(m) : r \in Owing(mem)
    BY <2>1
  <2>3. \A r \in Owing(mem) : r \in Owing(m)
    BY <2>1
  <2>4. Owing(mem') = Owing(mem)
    BY <1>15, <2>2, <2>3
  <2>5. UNCHANGED fates
    BY <1>1, <1>16 DEF fates
  <2>. QED BY <1>12, <1>13, <1>14, <2>4, <2>5, SteadyStep
<1>17. CASE a.done
  <2>1. Ref(a) \in Owing(mem)
    BY <1>17, OwingMember
  <2>2. \A r : r \in Owing(m) <=> r \in Owing(mem) /\ r # Ref(a)
    BY <1>0, <1>2, <1>17, OwingMember DEF Owning
  <2>3. \A r \in Owing(m) : r \in Owing(mem) \ {Ref(a)}
    BY <2>2
  <2>4. \A r \in Owing(mem) \ {Ref(a)} : r \in Owing(m)
    BY <2>2
  <2>5. Owing(mem') = Owing(mem) \ {Ref(a)}
    BY <1>15, <2>3, <2>4
  <2>6. Delivery!Holds(Delivery!Held)
    <3>1. Held(mem)' = Held(mem) /\ Held(mem) \in SUBSET Jobs
      BY <1>13 DEF Held
    <3>. QED BY <3>1, ContractState
  <2>7. \E v \in Owing(mem) : Delivery!Report(v)
    BY <1>1, <1>14, <1>17, <2>1, <2>5, <2>6, ContractIncs DEF Delivery!Report, Owing
  <2>. QED BY <1>12, <2>7
<1>. QED BY <1>16, <1>17

(* A handle removes the record that it refers to, or finds its id gone.     *)
Timely == \A h \in Handles : RemoveJob(h) => mem.held[handle[h][1]] \in {0, handle[h][2]}

LEMMA RemoveJobContract ==
  ASSUME ContractInv, Timely, NEW h \in Handles, RemoveJob(h)
  PROVE  /\ Owning(mem')
         /\ Delivery!Handle \/ \E j \in Jobs : Delivery!Remove(j)
<1>. DEFINE r == handle[h]
            d == Dropped(r)
            open == transport = "open"
<1>0. /\ TransportInv /\ TypeOK /\ Sound(mem, {}, open) /\ OneOpen(phase) /\ mem \in Memory /\ Owning(mem)
      /\ Trying(mem)
  BY DEF ContractInv, TransportInv, Sound
<1>1. r \in Refs /\ r[1] \in Jobs /\ UNCHANGED <<reported, lost>> /\ mem.held[r[1]] \in {0, r[2]}
  BY <1>0 DEF RemoveJob, TypeOK, Refs, Timely
<1>2. CASE mem.rec[r[1]][r[2]].state = "active"
  <2>1. UNCHANGED <<mem, fates>>
    BY <1>1, <1>2 DEF RemoveJob, fates
  <2>. QED BY <2>1, IdleContract
<1>3. CASE mem.rec[r[1]][r[2]].state # "active"
  <2>1. mem' = Counted(d, mem.rec[r[1]][r[2]].parent) /\ removed' = removed \cup Current(mem, {r[1]} \cap Held(mem))
    BY <1>3 DEF RemoveJob, Removed, Dropped, Untimed
  <2>. HIDE DEF r
  <2>2. /\ Sound(d, {}, open) /\ Filled(d, phase, {}) /\ mem.rec[r[1]][r[2]].parent \in Refs \cup {None}
        /\ d.attempts = mem.attempts /\ \A k \in Jobs : d.held[k] = IF k = r[1] THEN 0 ELSE mem.held[k]
        /\ \A k \in Jobs, l \in Insertions : d.rec[k][l].state = mem.rec[k][l].state
    BY <1>0, <1>1, DroppedFacts
  <2>. HIDE DEF d
  <2>0. "attempts" \in DOMAIN d
    BY <2>2 DEF Sound, Memory
  <2>3. Sound(mem', {}, open) /\ Kept(d, mem') /\ Alike(d, mem') /\ Joined(d, mem')
    BY <1>0, <2>0, <2>1, <2>2, CountedFacts, CountedJoined
  <2>4. Owning(d)
    <3>1. \A a \in mem.attempts : a.job \in Jobs /\ a.inc # 0
      BY <1>0, HeldBirths
    <3>2. ASSUME NEW a \in mem.attempts, a.phase = "process" PROVE a.job # r[1]
      BY <1>0, <1>1, <1>3, <3>1, <3>2 DEF Owning, Trying, Tries
    <3>. QED BY <1>0, <2>2, <3>1, <3>2 DEF Owning
  <2>5. Owning(mem')
    <3>1. Grown(d, mem')
      BY <2>3, AlikeGrown
    <3>. QED BY <2>2, <2>3, <2>4, <3>1, OwningKept
  <2>6. \A j \in Jobs : Births(mem', j) = Births(mem, j)
    BY <2>2, <2>3, BirthsAlike DEF Alike, Born
  <2>7. Owing(mem') = Owing(mem)
    <3>1. Owing(mem') = Owing(d)
      BY <2>3, OwingSame
    <3>. QED BY <2>2, <3>1 DEF Owing
  <2>8. Held(mem') = Held(mem) \ {r[1]}
    BY <1>1, <2>2, <2>3 DEF Alike, Held
  <2>9. CASE r[1] \notin Held(mem)
    <3>1. UNCHANGED fates /\ Held(mem') = Held(mem)
      BY <1>1, <2>1, <2>8, <2>9 DEF Current, fates
    <3>. QED BY <2>5, <2>6, <2>7, <3>1, SteadyStep
  <2>10. CASE r[1] \in Held(mem)
    <3>1. Delivery!Holds(Delivery!Held \ {r[1]})
      <4>1. Held(mem)' = Held(mem) \ {r[1]} /\ Held(mem) \ {r[1]} \in SUBSET Jobs
        BY <2>8 DEF Held
      <4>. QED BY <4>1, ContractState
    <3>2. removed' = removed \cup Delivery!Current({r[1]})
      <4>1. {r[1]} \in SUBSET Held(mem) /\ {r[1]} \cap Held(mem) = {r[1]}
        BY <2>10
      <4>. QED BY <1>0, <2>1, <4>1, ContractCurrent
    <3>3. r[1] \in Delivery!Held
      BY <2>10, ContractState
    <3>4. Delivery!Remove(r[1])
      BY <1>1, <2>6, <2>7, <3>1, <3>2, <3>3, ContractIncs DEF Delivery!Remove, Owing
    <3>. QED BY <1>1, <2>5, <3>4 DEF Delivery!Remove
  <2>. QED BY <2>9, <2>10
<1>. QED BY <1>2, <1>3

LEMMA ContractNext ==
  ASSUME ContractInv, [Next]_vars, Timely
  PROVE  Owning(mem') /\ [Delivery!Next]_(Delivery!vars)
<1>1. ASSUME NEW j \in Jobs, Enqueue(j) \/ EnqueueFlow(j)
      PROVE  Owning(mem') /\ \E S \in SUBSET Jobs : Delivery!Enqueue(S)
  BY <1>1, EnqueueGrowth, EnqueueFlowGrowth, GrowthContract DEF ContractInv
<1>2. ASSUME NEW j \in Jobs, NEW i \in 1 .. MaxEnqueues, Timer(j, i)
      PROVE  Owning(mem') /\ \E S \in SUBSET Jobs : Delivery!Enqueue(S)
  BY <1>2, TimerGrowth, GrowthContract DEF ContractInv
<1>3. ASSUME NEW a \in mem.attempts, Advance(a)
      PROVE  Owning(mem') /\ Delivery!Next
  <2>0. {} \in SUBSET Jobs /\ a.job \in Jobs /\ {a.job} \in SUBSET Jobs
    <3>1. Sound(mem, {}, transport = "open")
      BY DEF ContractInv, TransportInv
    <3>2. a.job \in Jobs
      BY <3>1, Referred
    <3>. QED BY <3>2
  <2>1. CASE Succeed(a)
    BY <2>0, <2>1, SucceedContract DEF Delivery!Next
  <2>2. CASE Fail(a)
    BY <2>0, <2>2, FailContract DEF Delivery!Next
  <2>3. CASE Retry(a)
    BY <2>3, RetryContract DEF Delivery!Next
  <2>4. CASE Return(a)
    BY <2>4, ReturnContract DEF Delivery!Next, Owing
  <2>. QED BY <1>3, <2>1, <2>2, <2>3, <2>4 DEF Advance
<1>4. ASSUME NEW h \in Handles, RemoveJob(h)
      PROVE  Owning(mem') /\ Delivery!Next
  BY <1>4, RemoveJobContract DEF Delivery!Next
<1>5. ASSUME NEW h \in Handles, NEW j \in Jobs, GetJob(h, j)
      PROVE  Owning(mem') /\ Delivery!Next
  <2>1. UNCHANGED <<mem, fates>>
    BY <1>5 DEF GetJob
  <2>. QED BY <2>1, IdleContract DEF Delivery!Next
<1>6. ASSUME NEW c \in Consumers, Consume(c)
      PROVE  Owning(mem') /\ \E S \in SUBSET Jobs : Delivery!Enqueue(S)
  BY <1>6, ConsumeGrowth, GrowthContract DEF ContractInv
<1>7. ASSUME NEW c \in Consumers, CloseConsumer(c) \/ ConsumerClosed(c)
      PROVE  Owning(mem') /\ Delivery!Next
  <2>1. UNCHANGED <<mem, fates>>
    BY <1>7 DEF CloseConsumer, ConsumerClosed
  <2>. QED BY <2>1, IdleContract DEF Delivery!Next
<1>8. CASE CloseTransport
  BY <1>8, CloseTransportContract DEF Delivery!Next
<1>9. CASE TransportClosed
  <2>1. Held(mem) \in SUBSET Jobs
    BY DEF Held
  <2>. QED BY <1>9, <2>1, TransportClosedContract DEF Delivery!Next
<1>10. CASE UNCHANGED vars
  <2>1. UNCHANGED <<mem, fates>>
    BY <1>10 DEF vars, fates
  <2>. QED BY <2>1, IdleContract DEF Delivery!Next
<1>11. (\E S \in SUBSET Jobs : Delivery!Enqueue(S)) => Delivery!Next
  BY DEF Delivery!Next
<1>. QED BY <1>1, <1>2, <1>3, <1>4, <1>5, <1>6, <1>7, <1>8, <1>9, <1>10, <1>11 DEF Next

LEMMA ContractInit == Init => ContractInv /\ Delivery!Init /\ Delivery!FateInv
<1>. SUFFICES ASSUME Init PROVE ContractInv /\ Delivery!Init /\ Delivery!FateInv
  OBVIOUS
<1>1. TransportInv
  BY InitInv
<1>2. mem.attempts = {} /\ reported = {} /\ removed = {} /\ lost = {} /\ \A j \in Jobs : mem.held[j] = 0
  BY DEF Init
<1>3. Owning(mem) /\ Owing(mem) = {}
  BY <1>2 DEF Owning, Owing
<1>4. \A j \in Jobs : Births(mem, j) = 0
  <2>. TAKE j \in Jobs
  <2>1. \A i \in 1 .. MaxEnqueues : mem.rec[j][i].state = "unborn"
    BY DEF Init, Unborn
  <2>2. {i \in 1 .. MaxEnqueues : mem.rec[j][i].state # "unborn"} = {}
    BY <2>1
  <2>. QED BY <2>2, FS_EmptySet DEF Births
<1>5. Place = [j \in Jobs |-> "none"] /\ [j \in Jobs |-> Births(mem, j)] = [j \in Jobs |-> 0]
  BY <1>2, <1>4 DEF Place
<1>6. Delivery!Init
  BY <1>2, <1>3, <1>5 DEF Delivery!Init, Owing
<1>7. Delivery!FateInv
  BY <1>6 DEF Delivery!Init, Delivery!FateInv, Delivery!TypeOK, Delivery!OneFate,
     Delivery!NoneAhead, Delivery!Past
<1>. QED BY <1>1, <1>3, <1>6, <1>7 DEF ContractInv

LEMMA ContractStep ==
  ContractInv /\ Delivery!FateInv /\ [Next]_vars /\ [Timely]_vars =>
    ContractInv' /\ Delivery!FateInv' /\ [Delivery!Next]_(Delivery!vars)
<1>. SUFFICES ASSUME ContractInv, Delivery!FateInv, [Next]_vars, [Timely]_vars
              PROVE  ContractInv' /\ Delivery!FateInv' /\ [Delivery!Next]_(Delivery!vars)
  OBVIOUS
<1>1. TransportInv'
  BY StepInv DEF ContractInv
<1>2. Owning(mem') /\ [Delivery!Next]_(Delivery!vars)
  <2>1. CASE Timely
    BY <2>1, ContractNext
  <2>2. CASE UNCHANGED vars
    <3>1. UNCHANGED <<mem, fates>>
      BY <2>2 DEF vars, fates
    <3>. QED BY <3>1, IdleContract DEF Delivery!Next
  <2>. QED BY <2>1, <2>2
<1>3. Delivery!FateInv'
  BY <1>2, Delivery!FateNext
<1>. QED BY <1>1, <1>2, <1>3 DEF ContractInv

(* The transport keeps the delivery contract as long as no handle removes a *)
(* record made after it took hold of the id: then the attempt of a later    *)
(* record ends against a map that lacks it, which the contract forbids.     *)
THEOREM DeliversCorrect == Spec /\ [][Timely]_vars => Delivers
BY ContractInit, ContractStep, PTL DEF Spec, Delivers, Delivery!Spec

(* Then every record that enters the map has exactly one fate: its terminal *)
(* callback is owed or has returned, a handle or the failure of a flow       *)
(* deleted it, or the close of the transport discarded it.                  *)
THEOREM FatesCorrect == Spec /\ [][Timely]_vars => []Delivery!OneFate
<1>1. Delivery!FateInv => Delivery!OneFate
  BY DEF Delivery!FateInv
<1>. QED BY <1>1, ContractInit, ContractStep, PTL DEF Spec

(* Ids that are enqueued once, or clients that hold no handle, need nothing *)
(* more: the contract holds in every behaviour.                             *)
THEOREM DeliversOnce ==
  ASSUME MaxEnqueues = 1 \/ Handles = {}
  PROVE  Spec => Delivers
<1>1. TransportInv /\ [Next]_vars => [Timely]_vars
  <2>. SUFFICES ASSUME TransportInv, NEW h \in Handles, RemoveJob(h)
                PROVE  mem.held[handle[h][1]] \in {0, handle[h][2]}
    BY DEF Timely
  <2>1. MaxEnqueues = 1 /\ handle[h] \in Refs /\ mem.held \in [Jobs -> 0 .. MaxEnqueues]
    BY DEF TransportInv, TypeOK, RemoveJob
  <2>2. handle[h][1] \in Jobs /\ handle[h][2] = 1 /\ mem.held[handle[h][1]] \in 0 .. 1
    BY <2>1 DEF Refs
  <2>. QED BY <2>2
<1>2. Spec => [][Timely]_vars
  BY <1>1, TransportInvariant, PTL DEF Spec
<1>. QED BY <1>2, DeliversCorrect, PTL

-----------------------------------------------------------------------------
(* The in-process world: what a step of the transport leaves of what the    *)
(* runs of the history count on.                                            *)

(* What was removed is not in the map again: a later record of the id is.   *)
Fresh(m, gone) ==
  \A j \in Jobs, i \in Insertions : <<j, i>> \in gone => i <= Births(m, j) /\ m.held[j] # i

(* The map keeps the ids but for those of S, and the handlers that run are   *)
(* still there but for those of T.                                         *)
Lasting(m, n, S, T) ==
  /\ \A j \in Jobs \ S : m.held[j] # 0 => n.held[j] # 0
  /\ \A a \in m.attempts \ T : a.phase = "process" => a \in n.attempts

LEMMA FreshGrown ==
  ASSUME NEW m, NEW X, NEW open, Sound(m, X, open), NEW n, NEW Y, NEW still, Sound(n, Y, still),
         Kept(m, n), Grown(m, n), NEW gone, Fresh(m, gone)
  PROVE  Fresh(n, gone)
<1>. SUFFICES ASSUME NEW j \in Jobs, NEW i \in Insertions, <<j, i>> \in gone
              PROVE  i <= Births(n, j) /\ n.held[j] # i
  BY DEF Fresh
<1>1. i <= Births(m, j) /\ m.held[j] # i /\ i \in Nat /\ i # 0
  BY ConstantsAssumption DEF Fresh, Insertions
<1>2. Births(m, j) \in Nat /\ (n.held[j] # 0 => n.held[j] = Births(n, j))
  BY HeldBirths DEF Held
<1>3. CASE m.held[j] = 0 /\ n.held[j] # 0
  <2>1. Births(n, j) = Births(m, j) + 1
    BY <1>3 DEF Grown
  <2>. QED BY <1>1, <1>2, <1>3, <2>1
<1>4. CASE ~(m.held[j] = 0 /\ n.held[j] # 0)
  <2>1. Births(n, j) = Births(m, j) /\ n.held[j] \in {0, m.held[j]}
    BY <1>4 DEF Grown, Kept
  <2>. QED BY <1>1, <2>1
<1>. QED BY <1>3, <1>4

LEMMA FreshLess ==
  ASSUME NEW m, NEW X, NEW open, Sound(m, X, open), NEW gone, Fresh(m, gone), NEW n, NEW more,
         \A j \in Jobs : Births(n, j) = Births(m, j) /\ n.held[j] \in {0, m.held[j]},
         \A j \in Jobs, i \in Insertions : <<j, i>> \in more => <<j, i>> \in gone \/ (m.held[j] = i /\ n.held[j] = 0)
  PROVE  Fresh(n, more)
<1>. SUFFICES ASSUME NEW j \in Jobs, NEW i \in Insertions, <<j, i>> \in more
              PROVE  i <= Births(n, j) /\ n.held[j] # i
  BY DEF Fresh
<1>1. i \in Nat /\ i # 0 /\ Births(m, j) \in Nat /\ (m.held[j] # 0 => m.held[j] = Births(m, j))
  BY HeldBirths, ConstantsAssumption DEF Held, Insertions
<1>2. CASE <<j, i>> \in gone
  BY <1>1, <1>2 DEF Fresh
<1>3. CASE m.held[j] = i /\ n.held[j] = 0
  BY <1>1, <1>3
<1>. QED BY <1>2, <1>3

LEMMA GrowthLasting ==
  ASSUME TransportInv, Fresh(mem, removed), Growth
  PROVE  Fresh(mem', removed') /\ Lasting(mem, mem', {}, {})
<1>1. Sound(mem, {}, transport = "open") /\ Sound(mem', {}, transport = "open") /\ removed' = removed
      /\ Kept(mem, mem') /\ Grown(mem, mem') /\ Joined(mem, mem')
  BY DEF TransportInv, Growth, fates
<1>2. Fresh(mem', removed)
  BY <1>1, FreshGrown
<1>. QED BY <1>1, <1>2 DEF Lasting, Kept, Joined

LEMMA ReturnLasting ==
  ASSUME TransportInv, Fresh(mem, removed), NEW a \in mem.attempts, Return(a)
  PROVE  Fresh(mem', removed') /\ Lasting(mem, mem', {}, {a}) /\ a.phase = "callback"
<1>. DEFINE m == Left(a)
<1>1. a.phase = "callback" /\ removed' = removed
  BY DEF Return
<1>2. m.rec = mem.rec /\ m.held = mem.held /\ m.attempts = mem.attempts \ {a} /\ Sound(mem, {}, transport = "open")
  BY <1>1, LeftFacts DEF TransportInv
<1>3. Alike(m, mem') /\ Joined(m, mem')
  BY ReturnJoined
<1>. HIDE DEF m
<1>4. \A j \in Jobs : Births(mem', j) = Births(mem, j) /\ mem'.held[j] = mem.held[j]
  <2>1. \A j \in Jobs : Births(mem', j) = Births(mem, j)
    BY <1>2, <1>3, BirthsAlike DEF Alike, Born
  <2>. QED BY <1>2, <1>3, <2>1 DEF Alike
<1>5. Fresh(mem', removed')
  BY <1>1, <1>2, <1>4, FreshLess
<1>. QED BY <1>1, <1>2, <1>3, <1>4, <1>5 DEF Lasting, Joined

LEMMA RetryLasting ==
  ASSUME TransportInv, Fresh(mem, removed), NEW a \in mem.attempts, Retry(a)
  PROVE  Fresh(mem', removed') /\ Lasting(mem, mem', {}, {a}) /\ a.phase = "process"
<1>1. /\ mem'.held = mem.held /\ mem'.attempts = (mem.attempts \ {a}) \cup {Answered(a, FALSE, FALSE)}
      /\ mem'.rec[a.job][a.inc].state = "delayed" /\ removed' = removed
      /\ \A k \in Jobs, l \in Insertions : ~(k = a.job /\ l = a.inc) => mem'.rec[k][l] = mem.rec[k][l]
      /\ a.phase = "process" /\ Sound(mem, {}, transport = "open")
  BY RetryFacts DEF TransportInv, fates
<1>2. mem.rec[a.job][a.inc].state = "active"
  BY <1>1, EndFacts
<1>3. \A j \in Jobs : Births(mem', j) = Births(mem, j)
  BY <1>1, <1>2, BirthsAlike DEF Born
<1>4. Fresh(mem', removed')
  BY <1>1, <1>3, FreshLess
<1>. QED BY <1>1, <1>4 DEF Lasting

(* The last attempt at a record ends.                                       *)
LEMMA OverFacts ==
  ASSUME TransportInv, NEW a \in mem.attempts, a.phase = "process", NEW ok \in BOOLEAN
  PROVE  /\ Sound(Over(a, ok, TRUE), {}, transport = "open") /\ Filled(Over(a, ok, TRUE), phase, {})
         /\ \A k \in Jobs : Over(a, ok, TRUE).held[k] = IF k = a.job THEN 0 ELSE mem.held[k]
         /\ \A k \in Jobs : Births(Over(a, ok, TRUE), k) = Births(mem, k)
         /\ mem.attempts \ {a} \subseteq Over(a, ok, TRUE).attempts
<1>. DEFINE done == TRUE
            how == ok
            n == Over(a, how, done)
<1>1. done \in BOOLEAN /\ how \in BOOLEAN
  OBVIOUS
<1>. HIDE DEF done, how
<1>2. Sound(n, {}, transport = "open") /\ Filled(n, phase, {})
  BY <1>1, DoneSound
<1>3. \A k \in Jobs : n.held[k] = IF k = a.job THEN 0 ELSE mem.held[k]
  BY <1>1, EndedFacts
<1>4. n.attempts = (mem.attempts \ {a}) \cup {Answered(a, how, done)}
  BY <1>1, EndedFacts
<1>5. \A k \in Jobs, l \in Insertions : n.rec[k][l].state = mem.rec[k][l].state
  BY <1>1, EndedFacts
<1>. HIDE DEF n
<1>6. \A k \in Jobs : Births(n, k) = Births(mem, k)
  BY <1>5, BirthsAlike DEF Born
<1>. QED BY <1>2, <1>3, <1>4, <1>6 DEF n, how, done

LEMMA SucceedLasting ==
  ASSUME TransportInv, Fresh(mem, removed), NEW a \in mem.attempts, Succeed(a)
  PROVE  Fresh(mem', removed') /\ Lasting(mem, mem', {a.job}, {a}) /\ a.phase = "process"
<1>1. a.phase = "process" /\ mem' = Over(a, TRUE, TRUE) /\ removed' = removed
  BY DEF Succeed, Over, fates
<1>2. /\ \A k \in Jobs : mem'.held[k] = IF k = a.job THEN 0 ELSE mem.held[k]
      /\ \A k \in Jobs : Births(mem', k) = Births(mem, k)
      /\ mem.attempts \ {a} \subseteq mem'.attempts
  <2>1. TRUE \in BOOLEAN
    OBVIOUS
  <2>. QED BY <1>1, <2>1, OverFacts
<1>4. Sound(mem, {}, transport = "open")
  BY DEF TransportInv
<1>5. Fresh(mem', removed')
  <2>1. /\ \A k \in Jobs : Births(mem', k) = Births(mem, k) /\ mem'.held[k] \in {0, mem.held[k]}
        /\ \A k \in Jobs, i \in Insertions : <<k, i>> \in removed' => <<k, i>> \in removed \/ (mem.held[k] = i /\ mem'.held[k] = 0)
    BY <1>1, <1>2
  <2>. QED BY <1>4, <2>1, FreshLess
<1>. QED BY <1>1, <1>2, <1>5 DEF Lasting

(* What falls with a failure is told by what it removes.                    *)
LEMMA FailLasting ==
  ASSUME TransportInv, Fresh(mem, removed), NEW a \in mem.attempts, Fail(a)
  PROVE  /\ Fresh(mem', removed') /\ a.phase = "process"
         /\ Lasting(mem, mem', {a.job} \cup {r[1] : r \in removed' \ removed}, {a})
<1>. DEFINE m == Over(a, FALSE, TRUE)
            W == Felled(m, Ref(a))
<1>0. TransportInv /\ Sound(mem, {}, transport = "open") /\ OneOpen(phase) /\ mem \in Memory
  BY DEF TransportInv, Sound
<1>1. a.phase = "process" /\ mem' = Settled(m, Ref(a)) /\ removed' = removed \cup Current(m, W)
  BY DEF Fail, Over
<1>2. /\ Sound(m, {}, transport = "open") /\ Filled(m, phase, {})
      /\ \A k \in Jobs : m.held[k] = IF k = a.job THEN 0 ELSE mem.held[k]
      /\ \A k \in Jobs : Births(m, k) = Births(mem, k)
      /\ mem.attempts \ {a} \subseteq m.attempts
  <2>1. FALSE \in BOOLEAN
    OBVIOUS
  <2>. QED BY <1>0, <1>1, <2>1, OverFacts
<1>3. Ref(a) \in Refs /\ a.job \in Jobs
  BY <1>0, <1>1, EndFacts
<1>. HIDE DEF m
<1>4. m \in Memory /\ InTurn(m) /\ "attempts" \in DOMAIN m
  BY <1>2 DEF Sound, Memory
<1>5. \A q \in W : q \in Held(m)
  BY <1>3, <1>4, FelledFacts
<1>6. /\ \A j \in Jobs, i \in Insertions : Born(mem', j, i) <=> Born(m, j, i)
      /\ \A j \in Jobs : mem'.held[j] = IF j \in W THEN 0 ELSE m.held[j]
      /\ Joined(m, mem')
  BY <1>0, <1>1, <1>2, <1>3, <1>4, SettledBirths, SettledJoined
<1>. HIDE DEF W
<1>7. \A j \in Jobs : Births(mem', j) = Births(mem, j)
  BY <1>2, <1>6, BirthsAlike
<1>8. \A j \in W : j \in Jobs /\ j # a.job /\ mem.held[j] # 0 /\ m.held[j] = mem.held[j]
  BY <1>2, <1>5 DEF Held
<1>9. \A j \in Jobs, i \in Insertions : <<j, i>> \in Current(m, W) => mem.held[j] = i /\ mem'.held[j] = 0
  BY <1>6, <1>8 DEF Current
<1>10. Fresh(mem', removed')
  <2>1. /\ \A j \in Jobs : Births(mem', j) = Births(mem, j) /\ mem'.held[j] \in {0, mem.held[j]}
        /\ \A j \in Jobs, i \in Insertions : <<j, i>> \in removed' => <<j, i>> \in removed \/ (mem.held[j] = i /\ mem'.held[j] = 0)
    BY <1>1, <1>2, <1>6, <1>7, <1>9
  <2>. QED BY <1>0, <2>1, FreshLess
<1>11. \A j \in W : <<j, mem.held[j]>> \in removed' \ removed
  <2>. TAKE j \in W
  <2>1. <<j, mem.held[j]>> \in Current(m, W)
    BY <1>8 DEF Current
  <2>2. mem.held[j] \in Insertions
    BY <1>0, <1>8, MemFacts
  <2>. QED BY <1>1, <1>8, <2>1, <2>2 DEF Fresh
<1>12. \A j \in W : j \in {r[1] : r \in removed' \ removed}
  <2>. TAKE j \in W
  <2>1. <<j, mem.held[j]>>[1] = j /\ <<j, mem.held[j]>> \in removed' \ removed
    BY <1>11
  <2>. QED BY <2>1
<1>13. Lasting(mem, mem', {a.job} \cup {r[1] : r \in removed' \ removed}, {a})
  BY <1>2, <1>6, <1>12 DEF Lasting, Joined
<1>. QED BY <1>1, <1>10, <1>13

LEMMA RemoveLasting ==
  ASSUME TransportInv, Fresh(mem, removed), NEW h \in Handles, RemoveJob(h)
  PROVE  /\ Fresh(mem', removed') /\ Lasting(mem, mem', {handle[h][1]}, {})
         /\ mem.rec[handle[h][1]][handle[h][2]].state = "active" => mem' = mem
<1>. DEFINE r == handle[h]
            d == Dropped(r)
            open == transport = "open"
<1>0. /\ TransportInv /\ TypeOK /\ Sound(mem, {}, open) /\ OneOpen(phase) /\ mem \in Memory
  BY DEF TransportInv, Sound
<1>1. r \in Refs /\ r[1] \in Jobs
  BY <1>0 DEF RemoveJob, TypeOK, Refs
<1>2. CASE mem.rec[r[1]][r[2]].state = "active"
  <2>1. mem' = mem /\ removed' = removed
    BY <1>2 DEF RemoveJob
  <2>. QED BY <2>1 DEF Lasting, Fresh
<1>3. CASE mem.rec[r[1]][r[2]].state # "active"
  <2>1. mem' = Counted(d, mem.rec[r[1]][r[2]].parent) /\ removed' = removed \cup Current(mem, {r[1]} \cap Held(mem))
    BY <1>3 DEF RemoveJob, Removed, Dropped, Untimed
  <2>. HIDE DEF r
  <2>2. /\ Sound(d, {}, open) /\ Filled(d, phase, {}) /\ mem.rec[r[1]][r[2]].parent \in Refs \cup {None}
        /\ d.attempts = mem.attempts /\ \A k \in Jobs : d.held[k] = IF k = r[1] THEN 0 ELSE mem.held[k]
        /\ \A k \in Jobs, l \in Insertions : d.rec[k][l].state = mem.rec[k][l].state
    BY <1>0, <1>1, DroppedFacts
  <2>. HIDE DEF d
  <2>3. "attempts" \in DOMAIN d
    BY <2>2 DEF Sound, Memory
  <2>4. Alike(d, mem') /\ Joined(d, mem')
    BY <1>0, <2>1, <2>2, <2>3, CountedFacts, CountedJoined
  <2>5. \A j \in Jobs : Births(mem', j) = Births(mem, j)
    BY <2>2, <2>4, BirthsAlike DEF Alike, Born
  <2>6. \A j \in Jobs : mem'.held[j] = IF j = r[1] THEN 0 ELSE mem.held[j]
    BY <2>2, <2>4 DEF Alike
  <2>7. \A j \in Jobs, i \in Insertions : <<j, i>> \in removed' => <<j, i>> \in removed \/ (mem.held[j] = i /\ mem'.held[j] = 0)
    BY <2>1, <2>6 DEF Current
  <2>8. Fresh(mem', removed')
    <3>1. \A j \in Jobs : Births(mem', j) = Births(mem, j) /\ mem'.held[j] \in {0, mem.held[j]}
      BY <2>5, <2>6
    <3>. QED BY <1>0, <2>7, <3>1, FreshLess
  <2>9. Lasting(mem, mem', {r[1]}, {})
    BY <2>2, <2>4, <2>6 DEF Lasting, Joined
  <2>. QED BY <1>3, <2>8, <2>9 DEF r
<1>. QED BY <1>2, <1>3

LEMMA IdleLasting ==
  ASSUME Fresh(mem, removed), UNCHANGED <<mem, removed>>
  PROVE  Fresh(mem', removed') /\ Lasting(mem, mem', {}, {})
BY DEF Fresh, Lasting

LEMMA CloseTransportLasting ==
  ASSUME TransportInv, Fresh(mem, removed), CloseTransport
  PROVE  Fresh(mem', removed') /\ Lasting(mem, mem', {}, {})
<1>1. /\ mem'.held = mem.held /\ mem'.attempts = mem.attempts
      /\ \A j \in Jobs, i \in Insertions : Born(mem', j, i) <=> Born(mem, j, i)
  BY StoppedFacts DEF Born
<1>2. removed' = removed
  BY DEF CloseTransport, fates
<1>3. \A j \in Jobs : Births(mem', j) = Births(mem, j)
  BY <1>1, BirthsAlike
<1>. QED BY <1>1, <1>2, <1>3 DEF Fresh, Lasting

LEMMA TransportClosedLasting ==
  ASSUME TransportInv, Fresh(mem, removed), TransportClosed
  PROVE  Fresh(mem', removed') /\ Lasting(mem, mem', {j \in Jobs : \E n \in Insertions : <<j, n>> \in lost'}, {})
<1>0. Sound(mem, {}, transport = "open") /\ mem \in Memory
  BY DEF TransportInv, Sound
<1>1. /\ \A c \in Consumers : Drained(c)
      /\ mem' = Deleted(mem, Jobs) /\ lost' = lost \cup Current(mem, Held(mem)) /\ removed' = removed
  BY DEF TransportClosed
<1>2. mem.attempts = {}
  BY <1>0, <1>1, MemFacts, AttemptFacts DEF Drained
<1>3. mem'.rec = mem.rec /\ \A j \in Jobs : mem'.held[j] = 0
  BY <1>0, <1>1, DeletedFacts
<1>4. \A j \in Jobs : Births(mem', j) = Births(mem, j)
  BY <1>3 DEF Births
<1>5. Fresh(mem', removed')
  BY <1>0, <1>1, <1>3, <1>4, FreshLess
<1>6. \A j \in Jobs : mem.held[j] # 0 => mem.held[j] \in Insertions /\ <<j, mem.held[j]>> \in lost'
  BY <1>0, <1>1, MemFacts DEF Current, Held
<1>. QED BY <1>2, <1>5, <1>6 DEF Lasting

-----------------------------------------------------------------------------
(* The invariant of the world.  That a cancel has read a run or holds its    *)
(* handle does not keep the run on its way: it may find it active.          *)
Covering(j) ==
  \E c \in Clients : calls[c].at \in {"enqueue", "flow", "cancel"} /\ j \in Covers(calls[c])

Tended(j) ==
  \/ mem.held[j] # 0
  \/ \E a \in mem.attempts : a.job = j /\ a.phase = "process"
  \/ Covering(j)
  \/ j \in astray
  \/ \E n \in Insertions : <<j, n>> \in lost

(* Only an enqueue has rows to write, and a remove has a handle of its job.  *)
CallsRight ==
  \A c \in Clients :
    /\ calls[c].rowless \subseteq Covers(calls[c])
    /\ calls[c].rowless # {} => calls[c].at \in {"enqueue", "flow"}
    /\ calls[c].at = "remove" => handle[c] # None /\ handle[c][1] = calls[c].job

RowsRight == \A j \in Jobs : rows[j] \in OnTheWay => Tended(j)

Orderly ==
  /\ WorldTypeOK /\ CallsRight /\ RowsRight
  /\ Fresh(mem, removed) /\ \A a \in started : a.phase = "process"

WorldInv == TransportInv /\ Orderly

LEMMA CallFacts ==
  ASSUME WorldTypeOK, NEW c \in Clients
  PROVE  /\ calls[c] \in Call /\ calls[c].job \in Jobs /\ calls[c].rowless \in SUBSET Jobs
         /\ calls[c].at \in {"idle", "enqueue", "flow", "find", "remove", "cancel"}
         /\ Covers(calls[c]) \in SUBSET Jobs
<1>1. /\ calls[c] \in Call /\ calls[c].job \in Jobs /\ calls[c].rowless \in SUBSET Jobs
      /\ calls[c].at \in {"idle", "enqueue", "flow", "find", "remove", "cancel"}
  BY DEF WorldTypeOK, Call
<1>2. \A j \in Jobs : ToSet(Preorder[j]) \in SUBSET Jobs
  BY FlowAssumption DEF ToSet
<1>. QED BY <1>1, <1>2 DEF Covers

LEMMA NoCallFacts == NoCall \in Call /\ NoCall.at = "idle" /\ NoCall.rowless = {}
BY WorldAssumption DEF NoCall, Call

(* What one client does to its call.                                       *)
LEMMA CallsKept ==
  ASSUME WorldTypeOK, NEW c \in Clients, NEW d \in Call, calls' = [calls EXCEPT ![c] = d],
         calls[c].at \in {"enqueue", "flow", "cancel"} =>
           d.at \in {"enqueue", "flow", "cancel"} /\ Covers(calls[c]) \subseteq Covers(d)
  PROVE  /\ calls' \in [Clients -> Call] /\ calls'[c] = d /\ \A e \in Clients \ {c} : calls'[e] = calls[e]
         /\ \A j \in Jobs : Covering(j) => Covering(j)'
<1>1. /\ calls' \in [Clients -> Call] /\ calls'[c] = d /\ \A e \in Clients \ {c} : calls'[e] = calls[e]
  BY DEF WorldTypeOK
<1>2. ASSUME NEW j \in Jobs, Covering(j) PROVE Covering(j)'
  <2>1. PICK e \in Clients : calls[e].at \in {"enqueue", "flow", "cancel"} /\ j \in Covers(calls[e])
    BY <1>2 DEF Covering
  <2>2. calls'[e].at \in {"enqueue", "flow", "cancel"} /\ j \in Covers(calls'[e])
    BY <1>1, <2>1
  <2>3. Covers(calls[e])' = Covers(calls'[e])
    BY DEF Covers
  <2>. QED BY <2>2, <2>3 DEF Covering
<1>. QED BY <1>1, <1>2

(* What a step of the transport leaves to a run.                            *)
LEMMA TendedLasts ==
  ASSUME NEW S, NEW T, Lasting(mem, mem', S, T), NEW j \in Jobs \ S, \A a \in T : a.phase = "process" => a.job # j,
         Covering(j) => Covering(j)', j \in astray => j \in astray', lost \subseteq lost', Tended(j)
  PROVE  Tended(j)'
<1>1. CASE mem.held[j] # 0
  BY <1>1 DEF Lasting, Tended
<1>2. CASE \E a \in mem.attempts : a.job = j /\ a.phase = "process"
  BY <1>2 DEF Lasting, Tended
<1>3. CASE Covering(j) \/ j \in astray \/ \E n \in Insertions : <<j, n>> \in lost
  BY <1>3 DEF Tended
<1>. QED BY <1>1, <1>2, <1>3 DEF Tended

(* The steps of the transport alone.                                       *)
LEMMA TransportingWorld ==
  ASSUME WorldInv, UNCHANGED worldVars, UNCHANGED handle, Fresh(mem', removed'), lost \subseteq lost',
         NEW S, NEW T, Lasting(mem, mem', S, T), \A a \in T : a.phase = "callback",
         \A j \in S : \E n \in Insertions : <<j, n>> \in lost'
  PROVE  Orderly'
<1>0. Orderly /\ UNCHANGED <<rows, calls, started, made, astray>>
  BY DEF WorldInv, worldVars
<1>1. WorldTypeOK' /\ CallsRight' /\ \A a \in started' : a.phase = "process"
  <2>1. started \subseteq mem'.attempts
    BY <1>0 DEF Lasting, Orderly, WorldTypeOK
  <2>2. WorldTypeOK'
    BY <1>0, <2>1 DEF Orderly, WorldTypeOK
  <2>3. CallsRight'
    BY <1>0 DEF Orderly, CallsRight, Covers
  <2>. QED BY <1>0, <2>2, <2>3 DEF Orderly
<1>2. RowsRight'
  <2>. SUFFICES ASSUME NEW j \in Jobs, rows'[j] \in OnTheWay PROVE Tended(j)'
    BY DEF RowsRight
  <2>1. Tended(j) /\ (Covering(j) => Covering(j)') /\ astray' = astray
    BY <1>0 DEF Orderly, RowsRight, Covering, Covers
  <2>2. CASE j \in S
    BY <2>2 DEF Tended
  <2>3. CASE j \notin S
    BY <2>1, <2>3, TendedLasts
  <2>. QED BY <2>2, <2>3
<1>. QED BY <1>1, <1>2 DEF Orderly

-----------------------------------------------------------------------------
(* The steps of clients.                                                    *)
Statuses == {"none"} \cup OnTheWay \cup Ended

LEMMA ClientWorld ==
  ASSUME WorldInv, NEW c \in Clients, NEW d \in Call, calls' = [calls EXCEPT ![c] = d],
         d.rowless \subseteq Covers(d), d.rowless # {} => d.at \in {"enqueue", "flow"},
         d.at = "remove" => handle'[c] # None /\ handle'[c][1] = d.job,
         \A e \in Clients \ {c} : handle'[e] = handle[e],
         made' \in 0 .. MaxCalls, started' = started, astray' \in SUBSET Jobs, rows' \in [Jobs -> Statuses],
         NEW S, Lasting(mem, mem', S, {}), Fresh(mem', removed'), RowsRight'
  PROVE  Orderly'
<1>0. WorldTypeOK /\ CallsRight /\ started \subseteq mem.attempts /\ \A a \in started : a.phase = "process"
  BY DEF WorldInv, Orderly, WorldTypeOK
<1>1. /\ calls' \in [Clients -> Call] /\ calls'[c] = d /\ \A e \in Clients \ {c} : calls'[e] = calls[e]
  BY <1>0 DEF WorldTypeOK
<1>2. started' \subseteq mem'.attempts
  BY <1>0 DEF Lasting
<1>3. WorldTypeOK'
  BY <1>1, <1>2 DEF WorldTypeOK, Statuses
<1>4. CallsRight'
  <2>. SUFFICES ASSUME NEW e \in Clients
                PROVE  /\ calls'[e].rowless \subseteq Covers(calls'[e])
                       /\ calls'[e].rowless # {} => calls'[e].at \in {"enqueue", "flow"}
                       /\ calls'[e].at = "remove" => handle'[e] # None /\ handle'[e][1] = calls'[e].job
    BY DEF CallsRight, Covers
  <2>1. CASE e = c
    BY <1>1, <2>1
  <2>2. CASE e # c
    BY <1>0, <1>1, <2>2 DEF CallsRight
  <2>. QED BY <2>1, <2>2
<1>. QED BY <1>0, <1>3, <1>4 DEF Orderly

(* The rows of a step that leaves the transport alone.                      *)
LEMMA RowsKept ==
  ASSUME WorldInv, UNCHANGED <<mem, lost, astray>>,
         \A j \in Jobs : rows'[j] \in OnTheWay =>
           Covering(j)' \/ (rows[j] \in OnTheWay /\ (Covering(j) => Covering(j)'))
  PROVE  RowsRight'
<1>. SUFFICES ASSUME NEW j \in Jobs, rows'[j] \in OnTheWay PROVE Tended(j)'
  BY DEF RowsRight
<1>1. CASE Covering(j)'
  BY <1>1 DEF Tended
<1>2. CASE rows[j] \in OnTheWay /\ (Covering(j) => Covering(j)')
  BY <1>2 DEF WorldInv, Orderly, RowsRight, Tended
<1>. QED BY <1>1, <1>2

LEMMA StillFacts ==
  ASSUME WorldInv, UNCHANGED vars
  PROVE  /\ UNCHANGED <<mem, lost, handle>> /\ Lasting(mem, mem', {}, {}) /\ Fresh(mem', removed')
         /\ WorldTypeOK /\ CallsRight /\ made \in 0 .. MaxCalls /\ astray \in SUBSET Jobs /\ rows \in [Jobs -> Statuses]
         /\ calls \in [Clients -> Call]
<1>1. UNCHANGED <<mem, lost, handle, removed>>
  BY DEF vars
<1>2. WorldTypeOK /\ CallsRight /\ Fresh(mem, removed)
  BY DEF WorldInv, Orderly
<1>3. Lasting(mem, mem', {}, {}) /\ Fresh(mem', removed')
  BY <1>1, <1>2, IdleLasting
<1>. QED BY <1>1, <1>2, <1>3 DEF WorldTypeOK, Statuses

LEMMA MakesWorld ==
  ASSUME WorldInv, NEW c \in Clients, NEW d \in Call, Makes(c, d), UNCHANGED <<vars, rows, started, astray>>,
         d.rowless \subseteq Covers(d), d.rowless # {} => d.at \in {"enqueue", "flow"}, d.at # "remove"
  PROVE  Orderly'
<1>0. UNCHANGED vars /\ UNCHANGED <<rows, started, astray>>
  OBVIOUS
<1>1. /\ UNCHANGED <<mem, lost, handle>> /\ Lasting(mem, mem', {}, {}) /\ Fresh(mem', removed')
      /\ WorldTypeOK /\ made \in 0 .. MaxCalls /\ astray \in SUBSET Jobs /\ rows \in [Jobs -> Statuses]
  BY <1>0, StillFacts
<1>2. calls[c].at = "idle" /\ calls' = [calls EXCEPT ![c] = d] /\ made < MaxCalls /\ made' = made + 1
  BY NoCallFacts DEF Makes
<1>3. made' \in 0 .. MaxCalls
  BY <1>1, <1>2, WorldAssumption
<1>4. \A j \in Jobs : Covering(j) => Covering(j)'
  BY <1>1, <1>2, CallsKept
<1>5. RowsRight'
  BY <1>0, <1>1, <1>4, RowsKept
<1>. QED BY <1>0, <1>1, <1>2, <1>3, <1>5, ClientWorld

LEMMA CallEnqueueWorld ==
  ASSUME WorldInv, NEW c \in Clients, NEW j \in Jobs, CallEnqueue(c, j)
  PROVE  Orderly'
<1>. DEFINE d == [at |-> "enqueue", job |-> j, rowless |-> {j}]
<1>1. d \in Call /\ d.at = "enqueue" /\ d.rowless = {j} /\ d.job = j
  BY DEF Call
<1>2. Makes(c, d) /\ UNCHANGED <<vars, rows, started, astray>>
  BY DEF CallEnqueue
<1>. HIDE DEF d
<1>3. d.rowless \subseteq Covers(d) /\ d.at \in {"enqueue", "flow"} /\ d.at # "remove"
  BY <1>1 DEF Covers
<1>. QED BY <1>1, <1>2, <1>3, MakesWorld

LEMMA CallFlowWorld ==
  ASSUME WorldInv, NEW c \in Clients, NEW j \in Jobs, CallFlow(c, j)
  PROVE  Orderly'
<1>. DEFINE K == ToSet(Preorder[j])
            d == [at |-> "flow", job |-> j, rowless |-> K]
<1>1. K \in SUBSET Jobs
  BY FlowAssumption DEF ToSet
<1>2. Makes(c, d) /\ UNCHANGED <<vars, rows, started, astray>>
  BY DEF CallFlow
<1>3. Covers(d) = K
  BY DEF Covers
<1>. HIDE DEF K
<1>4. d \in Call /\ d.at = "flow" /\ d.rowless = K
  BY <1>1 DEF Call
<1>. HIDE DEF d
<1>5. d.rowless \subseteq Covers(d) /\ d.at \in {"enqueue", "flow"} /\ d.at # "remove"
  BY <1>3, <1>4
<1>. QED BY <1>2, <1>4, <1>5, MakesWorld

LEMMA CallCancelWorld ==
  ASSUME WorldInv, NEW c \in Clients, NEW j \in Jobs, CallCancel(c, j)
  PROVE  Orderly'
<1>. DEFINE d == [at |-> "find", job |-> j, rowless |-> {}]
<1>1. d \in Call /\ d.at = "find" /\ d.rowless = {}
  BY DEF Call
<1>2. Makes(c, d) /\ UNCHANGED <<vars, rows, started, astray>>
  BY DEF CallCancel
<1>. HIDE DEF d
<1>3. d.rowless \subseteq Covers(d) /\ d.rowless = {} /\ d.at # "remove"
  BY <1>1
<1>. QED BY <1>1, <1>2, <1>3, MakesWorld

LEMMA WriteRowWorld ==
  ASSUME WorldInv, NEW c \in Clients, NEW j \in Jobs, WriteRow(c, j)
  PROVE  Orderly'
<1>. DEFINE d == [calls[c] EXCEPT !.rowless = @ \ {j}]
            s == Handled(j, enqueueStatus(calls[c], j))
<1>0. UNCHANGED vars /\ UNCHANGED <<started, made, astray>> /\ j \in calls[c].rowless
      /\ rows' = [rows EXCEPT ![j] = s] /\ calls' = [calls EXCEPT ![c] = d]
  BY DEF WriteRow
<1>1. /\ UNCHANGED <<mem, lost, handle>> /\ Lasting(mem, mem', {}, {}) /\ Fresh(mem', removed')
      /\ WorldTypeOK /\ CallsRight /\ made \in 0 .. MaxCalls /\ astray \in SUBSET Jobs /\ rows \in [Jobs -> Statuses]
  BY <1>0, StillFacts
<1>2. calls[c] \in Call /\ calls[c].rowless \subseteq Covers(calls[c]) /\ calls[c].at \in {"enqueue", "flow"}
  BY <1>0, <1>1, CallFacts DEF CallsRight
<1>3. d \in Call /\ d.at = calls[c].at /\ d.job = calls[c].job /\ d.rowless = calls[c].rowless \ {j}
  BY <1>2 DEF Call
<1>4. s \in Statuses
  BY <1>1 DEF Handled, enqueueStatus, Statuses, OnTheWay
<1>. HIDE DEF d, s
<1>5. Covers(d) = Covers(calls[c])
  BY <1>3 DEF Covers
<1>6. \A k \in Jobs : Covering(k) => Covering(k)'
  BY <1>0, <1>1, <1>2, <1>3, <1>5, CallsKept
<1>7. Covering(j)
  BY <1>0, <1>2 DEF Covering
<1>8. rows' \in [Jobs -> Statuses] /\ \A k \in Jobs : k # j => rows'[k] = rows[k]
  BY <1>0, <1>1, <1>4
<1>9. RowsRight'
  BY <1>0, <1>1, <1>6, <1>7, <1>8, RowsKept
<1>10. d.rowless \subseteq Covers(d) /\ d.at \in {"enqueue", "flow"} /\ d.at # "remove"
  BY <1>2, <1>3, <1>5
<1>. QED BY <1>0, <1>1, <1>3, <1>8, <1>9, <1>10, ClientWorld

LEMMA InsertWorld ==
  ASSUME WorldInv, NEW c \in Clients, Insert(c)
  PROVE  Orderly'
<1>. DEFINE j == calls[c].job
<1>0. /\ calls[c].at \in {"enqueue", "flow"} /\ calls' = [calls EXCEPT ![c] = NoCall]
      /\ astray' = (astray \cup Covers(calls[c])) \ Held(mem') /\ UNCHANGED <<rows, started, made>>
      /\ UNCHANGED vars \/ EnqueueFlow(j) \/ Enqueue(j)
  BY DEF Insert
<1>1. /\ WorldTypeOK /\ CallsRight /\ RowsRight /\ TransportInv /\ Fresh(mem, removed)
      /\ made \in 0 .. MaxCalls /\ astray \in SUBSET Jobs /\ rows \in [Jobs -> Statuses] /\ calls \in [Clients -> Call]
  BY DEF WorldInv, Orderly, WorldTypeOK, Statuses
<1>2. j \in Jobs /\ Covers(calls[c]) \in SUBSET Jobs
  BY <1>1, CallFacts
<1>. HIDE DEF j
<1>3. Lasting(mem, mem', {}, {}) /\ Fresh(mem', removed') /\ UNCHANGED <<handle, lost>>
  <2>1. CASE UNCHANGED vars
    BY <2>1, StillFacts
  <2>2. CASE EnqueueFlow(j)
    <3>1. UNCHANGED <<handle, lost>>
      BY <2>2 DEF EnqueueFlow, fates
    <3>. QED BY <1>1, <1>2, <2>2, <3>1, EnqueueFlowGrowth, GrowthLasting
  <2>3. CASE Enqueue(j)
    <3>1. UNCHANGED <<handle, lost>>
      BY <2>3 DEF Enqueue, fates
    <3>. QED BY <1>1, <1>2, <2>3, <3>1, EnqueueGrowth, GrowthLasting
  <2>. QED BY <1>0, <2>1, <2>2, <2>3
<1>4. RowsRight'
  <2>. SUFFICES ASSUME NEW k \in Jobs, rows'[k] \in OnTheWay PROVE Tended(k)'
    BY DEF RowsRight
  <2>1. Tended(k)
    BY <1>0, <1>1 DEF RowsRight
  <2>2. CASE mem'.held[k] # 0
    BY <2>2 DEF Tended
  <2>3. CASE mem'.held[k] = 0
    <3>1. k \notin Held(mem')
      BY <2>3 DEF Held
    <3>2. k \in astray => k \in astray'
      BY <1>0, <3>1
    <3>3. CASE k \in Covers(calls[c])
      <4>1. k \in astray'
        BY <1>0, <3>1, <3>3
      <4>. QED BY <4>1 DEF Tended
    <3>4. CASE k \notin Covers(calls[c])
      <4>1. Covering(k) => Covering(k)'
        <5>. SUFFICES ASSUME NEW e \in Clients, calls[e].at \in {"enqueue", "flow", "cancel"}, k \in Covers(calls[e])
                      PROVE  Covering(k)'
          BY DEF Covering
        <5>1. calls'[e] = calls[e]
          BY <1>0, <1>1, <3>4
        <5>2. Covers(calls[e])' = Covers(calls'[e])
          BY DEF Covers
        <5>. QED BY <5>1, <5>2 DEF Covering
      <4>. QED BY <1>3, <2>1, <3>2, <4>1, TendedLasts
    <3>. QED BY <3>3, <3>4
  <2>. QED BY <2>2, <2>3
<1>5. astray' \in SUBSET Jobs
  BY <1>0, <1>1, <1>2
<1>6. /\ NoCall \in Call /\ NoCall.rowless \subseteq Covers(NoCall) /\ NoCall.rowless = {}
      /\ NoCall.at # "remove"
  BY NoCallFacts
<1>. QED BY <1>0, <1>1, <1>3, <1>4, <1>5, <1>6, ClientWorld

LEMMA FindWorld ==
  ASSUME WorldInv, NEW c \in Clients, Find(c)
  PROVE  Orderly'
<1>. DEFINE j == calls[c].job
            to(at) == [calls[c] EXCEPT !.at = at]
<1>0. calls[c].at = "find" /\ UNCHANGED <<rows, started, made, astray>>
  BY DEF Find
<1>1. /\ WorldTypeOK /\ CallsRight /\ Fresh(mem, removed) /\ TransportInv
      /\ made \in 0 .. MaxCalls /\ astray \in SUBSET Jobs /\ rows \in [Jobs -> Statuses]
  BY DEF WorldInv, Orderly, WorldTypeOK, Statuses
<1>2. calls[c] \in Call /\ calls[c].rowless = {} /\ j \in Jobs
  BY <1>0, <1>1, CallFacts DEF CallsRight
<1>3. \A at \in {"cancel", "remove"} : /\ to(at) \in Call /\ to(at).at = at /\ to(at).job = j /\ to(at).rowless = {}
  BY <1>2 DEF Call
<1>4. /\ UNCHANGED <<mem, lost, removed>> /\ \A e \in Clients \ {c} : handle'[e] = handle[e]
      /\ \E at \in {"cancel", "remove"} :
           /\ calls' = [calls EXCEPT ![c] = to(at)]
           /\ at = "remove" => handle'[c] # None /\ handle'[c][1] = j
  <2>1. CASE mem.held[j] = 0
    <3>1. calls' = [calls EXCEPT ![c] = to("cancel")] /\ UNCHANGED vars
      BY <2>1 DEF Find
    <3>2. UNCHANGED <<mem, lost, removed, handle>>
      BY <3>1 DEF vars, fates
    <3>. QED BY <3>1, <3>2
  <2>2. CASE mem.held[j] # 0
    <3>1. calls' = [calls EXCEPT ![c] = to("remove")] /\ GetJob(c, j)
      BY <2>2 DEF Find
    <3>2. UNCHANGED <<mem, lost, removed>> /\ handle' = [handle EXCEPT ![c] = <<j, mem.held[j]>>]
      BY <3>1 DEF GetJob, fates
    <3>3. handle \in [Handles -> Refs \cup {None}] /\ c \in Handles
      BY <1>1, WorldAssumption DEF TransportInv, TypeOK
    <3>4. handle'[c] = <<j, mem.held[j]>> /\ \A e \in Clients \ {c} : handle'[e] = handle[e]
      BY <3>2, <3>3, WorldAssumption
    <3>. QED BY <3>1, <3>2, <3>4 DEF None
  <2>. QED BY <2>1, <2>2
<1>. HIDE DEF j, to
<1>5. PICK at \in {"cancel", "remove"} :
        /\ calls' = [calls EXCEPT ![c] = to(at)]
        /\ at = "remove" => handle'[c] # None /\ handle'[c][1] = j
  BY <1>4
<1>6. Lasting(mem, mem', {}, {}) /\ Fresh(mem', removed')
  BY <1>1, <1>4, IdleLasting
<1>7. \A k \in Jobs : Covering(k) => Covering(k)'
  BY <1>0, <1>1, <1>3, <1>5, CallsKept
<1>8. RowsRight'
  BY <1>0, <1>4, <1>7, RowsKept
<1>9. to(at) \in Call /\ to(at).rowless \subseteq Covers(to(at)) /\ to(at).rowless = {}
      /\ (to(at).at = "remove" => handle'[c] # None /\ handle'[c][1] = to(at).job)
  BY <1>3, <1>5
<1>. QED BY <1>0, <1>1, <1>4, <1>5, <1>6, <1>8, <1>9, ClientWorld

LEMMA RemoveRunWorld ==
  ASSUME WorldInv, NEW c \in Clients, RemoveRun(c)
  PROVE  Orderly'
<1>. DEFINE r == handle[c]
            going == mem.rec[r[1]][r[2]].state = "active"
            d == IF going THEN NoCall ELSE [calls[c] EXCEPT !.at = "cancel"]
<1>0. /\ calls[c].at = "remove" /\ RemoveJob(c) /\ calls' = [calls EXCEPT ![c] = d]
      /\ UNCHANGED <<rows, started, made, astray>>
  BY DEF RemoveRun
<1>1. /\ WorldTypeOK /\ CallsRight /\ RowsRight /\ Fresh(mem, removed) /\ TransportInv /\ c \in Handles
      /\ made \in 0 .. MaxCalls /\ astray \in SUBSET Jobs /\ rows \in [Jobs -> Statuses]
  BY WorldAssumption DEF WorldInv, Orderly, WorldTypeOK, Statuses
<1>2. /\ Fresh(mem', removed') /\ Lasting(mem, mem', {r[1]}, {}) /\ (going => mem' = mem)
  BY <1>0, <1>1, RemoveLasting
<1>. PICK j \in Jobs : j = calls[c].job
  BY <1>1, CallFacts
<1>3. calls[c] \in Call /\ calls[c].rowless = {} /\ r[1] = j
  BY <1>0, <1>1, CallFacts DEF CallsRight
<1>4. /\ lost' = lost /\ \A e \in Clients \ {c} : handle'[e] = handle[e]
  <2>1. handle' = [handle EXCEPT ![c] = None] /\ lost' = lost
    BY <1>0 DEF RemoveJob
  <2>2. handle \in [Handles -> Refs \cup {None}]
    BY <1>1 DEF TransportInv, TypeOK
  <2>. QED BY <2>1, <2>2, WorldAssumption
<1>5. d \in Call /\ d.rowless = {} /\ d.at # "remove" /\ (~going => d.at = "cancel" /\ d.job = j)
  BY <1>3, NoCallFacts DEF Call
<1>6. Lasting(mem, mem', {}, {}) \/ ~going
  BY <1>2 DEF Lasting
<1>. HIDE DEF d, going, r
<1>7. \A k \in Jobs : Covering(k) => Covering(k)'
  BY <1>0, <1>1, <1>5, CallsKept
<1>8. ~going => Covering(j)'
  <2>. SUFFICES ASSUME ~going PROVE Covering(j)'
    OBVIOUS
  <2>1. calls'[c] = d
    BY <1>0, <1>1, <1>5, CallsKept
  <2>2. j \in Covers(d)
    BY <1>5 DEF Covers
  <2>3. Covers(calls[c])' = Covers(calls'[c])
    BY DEF Covers
  <2>. QED BY <1>5, <2>1, <2>2, <2>3 DEF Covering
<1>9. RowsRight'
  <2>. SUFFICES ASSUME NEW k \in Jobs, rows'[k] \in OnTheWay PROVE Tended(k)'
    BY DEF RowsRight
  <2>1. Tended(k) /\ astray' = astray
    BY <1>0, <1>1 DEF RowsRight
  <2>2. CASE k = j /\ ~going
    BY <1>8, <2>2 DEF Tended
  <2>3. CASE going
    BY <1>4, <1>6, <1>7, <2>1, <2>3, TendedLasts
  <2>4. CASE k # j
    BY <1>2, <1>3, <1>4, <1>7, <2>1, <2>4, TendedLasts
  <2>. QED BY <2>2, <2>3, <2>4
<1>10. d.rowless \subseteq Covers(d)
  BY <1>5
<1>. QED BY <1>0, <1>1, <1>2, <1>4, <1>5, <1>9, <1>10, ClientWorld

LEMMA CancelRowWorld ==
  ASSUME WorldInv, NEW c \in Clients, CancelRow(c)
  PROVE  Orderly'
<1>. DEFINE j == calls[c].job
<1>0. /\ calls[c].at = "cancel" /\ rows' = [rows EXCEPT ![j] = "canceled"] /\ calls' = [calls EXCEPT ![c] = NoCall]
      /\ UNCHANGED vars /\ UNCHANGED <<started, made, astray>>
  BY DEF CancelRow
<1>1. /\ UNCHANGED <<mem, lost, handle>> /\ Lasting(mem, mem', {}, {}) /\ Fresh(mem', removed')
      /\ WorldTypeOK /\ made \in 0 .. MaxCalls /\ astray \in SUBSET Jobs /\ rows \in [Jobs -> Statuses]
      /\ calls \in [Clients -> Call]
  BY <1>0, StillFacts
<1>2. Covers(calls[c]) = {j}
  BY <1>0 DEF Covers
<1>3. rows' \in [Jobs -> Statuses]
  BY <1>0, <1>1 DEF Statuses, Ended
<1>4. \A k \in Jobs : rows'[k] \in OnTheWay => k # j /\ rows[k] \in OnTheWay
  BY <1>0, <1>1 DEF OnTheWay
<1>5. ASSUME NEW k \in Jobs, k # j, Covering(k) PROVE Covering(k)'
  <2>1. PICK e \in Clients : calls[e].at \in {"enqueue", "flow", "cancel"} /\ k \in Covers(calls[e])
    BY <1>5 DEF Covering
  <2>2. calls'[e] = calls[e]
    BY <1>0, <1>1, <1>2, <1>5, <2>1
  <2>3. Covers(calls[e])' = Covers(calls'[e])
    BY DEF Covers
  <2>. QED BY <2>1, <2>2, <2>3 DEF Covering
<1>6. RowsRight'
  BY <1>0, <1>1, <1>4, <1>5, RowsKept
<1>7. NoCall \in Call /\ NoCall.rowless \subseteq Covers(NoCall) /\ NoCall.rowless = {} /\ NoCall.at # "remove"
  BY NoCallFacts
<1>. QED BY <1>0, <1>1, <1>3, <1>6, <1>7, ClientWorld

-----------------------------------------------------------------------------
(* The steps of the worker, at an attempt a.                                *)
LEMMA WorkerWorld ==
  ASSUME WorldInv, UNCHANGED <<calls, made, handle>>, Fresh(mem', removed'),
         NEW a \in mem.attempts, NEW status \in Statuses, rows' = [rows EXCEPT ![a.job] = status],
         NEW S, Lasting(mem, mem', S, {a}),
         started' \subseteq mem'.attempts, \A b \in started' : b.phase = "process",
         lost \subseteq lost', astray \subseteq astray', astray' \in SUBSET Jobs,
         status \in OnTheWay => Tended(a.job)', \A j \in S : j = a.job \/ j \in astray'
  PROVE  Orderly'
<1>0. /\ WorldTypeOK /\ CallsRight /\ RowsRight /\ rows \in [Jobs -> Statuses]
  BY DEF WorldInv, Orderly, WorldTypeOK, Statuses
<1>1. rows' \in [Jobs -> Statuses]
  BY <1>0
<1>2. WorldTypeOK'
  BY <1>0, <1>1 DEF WorldTypeOK, Statuses
<1>3. CallsRight'
  BY <1>0 DEF CallsRight, Covers
<1>4. RowsRight'
  <2>. SUFFICES ASSUME NEW j \in Jobs, rows'[j] \in OnTheWay PROVE Tended(j)'
    BY DEF RowsRight
  <2>1. CASE j = a.job
    BY <1>0, <2>1
  <2>2. CASE j # a.job
    <3>1. Tended(j) /\ (Covering(j) => Covering(j)')
      BY <1>0, <2>2 DEF RowsRight, Covering, Covers
    <3>2. CASE j \in S
      BY <2>2, <3>2 DEF Tended
    <3>3. CASE j \notin S
      <4>1. \A b \in {a} : b.job # j
        BY <2>2
      <4>. QED BY <3>1, <3>3, <4>1, TendedLasts
    <3>. QED BY <3>2, <3>3
  <2>. QED BY <2>1, <2>2
<1>. QED BY <1>2, <1>3, <1>4 DEF Orderly

LEMMA RunningWorld ==
  ASSUME WorldInv, NEW a \in mem.attempts, Starts(a) \/ Progresses(a)
  PROVE  Orderly'
<1>. DEFINE S == {}
<1>0. /\ \A b \in started : b.phase = "process"
      /\ started \subseteq mem.attempts
  BY DEF WorldInv, Orderly, WorldTypeOK
<1>1. /\ a.phase = "process" /\ UNCHANGED vars /\ UNCHANGED <<calls, made, astray>> /\ started' \subseteq started \cup {a}
      /\ \E status \in {"reattempting", "executing"} : rows' = [rows EXCEPT ![a.job] = status]
  BY <1>0 DEF Starts, Progresses
<1>2. PICK status \in {"reattempting", "executing"} : rows' = [rows EXCEPT ![a.job] = status]
  BY <1>1
<1>3. UNCHANGED <<mem, lost, handle>> /\ Lasting(mem, mem', {}, {}) /\ Fresh(mem', removed') /\ astray \in SUBSET Jobs
  BY <1>1, StillFacts
<1>4. Tended(a.job)'
  BY <1>1, <1>3 DEF Tended
<1>5. status \in Statuses
  BY DEF Statuses, OnTheWay
<1>6. started' \subseteq mem'.attempts /\ \A b \in started' : b.phase = "process"
  BY <1>0, <1>1, <1>3
<1>7. Lasting(mem, mem', S, {a}) /\ \A j \in S : j = a.job \/ j \in astray'
  BY <1>3 DEF Lasting
<1>8. UNCHANGED <<calls, made, handle>> /\ lost \subseteq lost' /\ astray \subseteq astray' /\ astray' \in SUBSET Jobs
  BY <1>1, <1>3
<1>. HIDE DEF S
<1>. QED BY <1>2, <1>3, <1>4, <1>5, <1>6, <1>7, <1>8, WorkerWorld

(* An attempt that ends leaves the other attempts as they are.              *)
LEMMA StartedLasts ==
  ASSUME WorldInv, NEW a, NEW S, Lasting(mem, mem', S, {a}), started' = started \ {a}
  PROVE  started' \subseteq mem'.attempts /\ \A b \in started' : b.phase = "process"
<1>1. started \subseteq mem.attempts /\ \A b \in started : b.phase = "process"
  BY DEF WorldInv, Orderly, WorldTypeOK
<1>. QED BY <1>1 DEF Lasting

LEMMA CompletesWorld ==
  ASSUME WorldInv, NEW a \in mem.attempts, Completes(a)
  PROVE  Orderly'
<1>. DEFINE S == {a.job}
<1>1. /\ Succeed(a) /\ rows' = [rows EXCEPT ![a.job] = "completed"] /\ started' = started \ {a}
      /\ UNCHANGED <<calls, made, astray>>
  BY DEF Completes, Recorded
<1>2. TransportInv /\ Fresh(mem, removed) /\ astray \in SUBSET Jobs
  BY DEF WorldInv, Orderly, WorldTypeOK
<1>3. Fresh(mem', removed') /\ Lasting(mem, mem', S, {a})
  BY <1>1, <1>2, SucceedLasting
<1>4. UNCHANGED <<handle, lost>>
  BY <1>1 DEF Succeed, fates
<1>5. "completed" \in Statuses /\ "completed" \notin OnTheWay
  BY DEF Statuses, Ended, OnTheWay
<1>6. started' \subseteq mem'.attempts /\ \A b \in started' : b.phase = "process"
  BY <1>1, <1>3, StartedLasts
<1>7. \A j \in S : j = a.job \/ j \in astray'
  OBVIOUS
<1>8. UNCHANGED <<calls, made, handle>> /\ lost \subseteq lost' /\ astray \subseteq astray' /\ astray' \in SUBSET Jobs
  BY <1>1, <1>2, <1>4
<1>. HIDE DEF S
<1>. QED BY <1>1, <1>3, <1>5, <1>6, <1>7, <1>8, WorkerWorld

LEMMA RetriesWorld ==
  ASSUME WorldInv, NEW a \in mem.attempts, Retries(a)
  PROVE  Orderly'
<1>. DEFINE S == {}
<1>1. /\ Retry(a) /\ rows' = [rows EXCEPT ![a.job] = "reattempting"] /\ started' = started \ {a}
      /\ astray' = astray \cup ({a.job} \ Held(mem')) /\ UNCHANGED <<calls, made>>
  BY DEF Retries, Recorded
<1>2. TransportInv /\ Fresh(mem, removed) /\ astray \in SUBSET Jobs
  BY DEF WorldInv, Orderly, WorldTypeOK
<1>3. Fresh(mem', removed') /\ Lasting(mem, mem', S, {a}) /\ a.phase = "process"
  BY <1>1, <1>2, RetryLasting
<1>4. UNCHANGED <<handle, lost>> /\ a.job \in Jobs
  BY <1>1, <1>2, <1>3, EndFacts DEF Retry, fates
<1>5. "reattempting" \in Statuses
  BY DEF Statuses, OnTheWay
<1>6. started' \subseteq mem'.attempts /\ \A b \in started' : b.phase = "process"
  BY <1>1, <1>3, StartedLasts
<1>7. Tended(a.job)'
  BY <1>1, <1>4 DEF Tended, Held
<1>8. /\ UNCHANGED <<calls, made, handle>> /\ lost \subseteq lost' /\ astray \subseteq astray' /\ astray' \in SUBSET Jobs
      /\ \A j \in S : j = a.job \/ j \in astray'
  BY <1>1, <1>2, <1>4
<1>. HIDE DEF S
<1>. QED BY <1>1, <1>3, <1>5, <1>6, <1>7, <1>8, WorkerWorld

(* What an end writes, and what it leaves astray.                          *)
LEMMA RecordedFacts ==
  ASSUME NEW a, NEW status
  PROVE  /\ HasHandler(a) => Recorded(a, status) = [rows EXCEPT ![a.job] = status]
         /\ ~HasHandler(a) => Recorded(a, status) = rows /\ a.job \in {a.job} \ Registered[a.cons]
BY DEF Recorded, HasHandler

LEMMA FailsWorld ==
  ASSUME WorldInv, TransportInv', NEW a \in mem.attempts, Fails(a)
  PROVE  Orderly'
<1>. DEFINE V == {r[1] : r \in removed' \ removed}
            shown == IF HasHandler(a) THEN "failed" ELSE rows[a.job]
<1>1. /\ Fail(a) /\ rows' = Recorded(a, "failed") /\ started' = started \ {a}
      /\ astray' = astray \cup V \cup ({a.job} \ Registered[a.cons]) /\ UNCHANGED <<calls, made>>
  BY DEF Fails
<1>2. TransportInv /\ Fresh(mem, removed) /\ astray \in SUBSET Jobs
  BY DEF WorldInv, Orderly, WorldTypeOK
<1>3. Fresh(mem', removed') /\ Lasting(mem, mem', {a.job} \cup V, {a})
  BY <1>1, <1>2, FailLasting
<1>4. UNCHANGED <<handle, lost>>
  BY <1>1 DEF Fail
<1>5. rows \in [Jobs -> Statuses] /\ a.job \in Jobs
  BY <1>1, <1>2, EndFacts DEF Fail, WorldInv, Orderly, WorldTypeOK, Statuses
<1>6. V \in SUBSET Jobs
  BY DEF TransportInv, TypeOK, Refs
<1>s. (HasHandler(a) => shown = "failed") /\ (~HasHandler(a) => shown = rows[a.job])
  OBVIOUS
<1>. HIDE DEF V, shown
<1>9. /\ shown \in Statuses /\ rows' = [rows EXCEPT ![a.job] = shown]
      /\ shown \in OnTheWay => a.job \in astray'
  <2>1. CASE HasHandler(a)
    <3>1. shown = "failed"
      BY <1>s, <2>1
    <3>2. rows' = [rows EXCEPT ![a.job] = "failed"]
      BY <1>1, <2>1, RecordedFacts
    <3>. QED BY <3>1, <3>2 DEF Statuses, Ended, OnTheWay
  <2>2. CASE ~HasHandler(a)
    <3>1. shown = rows[a.job] /\ rows' = rows /\ a.job \in astray'
      BY <1>1, <1>s, <2>2, RecordedFacts
    <3>. QED BY <1>5, <3>1
  <2>. QED BY <2>1, <2>2
<1>10. shown \in OnTheWay => Tended(a.job)'
  BY <1>9 DEF Tended
<1>7. started' \subseteq mem'.attempts /\ \A b \in started' : b.phase = "process"
  BY <1>1, <1>3, StartedLasts
<1>8. astray \subseteq astray' /\ astray' \in SUBSET Jobs /\ \A j \in {a.job} \cup V : j = a.job \/ j \in astray'
  BY <1>1, <1>2, <1>5, <1>6
<1>. QED BY <1>1, <1>3, <1>4, <1>7, <1>8, <1>9, <1>10, WorkerWorld

-----------------------------------------------------------------------------
(* The steps that the transport takes alone, and then all steps.            *)
Alone ==
  \/ \E a \in mem.attempts : Return(a)
  \/ \E j \in Jobs, i \in 1 .. MaxEnqueues : Timer(j, i)
  \/ \E c \in Consumers : Consume(c) \/ CloseConsumer(c) \/ ConsumerClosed(c)
  \/ CloseTransport \/ TransportClosed \/ UNCHANGED vars

LEMMA AloneWorld ==
  ASSUME WorldInv, UNCHANGED worldVars, Alone
  PROVE  Orderly'
<1>0. TransportInv /\ Fresh(mem, removed)
  BY DEF WorldInv, Orderly
<1>1. \A S : S = {} => \A j \in S : \E n \in Insertions : <<j, n>> \in lost'
  OBVIOUS
<1>2. ASSUME Growth, UNCHANGED handle PROVE Orderly'
  <2>. DEFINE S == {}
              T == {}
  <2>1. Fresh(mem', removed') /\ Lasting(mem, mem', S, T) /\ lost \subseteq lost'
    BY <1>0, <1>2, GrowthLasting DEF Growth, fates
  <2>2. (\A a \in T : a.phase = "callback") /\ \A j \in S : \E n \in Insertions : <<j, n>> \in lost'
    OBVIOUS
  <2>. HIDE DEF S, T
  <2>. QED BY <1>2, <2>1, <2>2, TransportingWorld
<1>3. ASSUME Fresh(mem', removed'), Lasting(mem, mem', {}, {}), UNCHANGED <<handle, lost>> PROVE Orderly'
  <2>. DEFINE S == {}
              T == {}
  <2>1. Fresh(mem', removed') /\ Lasting(mem, mem', S, T) /\ lost \subseteq lost'
    BY <1>3
  <2>2. (\A a \in T : a.phase = "callback") /\ \A j \in S : \E n \in Insertions : <<j, n>> \in lost'
    OBVIOUS
  <2>. HIDE DEF S, T
  <2>. QED BY <1>3, <2>1, <2>2, TransportingWorld
<1>4. ASSUME NEW a \in mem.attempts, Return(a) PROVE Orderly'
  <2>. DEFINE S == {}
              T == {a}
  <2>1. Fresh(mem', removed') /\ Lasting(mem, mem', S, T) /\ a.phase = "callback"
    BY <1>0, <1>4, ReturnLasting
  <2>2. UNCHANGED handle /\ lost \subseteq lost'
    BY <1>4 DEF Return
  <2>3. (\A b \in T : b.phase = "callback") /\ \A j \in S : \E n \in Insertions : <<j, n>> \in lost'
    BY <2>1
  <2>. HIDE DEF S, T
  <2>. QED BY <2>1, <2>2, <2>3, TransportingWorld
<1>5. ASSUME NEW j \in Jobs, NEW i \in 1 .. MaxEnqueues, Timer(j, i) PROVE Orderly'
  BY <1>0, <1>2, <1>5, TimerGrowth DEF Timer
<1>6. ASSUME NEW c \in Consumers, Consume(c) PROVE Orderly'
  BY <1>0, <1>2, <1>6, ConsumeGrowth DEF Consume
<1>7. ASSUME NEW c \in Consumers, CloseConsumer(c) \/ ConsumerClosed(c) PROVE Orderly'
  <2>1. UNCHANGED <<mem, removed, handle, lost>>
    BY <1>7 DEF CloseConsumer, ConsumerClosed, fates
  <2>. QED BY <1>0, <1>3, <2>1, IdleLasting
<1>8. CASE CloseTransport
  <2>1. UNCHANGED <<handle, lost>>
    BY <1>8 DEF CloseTransport, fates
  <2>. QED BY <1>0, <1>3, <1>8, <2>1, CloseTransportLasting
<1>9. CASE TransportClosed
  <2>. DEFINE S == {j \in Jobs : \E n \in Insertions : <<j, n>> \in lost'}
              T == {}
  <2>1. Fresh(mem', removed') /\ Lasting(mem, mem', S, T)
    BY <1>0, <1>9, TransportClosedLasting
  <2>2. UNCHANGED handle /\ lost \subseteq lost'
    BY <1>9 DEF TransportClosed
  <2>3. (\A a \in T : a.phase = "callback") /\ \A j \in S : \E n \in Insertions : <<j, n>> \in lost'
    OBVIOUS
  <2>. HIDE DEF S, T
  <2>. QED BY <2>1, <2>2, <2>3, TransportingWorld
<1>10. CASE UNCHANGED vars
  <2>1. UNCHANGED <<mem, removed, handle, lost>>
    BY <1>10 DEF vars
  <2>. QED BY <1>0, <1>3, <2>1, IdleLasting
<1>. QED BY <1>4, <1>5, <1>6, <1>7, <1>8, <1>9, <1>10 DEF Alone

(* What the world does to the transport, the transport does.                *)
LEMMA WorldTransport ==
  ASSUME WorldInv, [WorldNext]_allVars
  PROVE  [Next]_vars
<1>1. ASSUME NEW c \in Clients, NEW j \in Jobs, CallEnqueue(c, j) \/ CallFlow(c, j) \/ CallCancel(c, j) \/ WriteRow(c, j)
      PROVE  UNCHANGED vars
  BY <1>1 DEF CallEnqueue, CallFlow, CallCancel, WriteRow
<1>2. ASSUME NEW c \in Clients, Insert(c) \/ Find(c) \/ RemoveRun(c) \/ CancelRow(c)
      PROVE  [Next]_vars
  <2>1. c \in Handles /\ calls[c].job \in Jobs
    BY WorldAssumption, CallFacts DEF WorldInv, Orderly
  <2>2. CASE Insert(c)
    BY <2>1, <2>2 DEF Insert, Next
  <2>3. CASE Find(c)
    BY <2>1, <2>3 DEF Find, Next
  <2>4. CASE RemoveRun(c)
    BY <2>1, <2>4 DEF RemoveRun, Next
  <2>5. CASE CancelRow(c)
    BY <2>5 DEF CancelRow
  <2>. QED BY <1>2, <2>2, <2>3, <2>4, <2>5
<1>3. ASSUME NEW a \in mem.attempts, WorkerStep(a) \/ Progresses(a)
      PROVE  [Next]_vars
  BY <1>3 DEF WorkerStep, Progresses, Starts, Completes, Retries, Fails, Transporting, Next, Advance
<1>4. CASE \/ \E j \in Jobs, i \in 1 .. MaxEnqueues : Transporting(Timer(j, i))
           \/ \E c \in Consumers : \/ Transporting(Consume(c))
                                   \/ Transporting(CloseConsumer(c))
                                   \/ Transporting(ConsumerClosed(c))
           \/ Transporting(CloseTransport)
           \/ Transporting(TransportClosed)
  BY <1>4 DEF Transporting, Next
<1>5. CASE UNCHANGED allVars
  BY <1>5 DEF allVars
<1>. QED BY <1>1, <1>2, <1>3, <1>4, <1>5 DEF WorldNext, ClientStep

LEMMA WorldStep == WorldInv /\ [WorldNext]_allVars => WorldInv' /\ [Next]_vars
<1>. SUFFICES ASSUME WorldInv, [WorldNext]_allVars PROVE WorldInv' /\ [Next]_vars
  OBVIOUS
<1>0. [Next]_vars
  BY WorldTransport
<1>1. TransportInv'
  BY <1>0, StepInv DEF WorldInv
<1>2. ASSUME NEW c \in Clients, NEW j \in Jobs, CallEnqueue(c, j) \/ CallFlow(c, j) \/ CallCancel(c, j)
      PROVE  Orderly'
  BY <1>2, CallEnqueueWorld, CallFlowWorld, CallCancelWorld
<1>3. ASSUME NEW c \in Clients, ClientStep(c)
      PROVE  Orderly'
  BY <1>3, WriteRowWorld, InsertWorld, FindWorld, RemoveRunWorld, CancelRowWorld DEF ClientStep
<1>4. ASSUME NEW a \in mem.attempts, WorkerStep(a) \/ Progresses(a)
      PROVE  Orderly'
  <2>1. CASE Starts(a) \/ Progresses(a)
    BY <2>1, RunningWorld
  <2>2. CASE Completes(a)
    BY <2>2, CompletesWorld
  <2>3. CASE Retries(a)
    BY <2>3, RetriesWorld
  <2>4. CASE Fails(a)
    BY <1>1, <2>4, FailsWorld
  <2>5. CASE Transporting(Return(a))
    BY <2>5, AloneWorld DEF Transporting, Alone
  <2>. QED BY <1>4, <2>1, <2>2, <2>3, <2>4, <2>5 DEF WorkerStep
<1>5. ASSUME \/ \E j \in Jobs, i \in 1 .. MaxEnqueues : Transporting(Timer(j, i))
             \/ \E c \in Consumers : \/ Transporting(Consume(c))
                                     \/ Transporting(CloseConsumer(c))
                                     \/ Transporting(ConsumerClosed(c))
             \/ Transporting(CloseTransport)
             \/ Transporting(TransportClosed)
      PROVE  Orderly'
  <2>1. UNCHANGED worldVars /\ Alone
    BY <1>5 DEF Transporting, Alone
  <2>. QED BY <2>1, AloneWorld
<1>6. ASSUME UNCHANGED allVars PROVE Orderly'
  <2>1. UNCHANGED worldVars /\ Alone
    BY <1>6 DEF allVars, Alone
  <2>. QED BY <2>1, AloneWorld
<1>7. WorldNext => Orderly'
  BY <1>2, <1>3, <1>4, <1>5 DEF WorldNext
<1>8. Orderly'
  BY <1>6, <1>7
<1>. QED BY <1>0, <1>1, <1>8 DEF WorldInv

LEMMA WorldStart == WorldInit => Init /\ WorldInv
<1>. SUFFICES ASSUME WorldInit PROVE Init /\ WorldInv
  OBVIOUS
<1>1. Init /\ TransportInv
  BY InitInv DEF WorldInit
<1>2. /\ rows = [j \in Jobs |-> "none"] /\ calls = [c \in Clients |-> NoCall]
      /\ started = {} /\ made = 0 /\ astray = {} /\ removed = {}
  BY DEF WorldInit, Init
<1>3. WorldTypeOK
  BY <1>2, NoCallFacts, WorldAssumption DEF WorldTypeOK
<1>4. CallsRight
  BY <1>2, NoCallFacts DEF CallsRight
<1>5. RowsRight
  BY <1>2 DEF RowsRight, OnTheWay
<1>. QED BY <1>1, <1>2, <1>3, <1>4, <1>5 DEF WorldInv, Orderly, Fresh

(* The callers and the worker use the transport as it is meant to be used:   *)
(* the transport under them behaves as one that is used in any way, so that  *)
(* what is proved of it holds in the world (enqueuer.ts:258, cancel.ts:44). *)
THEOREM WorldUsesTransport == WorldSpec => Spec
BY WorldStart, WorldStep, PTL DEF WorldSpec, Spec

(* A run that the history shows on its way is on its way, gone astray in one *)
(* of the named ways, or was discarded by the close of the transport         *)
(* (enqueuer.ts:271, worker.ts:98, cancel.ts:56).                          *)
THEOREM OnItsWayCorrect == WorldSpec => []OnItsWay
<1>1. WorldInv => OnItsWay
  <2>. SUFFICES ASSUME WorldInv, NEW j \in Jobs, Tended(j) PROVE InGoodHands(j)
    BY DEF WorldInv, Orderly, RowsRight, OnItsWay
  <2>1. ASSUME NEW c \in Clients, calls[c].at \in {"enqueue", "flow", "cancel"} PROVE calls[c] # NoCall
    BY <2>1, NoCallFacts
  <2>. QED BY <2>1 DEF Tended, Covering, InGoodHands, Insertions
<1>. QED BY <1>1, WorldStart, WorldStep, PTL DEF WorldSpec
=============================================================================
