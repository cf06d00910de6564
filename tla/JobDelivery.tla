----------------------------- MODULE JobDelivery -----------------------------
(***************************************************************************)
(* What core expects of any delivery transport (core/src/transport/types.ts *)
(* and the conformance suite beside it): an enqueued job is held until it  *)
(* is removed or ends, a job that ends owes exactly one terminal callback, *)
(* and only a fault of the process that owes it may swallow the callback.  *)
(* Attempts, leases, queues and retries are left to the transports.        *)
(***************************************************************************)
EXTENDS Naturals, TLAPS

CONSTANT Jobs

VARIABLES
  place,     \* place[j]: "none", "queued" or "taken" by a consumer
  inc,       \* inc[j]: how often the id has been enqueued
  owed,      \* <<job, insertion>> that ended, their callback still to fire
  reported,  \* those whose terminal callback fired
  removed,   \* those a client removed
  lost       \* those whose terminal callback a fault swallowed

vars == <<place, inc, owed, reported, removed, lost>>

Current(S) == {<<j, inc[j]>> : j \in S}

Init ==
  /\ place = [j \in Jobs |-> "none"]
  /\ inc = [j \in Jobs |-> 0]
  /\ owed = {} /\ reported = {} /\ removed = {} /\ lost = {}

Held == {j \in Jobs : place[j] # "none"}
Taken == {j \in Jobs : place[j] = "taken"}

(* In every step the transport may hand jobs out and take them back.       *)
Holds(H) ==
  /\ place' \in [Jobs -> {"none", "queued", "taken"}]
  /\ \A j \in Jobs : place'[j] # "none" <=> j \in H

Handle ==
  /\ Holds(Held)
  /\ UNCHANGED <<inc, owed, reported, removed, lost>>

(* A job, or the jobs of a flow.                                           *)
Enqueue(S) ==
  /\ S \cap Held = {}
  /\ Holds(Held \cup S)
  /\ inc' = [j \in Jobs |-> IF j \in S THEN inc[j] + 1 ELSE inc[j]]
  /\ UNCHANGED <<owed, reported, removed, lost>>

(* The jobs of S end; those of W, which wait for them in a flow, fall with  *)
(* them and owe no callback.                                               *)
End(S, W) ==
  /\ S \subseteq Taken
  /\ W \subseteq Held \ S
  /\ Holds(Held \ (S \cup W))
  /\ owed' = owed \cup Current(S)
  /\ removed' = removed \cup Current(W)
  /\ UNCHANGED <<inc, reported, lost>>

Remove(j) ==
  /\ j \in Held
  /\ Holds(Held \ {j})
  /\ removed' = removed \cup Current({j})
  /\ UNCHANGED <<inc, owed, reported, lost>>

(* A fault swallows the end, or the whole transport ends.                  *)
Lose(S) ==
  /\ S \subseteq Held
  /\ Holds(Held \ S)
  /\ lost' = lost \cup Current(S)
  /\ UNCHANGED <<inc, owed, reported, removed>>

Report(v) ==
  /\ v \in owed
  /\ owed' = owed \ {v}
  /\ reported' = reported \cup {v}
  /\ Holds(Held)
  /\ UNCHANGED <<inc, removed, lost>>

Drop(V) ==
  /\ V \subseteq owed
  /\ owed' = owed \ V
  /\ lost' = lost \cup V
  /\ Holds(Held)
  /\ UNCHANGED <<inc, reported, removed>>

Next ==
  \/ Handle
  \/ \E S \in SUBSET Jobs : Enqueue(S) \/ Lose(S) \/ \E W \in SUBSET Jobs : End(S, W)
  \/ \E j \in Jobs : Remove(j)
  \/ \E v \in owed : Report(v)
  \/ \E V \in SUBSET owed : Drop(V)

Spec == Init /\ [][Next]_vars

-----------------------------------------------------------------------------
TypeOK ==
  /\ place \in [Jobs -> {"none", "queued", "taken"}]
  /\ inc \in [Jobs -> Nat]
  /\ owed \subseteq Jobs \X Nat /\ reported \subseteq Jobs \X Nat
  /\ removed \subseteq Jobs \X Nat /\ lost \subseteq Jobs \X Nat

Past == owed \cup reported \cup removed \cup lost

(* Every insertion of an id is held or has had exactly one of the four ends *)
(* the transport contract knows.                                           *)
OneFate ==
  /\ \A j \in Jobs : place[j] # "none" => <<j, inc[j]>> \notin Past
  /\ owed \cap (reported \cup removed \cup lost) = {}
  /\ reported \cap (removed \cup lost) = {}
  /\ removed \cap lost = {}
  /\ \A j \in Jobs : \A i \in 1 .. inc[j] :
       <<j, i>> \in Past \/ (place[j] # "none" /\ i = inc[j])

(* No insertion to come has had an end already.                            *)
NoneAhead == \A j \in Jobs : \A i \in Nat : <<j, i>> \in Past => i <= inc[j]

FateInv == TypeOK /\ OneFate /\ NoneAhead

(* The jobs of S, W and L leave the transport, each insertion to one end.   *)
LEMMA Leaving ==
  ASSUME FateInv,
         NEW S \in SUBSET Held, NEW W \in SUBSET Held, NEW L \in SUBSET Held,
         S \cap W = {}, S \cap L = {}, W \cap L = {},
         Holds(Held \ (S \cup W \cup L)), UNCHANGED <<inc, reported>>,
         owed' = owed \cup Current(S), removed' = removed \cup Current(W),
         lost' = lost \cup Current(L)
  PROVE  FateInv'
<1>. DEFINE A == S \cup W \cup L
<1>1. \A T \in SUBSET Jobs, j \in Jobs, i \in Nat :
        <<j, i>> \in Current(T) <=> j \in T /\ i = inc[j]
  BY DEF Current
<1>2. ASSUME NEW T \in SUBSET Held PROVE Current(T) \cap Past = {} /\ Current(T) \subseteq Jobs \X Nat
  <2>1. ASSUME NEW v \in Current(T) PROVE v \notin Past /\ v \in Jobs \X Nat
    <3>1. PICK j \in T : v = <<j, inc[j]>>
      BY DEF Current
    <3>. QED BY <3>1 DEF FateInv, OneFate, TypeOK, Held
  <2>. QED BY <2>1
<1>3. /\ Current(S) \cap Current(W) = {} /\ Current(S) \cap Current(L) = {}
      /\ Current(W) \cap Current(L) = {}
  BY DEF Current
<1>4. TypeOK'
  BY <1>2 DEF FateInv, TypeOK, Holds
<1>5. Past' = Past \cup Current(S) \cup Current(W) \cup Current(L)
  BY DEF Past
<1>6. A \in SUBSET Jobs /\ Past' = Past \cup Current(A)
  BY <1>5 DEF Current, Held
<1>7. \A j \in Jobs : (place'[j] # "none" <=> place[j] # "none" /\ j \notin A) /\ (j \in A => place[j] # "none")
  BY DEF Holds, Held
<1>. HIDE DEF A
<1>8. \A j \in Jobs : place'[j] # "none" => <<j, inc'[j]>> \notin Past'
  BY <1>1, <1>6, <1>7 DEF FateInv, OneFate, TypeOK
<1>9. /\ owed' \cap (reported' \cup removed' \cup lost') = {}
      /\ reported' \cap (removed' \cup lost') = {}
      /\ removed' \cap lost' = {}
  <2>1. /\ Current(S) \cap Past = {} /\ Current(W) \cap Past = {} /\ Current(L) \cap Past = {}
    BY <1>2
  <2>. QED BY <1>3, <2>1 DEF FateInv, OneFate, Past
<1>10. \A j \in Jobs : \A i \in 1 .. inc'[j] :
       <<j, i>> \in Past' \/ (place'[j] # "none" /\ i = inc'[j])
  <2>. TAKE j \in Jobs
  <2>. TAKE i \in 1 .. inc'[j]
  <2>1. i \in 1 .. inc[j] /\ inc[j] \in Nat /\ i \in Nat
    BY DEF FateInv, TypeOK
  <2>2. CASE <<j, i>> \in Past
    BY <1>6, <2>2
  <2>3. CASE place[j] # "none" /\ i = inc[j] /\ j \in A
    BY <1>1, <1>6, <2>1, <2>3
  <2>4. CASE place[j] # "none" /\ i = inc[j] /\ j \notin A
    BY <1>7, <2>4
  <2>. QED BY <2>1, <2>2, <2>3, <2>4 DEF FateInv, OneFate
<1>11. NoneAhead'
  BY <1>1, <1>6 DEF FateInv, NoneAhead, TypeOK
<1>. QED BY <1>4, <1>8, <1>9, <1>10, <1>11 DEF FateInv, OneFate

(* The same jobs are held, and the same ends are known.                    *)
LEMMA Staying ==
  ASSUME FateInv, Holds(Held), UNCHANGED <<inc, removed>>, Past' = Past, TypeOK',
         owed' \cap (reported' \cup removed' \cup lost') = {},
         reported' \cap (removed' \cup lost') = {}, removed' \cap lost' = {}
  PROVE  FateInv'
<1>1. \A j \in Jobs : place'[j] # "none" <=> place[j] # "none"
  BY DEF Holds, Held
<1>2. NoneAhead'
  BY DEF FateInv, NoneAhead
<1>3. /\ \A j \in Jobs : place'[j] # "none" => <<j, inc'[j]>> \notin Past'
      /\ \A j \in Jobs : \A i \in 1 .. inc'[j] :
           <<j, i>> \in Past' \/ (place'[j] # "none" /\ i = inc'[j])
  BY <1>1 DEF FateInv, OneFate
<1>. QED BY <1>2, <1>3 DEF FateInv, OneFate

LEMMA FateNext == FateInv /\ [Next]_vars => FateInv'
<1>. SUFFICES ASSUME FateInv, [Next]_vars PROVE FateInv'
  OBVIOUS
<1>0. Current({}) = {}
  BY DEF Current
<1>1. ASSUME NEW S \in SUBSET Jobs, Enqueue(S) PROVE FateInv'
  <2>1. /\ inc' = [j \in Jobs |-> IF j \in S THEN inc[j] + 1 ELSE inc[j]]
        /\ place' \in [Jobs -> {"none", "queued", "taken"}]
        /\ \A j \in Jobs : place'[j] # "none" <=> place[j] # "none" \/ j \in S
        /\ \A j \in S : place[j] = "none"
        /\ Past' = Past
    BY <1>1 DEF Enqueue, Holds, Held, Past
  <2>2. \A j \in Jobs : inc[j] \in Nat /\ <<j, inc[j] + 1>> \notin Past
    BY DEF FateInv, TypeOK, NoneAhead
  <2>. DEFINE next(j) == IF j \in S THEN inc[j] + 1 ELSE inc[j]
  <2>7. \A j \in Jobs : /\ next(j) \in Nat
                        /\ j \in S => next(j) = inc[j] + 1
                        /\ j \notin S => next(j) = inc[j]
    <3>. TAKE j \in Jobs
    <3>0. inc[j] \in Nat
      BY <2>2
    <3>1. inc[j] \in Nat /\ inc[j] + 1 \in Nat
      BY <3>0
    <3>2. CASE j \in S
      <4>1. next(j) = inc[j] + 1
        BY <3>2
      <4>. QED BY <3>1, <3>2, <4>1
    <3>3. CASE j \notin S
      <4>1. next(j) = inc[j]
        BY <3>3
      <4>. QED BY <3>1, <3>3, <4>1
    <3>. QED BY <3>2, <3>3
  <2>8. inc' = [j \in Jobs |-> next(j)]
    BY <2>1
  <2>. HIDE DEF next
  <2>9. inc' \in [Jobs -> Nat] /\ \A j \in Jobs : inc'[j] = next(j)
    BY <2>7, <2>8
  <2>3. TypeOK'
    BY <1>1, <2>1, <2>9 DEF Enqueue, FateInv, TypeOK
  <2>4. NoneAhead'
    <3>. SUFFICES ASSUME NEW j \in Jobs, NEW i \in Nat, <<j, i>> \in Past
                  PROVE  i <= inc'[j]
      BY <2>1 DEF NoneAhead
    <3>1. i <= inc[j] /\ inc[j] \in Nat
      BY <2>2 DEF FateInv, NoneAhead
    <3>2. inc'[j] = inc[j] \/ inc'[j] = inc[j] + 1
      BY <2>7, <2>9
    <3>. QED BY <3>1, <3>2
  <2>5. \A j \in Jobs : place'[j] # "none" => <<j, inc'[j]>> \notin Past'
    BY <2>1, <2>2, <2>7, <2>9 DEF FateInv, OneFate
  <2>6. \A j \in Jobs : \A i \in 1 .. inc'[j] :
         <<j, i>> \in Past' \/ (place'[j] # "none" /\ i = inc'[j])
    <3>. TAKE j \in Jobs
    <3>. TAKE i \in 1 .. inc'[j]
    <3>1. CASE j \in S
      <4>1. inc'[j] = inc[j] + 1 /\ inc[j] \in Nat /\ place[j] = "none" /\ place'[j] # "none"
        BY <2>1, <2>2, <2>7, <2>9, <3>1
      <4>2. i = inc'[j] \/ i \in 1 .. inc[j]
        BY <4>1
      <4>. QED BY <2>1, <4>1, <4>2 DEF FateInv, OneFate
    <3>2. CASE j \notin S
      <4>1. inc'[j] = inc[j]
        BY <2>7, <2>9, <3>2
      <4>. QED BY <2>1, <4>1 DEF FateInv, OneFate
    <3>. QED BY <3>1, <3>2
  <2>. QED BY <1>1, <2>3, <2>4, <2>5, <2>6 DEF Enqueue, FateInv, OneFate
<1>2. ASSUME NEW S \in SUBSET Jobs, NEW W \in SUBSET Jobs, End(S, W) PROVE FateInv'
  <2>1. /\ S \in SUBSET Held /\ W \in SUBSET Held /\ S \cap W = {}
        /\ {} \in SUBSET Held /\ S \cap {} = {} /\ W \cap {} = {}
        /\ S \cup W \cup {} = S \cup W /\ lost' = lost \cup Current({})
    BY <1>0, <1>2 DEF End, Taken, Held
  <2>. QED BY <1>2, <2>1, Leaving DEF End
<1>3. ASSUME NEW j \in Jobs, Remove(j) PROVE FateInv'
  <2>1. /\ {j} \in SUBSET Held /\ {} \in SUBSET Held
        /\ {} \cap {j} = {} /\ {} \cap {} = {} /\ {j} \cap {} = {}
        /\ {} \cup {j} \cup {} = {j}
        /\ owed' = owed \cup Current({}) /\ lost' = lost \cup Current({})
    BY <1>0, <1>3 DEF Remove
  <2>. QED BY <1>3, <2>1, Leaving DEF Remove
<1>4. ASSUME NEW S \in SUBSET Jobs, Lose(S) PROVE FateInv'
  <2>1. /\ S \in SUBSET Held /\ {} \in SUBSET Held
        /\ {} \cap {} = {} /\ {} \cap S = {}
        /\ {} \cup {} \cup S = S
        /\ owed' = owed \cup Current({}) /\ removed' = removed \cup Current({})
    BY <1>0, <1>4 DEF Lose
  <2>. QED BY <1>4, <2>1, Leaving DEF Lose
<1>5. CASE Handle
  BY <1>5, Staying DEF Handle, FateInv, OneFate, TypeOK, Holds, Past
<1>6. ASSUME NEW v \in owed, Report(v) PROVE FateInv'
  <2>1. Past' = Past /\ TypeOK'
    BY <1>6 DEF Report, Holds, Past, FateInv, TypeOK
  <2>. QED BY <1>6, <2>1, Staying DEF Report, FateInv, OneFate
<1>7. ASSUME NEW V \in SUBSET owed, Drop(V) PROVE FateInv'
  <2>1. Past' = Past /\ TypeOK'
    BY <1>7 DEF Drop, Holds, Past, FateInv, TypeOK
  <2>. QED BY <1>7, <2>1, Staying DEF Drop, FateInv, OneFate
<1>8. CASE UNCHANGED vars
  BY <1>8 DEF vars, FateInv, TypeOK, OneFate, NoneAhead, Past
<1>. QED BY <1>1, <1>2, <1>3, <1>4, <1>5, <1>6, <1>7, <1>8 DEF Next

(* Any transport that keeps this contract gives every insertion of a job    *)
(* exactly one fate.                                                       *)
THEOREM ContractFates == Spec => []OneFate
<1>1. Init => FateInv
  BY DEF Init, FateInv, TypeOK, OneFate, NoneAhead, Past
<1>2. FateInv => OneFate
  BY DEF FateInv
<1>. QED BY <1>1, <1>2, FateNext, PTL DEF Spec
=============================================================================
