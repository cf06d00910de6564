-------------------------- MODULE PgTransport_proofs --------------------------
(***************************************************************************)
(* Proofs about the Postgres transport, for any jobs, any number of worker *)
(* processes, and any bounds.                                              *)
(***************************************************************************)
EXTENDS PgTransport, TLAPS

LEMMA AbsentType == \A i \in Nat : Absent(i) \in Row
BY DEF Absent, Row

(* What the statements do to one row.                                      *)
LEMMA RowUpdates ==
  ASSUME NEW r \in Row, NEW due \in BOOLEAN, NEW k \in Nat
  PROVE  /\ [r EXCEPT !.elapsed = due] \in Row
         /\ [r EXCEPT !.writer = k] \in Row
         /\ [r EXCEPT !.state = "waiting", !.elapsed = due] \in Row
         /\ [r EXCEPT !.state = "waiting", !.claim = 0, !.stalls = @ + 1] \in Row
         /\ [r EXCEPT !.state = "active", !.elapsed = due,
                      !.claim = k, !.claims = @ + 1] \in Row
<1>1. [r EXCEPT !.elapsed = due] \in Row
  BY DEF Row
<1>2. [r EXCEPT !.writer = k] \in Row
  BY DEF Row
<1>3. [r EXCEPT !.state = "waiting", !.elapsed = due] \in Row
  BY DEF Row
<1>4. r.stalls + 1 \in Nat /\ r.claims + 1 \in Nat
  BY DEF Row
<1>5. [r EXCEPT !.state = "waiting", !.claim = 0, !.stalls = @ + 1] \in Row
  BY <1>4 DEF Row
<1>6. [r EXCEPT !.state = "active", !.elapsed = due, !.claim = k, !.claims = @ + 1] \in Row
  BY <1>4 DEF Row
<1>. QED BY <1>1, <1>2, <1>3, <1>5, <1>6

LEMMA SnapType ==
  ASSUME TypeOK, NEW j \in Jobs, NEW k \in Nat
  PROVE  Snap(j, k) \in Fetched
BY DEF TypeOK, Snap, Fetched, Row

LEMMA SettledType ==
  ASSUME TypeOK, NEW a \in attempts, NEW due \in BOOLEAN
  PROVE  Settled(a, due) \in [Jobs -> Row]
<1>1. row \in [Jobs -> Row] /\ a \in Attempt
  BY DEF TypeOK
<1>2. a.job \in Jobs /\ a.made + 1 \in Nat
  BY <1>1 DEF Attempt
<1>3. [row[a.job] EXCEPT !.state = "waiting", !.elapsed = due, !.made = a.made + 1] \in Row
  BY <1>1, <1>2 DEF Row
<1>4. Absent(row[a.job].inc) \in Row
  BY <1>1, <1>2, AbsentType DEF Row
<1>. QED BY <1>1, <1>2, <1>3, <1>4 DEF Settled

LEMMA TypeNext == TypeOK /\ [Next]_vars => TypeOK'
<1>. SUFFICES ASSUME TypeOK, [Next]_vars PROVE TypeOK'
  OBVIOUS
<1>. USE ConstantsAssumption
<1>1. ASSUME NEW j \in Jobs, NEW due \in BOOLEAN, Enqueue(j, due) PROVE TypeOK'
  <2>1. [Absent(row[j].inc + 1) EXCEPT !.state = "waiting", !.elapsed = due] \in Row
    <3>1. row[j].inc + 1 \in Nat
      BY DEF TypeOK, Row
    <3>. QED BY <3>1, AbsentType, RowUpdates
  <2>. QED BY <1>1, <2>1 DEF TypeOK, Enqueue, fates
<1>2. ASSUME NEW j \in Jobs, Remove(j) PROVE TypeOK'
  <2>1. row[j].inc \in Nat /\ Absent(row[j].inc) \in Row
    BY AbsentType DEF TypeOK, Row
  <2>. QED BY <1>2, <2>1 DEF TypeOK, Remove
<1>3. ASSUME NEW j \in Jobs, Elapse(j) PROVE TypeOK'
  <2>1. [row[j] EXCEPT !.elapsed = TRUE] \in Row
    BY RowUpdates DEF TypeOK
  <2>. QED BY <1>3, <2>1 DEF TypeOK, Elapse, fates
<1>4. ASSUME NEW c \in Consumers, StallRecover(c) PROVE TypeOK'
  <2>1. \A j \in Jobs : [row[j] EXCEPT !.state = "waiting", !.claim = 0,
                                       !.stalls = @ + 1] \in Row
    BY RowUpdates DEF TypeOK
  <2>. QED BY <1>4, <2>1 DEF TypeOK, StallRecover, fates
<1>5. ASSUME NEW c \in Consumers, StallFail(c) PROVE TypeOK'
  <2>1. \A j \in Jobs : row[j].inc \in Nat /\ Absent(row[j].inc) \in Row
                        /\ Snap(j, row[j].claim) \in Fetched
    BY AbsentType, SnapType DEF TypeOK, Row
  <2>2. row' \in [Jobs -> Row]
    BY <1>5, <2>1 DEF TypeOK, StallFail
  <2>3. fetched' \in [Consumers -> SUBSET Fetched]
    BY <1>5, <2>1 DEF TypeOK, StallFail
  <2>4. pc' \in [Consumers -> {"recover", "fail", "report", "poll", "start", "exited"}]
    BY <1>5 DEF TypeOK, StallFail
  <2>5. faults' \in 0 .. MaxFaults /\ lost' \subseteq Jobs \X Nat
    BY <1>5, <2>1 DEF TypeOK, StallFail
  <2>. QED BY <1>5, <2>2, <2>3, <2>4, <2>5 DEF TypeOK, StallFail
<1>6. ASSUME NEW c \in Consumers, StallThrows(c) PROVE TypeOK'
  BY <1>6 DEF TypeOK, StallThrows, fates
<1>7. ASSUME NEW c \in Consumers, NEW r \in fetched[c], StallReport(c, r) PROVE TypeOK'
  <2>1. r.job \in Jobs /\ r.inc \in Nat
    BY DEF TypeOK, Fetched
  <2>. QED BY <1>7, <2>1 DEF TypeOK, StallReport
<1>8. ASSUME NEW c \in Consumers, NEW S \in SUBSET Jobs, Claim(c, S) PROVE TypeOK'
  <2>1. \A j \in Jobs : [row[j] EXCEPT !.state = "active", !.elapsed = FALSE,
                                       !.claim = nextClaim, !.claims = @ + 1] \in Row
    BY RowUpdates DEF TypeOK
  <2>2. row' \in [Jobs -> Row]
    BY <1>8, <2>1 DEF TypeOK, Claim, Claimed
  <2>3. {Snap(j, nextClaim) : j \in S} \subseteq Fetched
    BY SnapType DEF TypeOK
  <2>4. fetched' \in [Consumers -> SUBSET Fetched]
    BY <1>8, <2>3 DEF TypeOK, Claim
  <2>. QED BY <1>8, <2>2, <2>4, SMTT(30) DEF TypeOK, Claim, fates
<1>9. ASSUME NEW c \in Consumers, Idle(c) PROVE TypeOK'
  BY <1>9 DEF TypeOK, Idle, fates
<1>10. ASSUME NEW c \in Consumers, Start(c) PROVE TypeOK'
  <2>1. \A r \in fetched[c] : r.job \in Jobs /\ r.claim \in Nat /\ r.made \in Nat /\ r.inc \in Nat
    BY DEF TypeOK, Fetched
  <2>2. attempts' \subseteq Attempt
    <3>1. \A r \in fetched[c] :
            [job |-> r.job, cons |-> c, claim |-> r.claim, made |-> r.made,
             inc |-> r.inc, phase |-> "process", result |-> "none",
             done |-> FALSE] \in Attempt
      BY <2>1 DEF Attempt
    <3>. QED BY <1>10, <3>1 DEF TypeOK, Start
  <2>3. [j \in Jobs |-> IF \E r \in fetched[c] : r.job = j
                          THEN (CHOOSE r \in fetched[c] : r.job = j).claim
                          ELSE inFlight[c][j]] \in [Jobs -> Nat]
    BY <2>1 DEF TypeOK
  <2>4. inFlight' \in [Consumers -> [Jobs -> Nat]]
    BY <1>10, <2>3 DEF TypeOK, Start
  <2>. QED BY <1>10, <2>2, <2>4 DEF TypeOK, Start, fates
<1>11. ASSUME NEW c \in Consumers, Heartbeat(c) PROVE TypeOK'
  <2>1. \A j \in Jobs : [row[j] EXCEPT !.elapsed = FALSE] \in Row
    BY RowUpdates DEF TypeOK
  <2>. QED BY <1>11, <2>1 DEF TypeOK, Heartbeat, fates
<1>12. ASSUME NEW c \in Consumers, Close(c) \/ CloseDone(c) PROVE TypeOK'
  BY <1>12 DEF TypeOK, Close, CloseDone, fates
<1>13. ASSUME NEW c \in Consumers, LoopExit(c) PROVE TypeOK'
  <2>1. {<<j, inFlight[c][j]>> : j \in InFlight(c)} \subseteq Jobs \X Nat
    BY DEF TypeOK, InFlight
  <2>. QED BY <1>13, <2>1 DEF TypeOK, LoopExit, fates
<1>14. ASSUME NEW c \in Consumers, Crash(c) \/ Restart(c) PROVE TypeOK'
  <2>1. OwedBy({a \in Verdicts : a.cons = c} \cup Stalled(c)) \subseteq Jobs \X Nat
    BY DEF TypeOK, OwedBy, Verdicts, Stalled, Attempt, Fetched
  <2>2. Die(c)
    BY <1>14 DEF Crash, Restart
  <2>3. /\ attempts' \subseteq Attempt
        /\ inFlight' \in [Consumers -> [Jobs -> Nat]]
        /\ fetched' \in [Consumers -> SUBSET Fetched]
        /\ awaited' \in [Consumers -> SUBSET (Jobs \X Nat)]
        /\ lost' \subseteq Jobs \X Nat
    BY <2>1, <2>2 DEF TypeOK, Die
  <2>4. /\ faults' \in 0 .. MaxFaults
        /\ mode' \in [Consumers -> {"up", "closing", "down"}]
        /\ pc' \in [Consumers -> {"recover", "fail", "report", "poll", "start", "exited"}]
    BY <1>14 DEF TypeOK, Crash, Restart
  <2>. QED BY <2>2, <2>3, <2>4 DEF TypeOK, Die
<1>15. ASSUME NEW a \in attempts, UpdateData(a) PROVE TypeOK'
  <2>1. a.job \in Jobs /\ a.claim \in Nat
    BY DEF TypeOK, Attempt
  <2>2. [row[a.job] EXCEPT !.writer = a.claim] \in Row
    BY <2>1, RowUpdates DEF TypeOK
  <2>. QED BY <1>15, <2>1, <2>2 DEF TypeOK, UpdateData, fates
<1>16. ASSUME NEW a \in attempts, NEW res \in {"ok", "error", "final"}, Finish(a, res)
       PROVE TypeOK'
  <2>1. [a EXCEPT !.phase = "settle", !.result = res] \in Attempt
    BY DEF TypeOK, Attempt
  <2>. QED BY <1>16, <2>1 DEF TypeOK, Finish, fates
<1>17. ASSUME NEW a \in attempts, NEW due \in BOOLEAN, Settle(a, due) PROVE TypeOK'
  <2>1. [a EXCEPT !.phase = "report", !.done = ~WillRetry(a)] \in Attempt
    BY DEF TypeOK, Attempt, WillRetry
  <2>. QED BY <1>17, <2>1, SettledType DEF TypeOK, Settle, fates
<1>18. ASSUME NEW a \in attempts, SettleLost(a) \/ Report(a)
       PROVE TypeOK'
  <2>1. <<a.job, a.inc>> \in Jobs \X Nat /\ a.cons \in Consumers
    BY DEF TypeOK, Attempt
  <2>2. Leave(a) /\ attempts' = attempts \ {a} /\ reported' \subseteq Jobs \X Nat
    BY <1>18, <2>1 DEF TypeOK, SettleLost, Report, fates
  <2>3. inFlight' \in [Consumers -> [Jobs -> Nat]] /\ awaited' \in [Consumers -> SUBSET (Jobs \X Nat)]
    BY <2>1, <2>2 DEF TypeOK, Leave
  <2>. QED BY <1>18, <2>2, <2>3 DEF TypeOK, SettleLost, Report, fates
<1>19. ASSUME NEW a \in attempts, NEW due \in BOOLEAN, SettleThrows(a, due)
       PROVE TypeOK'
  <2>1. <<a.job, a.inc>> \in Jobs \X Nat /\ a.cons \in Consumers
    BY DEF TypeOK, Attempt
  <2>2. /\ Leave(a) /\ attempts' = attempts \ {a}
        /\ lost' \subseteq Jobs \X Nat
        /\ row' \in [Jobs -> Row]
        /\ faults' \in 0 .. MaxFaults
    BY <1>19, <2>1, SettledType DEF TypeOK, SettleThrows
  <2>3. inFlight' \in [Consumers -> [Jobs -> Nat]] /\ awaited' \in [Consumers -> SUBSET (Jobs \X Nat)]
    BY <2>1, <2>2 DEF TypeOK, Leave
  <2>. QED BY <1>19, <2>2, <2>3 DEF TypeOK, SettleThrows
<1>20. CASE UNCHANGED vars
  BY <1>20 DEF TypeOK, vars, fates
<1>. QED
  BY <1>1, <1>2, <1>3, <1>4, <1>5, <1>6, <1>7, <1>8, <1>9, <1>10, <1>11, <1>12,
     <1>13, <1>14, <1>15, <1>16, <1>17, <1>18, <1>19, <1>20
  DEF Next, Loop, Advance

LEMMA TypeInit == Init => TypeOK
BY ConstantsAssumption DEF Init, TypeOK, Row, Absent, Attempt

(* Type correctness of the transport: in particular every token a row, an   *)
(* attempt or a map holds is a number, and faults stay within their bound.  *)
THEOREM TypeCorrect == Spec => []TypeOK
BY TypeInit, TypeNext, PTL DEF Spec
-----------------------------------------------------------------------------
(* The fence.  Most steps create no token and no holder of one: they keep   *)
(* FenceInv for one reason, stated once.                                    *)
LEMMA NoNewHolder ==
  ASSUME TypeOK, FenceInv,
         nextClaim' = nextClaim,
         attempts' \subseteq attempts,
         \A c \in Consumers : Started(c)' \subseteq Started(c),
         \A c \in Consumers : fetched'[c] # {} => pc'[c] \in {"start", "report"},
         \A j \in Jobs :
           \/ row'[j].claim = 0
           \/ /\ row'[j].state = row[j].state /\ row'[j].claim = row[j].claim
              /\ row'[j].made = row[j].made   /\ row'[j].inc = row[j].inc
  PROVE  FenceInv'
<1>1. \A j \in Jobs : row'[j].claim < nextClaim'
  BY DEF FenceInv, TypeOK
<1>2. \A a \in attempts' : a \in attempts /\ a.job \in Jobs /\ a.claim # 0
  BY DEF FenceInv, TypeOK, Attempt
<1>3. \A a \in attempts' : Owns(a)' => /\ Owns(a)
                                        /\ row'[a.job].state = row[a.job].state
                                        /\ row'[a.job].made = row[a.job].made
                                        /\ row'[a.job].inc = row[a.job].inc
  BY <1>2 DEF Owns, Present
<1>4. \A c \in Consumers : \A r \in Started(c)' :
        r \in Started(c) /\ r.job \in Jobs /\ r.claim # 0
  BY DEF FenceInv, TypeOK, Started, Fetched
<1>5. \A c \in Consumers : \A r \in Started(c)' :
        Owns(r)' => /\ Owns(r)
                    /\ row'[r.job].state = row[r.job].state
                    /\ row'[r.job].made = row[r.job].made
                    /\ row'[r.job].inc = row[r.job].inc
  BY <1>4 DEF Owns, Present
<1>6. /\ \A a \in attempts' : a.claim \in 1 .. nextClaim' - 1
      /\ \A c \in Consumers : \A r \in Started(c)' : r.claim \in 1 .. nextClaim' - 1
      /\ \A a, b \in attempts' : a.job = b.job /\ a.claim = b.claim => a = b
      /\ \A a \in attempts', c \in Consumers : \A r \in Started(c)' :
           ~(a.job = r.job /\ a.claim = r.claim)
      /\ \A c, d \in Consumers : \A r \in Started(c)', s \in Started(d)' :
           r.job = s.job /\ r.claim = s.claim => c = d /\ r = s
  BY <1>2, <1>4 DEF FenceInv
<1>7. \A a \in attempts' : a.phase # "report" =>
       /\ ~a.done
       /\ Owns(a)' => /\ row'[a.job].state = "active"
                      /\ a.made = row'[a.job].made /\ a.inc = row'[a.job].inc
  BY <1>2, <1>3 DEF FenceInv
<1>8. \A c \in Consumers : \A r \in Started(c)' : Owns(r)' =>
       /\ row'[r.job].state = "active"
       /\ r.made = row'[r.job].made /\ r.inc = row'[r.job].inc
  BY <1>4, <1>5 DEF FenceInv
<1>. QED BY <1>1, <1>6, <1>7, <1>8 DEF FenceInv

LEMMA FenceInit == Init => FenceInv
BY ConstantsAssumption DEF Init, FenceInv, Started, Absent

LEMMA FenceClaim ==
  ASSUME TypeOK, FenceInv, NEW c \in Consumers, NEW S \in SUBSET Jobs, Claim(c, S)
  PROVE  FenceInv'
<1>1. /\ nextClaim \in Nat \ {0} /\ nextClaim' = nextClaim + 1
      /\ attempts' = attempts /\ fetched \in [Consumers -> SUBSET Fetched]
      /\ attempts \subseteq Attempt /\ row \in [Jobs -> Row]
      /\ pc \in [Consumers -> {"recover", "fail", "report", "poll", "start", "exited"}]
  BY DEF Claim, TypeOK
<1>2. \A j \in S : row[j].state = "waiting"
  BY DEF Claim, Claimable, Due
<1>3. \A j \in Jobs \ S : row'[j] = row[j]
  BY DEF Claim, Claimed
<1>4. \A j \in S : /\ row'[j].state = "active" /\ row'[j].claim = nextClaim
                   /\ row'[j].made = row[j].made /\ row'[j].inc = row[j].inc
  <2>. TAKE j \in S
  <2>1. row'[j] = [row[j] EXCEPT !.state = "active", !.elapsed = FALSE,
                                 !.claim = nextClaim, !.claims = @ + 1]
    BY DEF Claim, Claimed
  <2>2. row[j] \in Row
    BY <1>1
  <2>. QED BY <2>1, <2>2 DEF Row
<1>5. \A d \in Consumers : \A r \in Started(d)' :
        \/ r \in Started(d)
        \/ d = c /\ \E j \in S : r = Snap(j, nextClaim)
  BY <1>1 DEF Claim, Started
<1>6. \A j \in S : LET r == Snap(j, nextClaim)
                  IN /\ r.job = j /\ r.claim = nextClaim
                     /\ r.made = row[j].made /\ r.inc = row[j].inc
  BY DEF Snap
<1>7. Started(c) = {}
  BY DEF Claim, Started
<1>8. \A a \in attempts : a.job \in Jobs /\ a.claim < nextClaim /\ a.claim # nextClaim /\ a.claim \in Nat
  BY <1>1 DEF FenceInv, Attempt
<1>9. \A d \in Consumers : \A r \in Started(d) :
        r.job \in Jobs /\ r.claim < nextClaim /\ r.claim # nextClaim /\ r.claim \in Nat
  BY <1>1 DEF FenceInv, Started, Fetched
<1>10. \A j \in Jobs : row'[j].claim < nextClaim'
  BY <1>1, <1>3, <1>4 DEF FenceInv, Row
<1>11. \A a \in attempts' : a.claim \in 1 .. nextClaim' - 1
  BY <1>1 DEF FenceInv
<1>12. \A d \in Consumers : fetched'[d] # {} => pc'[d] \in {"start", "report"}
  <2>1. fetched[c] = {}
    BY DEF Claim, FenceInv
  <2>. QED BY <1>1, <2>1 DEF Claim, FenceInv
<1>13. \A d \in Consumers : \A r \in Started(d)' : r.claim \in 1 .. nextClaim' - 1
  BY <1>1, <1>5, <1>6 DEF FenceInv
<1>14. \A a \in attempts', d \in Consumers : \A r \in Started(d)' :
         ~(a.job = r.job /\ a.claim = r.claim)
  BY <1>1, <1>5, <1>6, <1>8 DEF FenceInv
<1>15. \A d, e \in Consumers : \A r \in Started(d)', s \in Started(e)' :
         r.job = s.job /\ r.claim = s.claim => d = e /\ r = s
  BY <1>5, <1>6, <1>9 DEF FenceInv
<1>16. \A a \in attempts' : a.phase # "report" =>
         /\ ~a.done
         /\ Owns(a)' => /\ row'[a.job].state = "active"
                        /\ a.made = row'[a.job].made /\ a.inc = row'[a.job].inc
  BY <1>1, <1>3, <1>4, <1>8 DEF FenceInv, Owns, Present
<1>17. \A d \in Consumers : \A r \in Started(d)' : Owns(r)' =>
         /\ row'[r.job].state = "active"
         /\ r.made = row'[r.job].made /\ r.inc = row'[r.job].inc
  BY <1>3, <1>4, <1>5, <1>6, <1>9 DEF FenceInv, Owns, Present
<1>18. \A a, b \in attempts' : a.job = b.job /\ a.claim = b.claim => a = b
  BY <1>1 DEF FenceInv
<1>. QED BY <1>10, <1>11, <1>12, <1>13, <1>14, <1>15, <1>16, <1>17, <1>18 DEF FenceInv

LEMMA FenceStart ==
  ASSUME TypeOK, FenceInv, NEW c \in Consumers, Start(c)
  PROVE  FenceInv'
<1>1. /\ row' = row /\ nextClaim' = nextClaim /\ Started(c) = fetched[c]
      /\ fetched' = [fetched EXCEPT ![c] = {}] /\ fetched \in [Consumers -> SUBSET Fetched]
      /\ pc' = [pc EXCEPT ![c] = "recover"]
      /\ pc \in [Consumers -> {"recover", "fail", "report", "poll", "start", "exited"}]
  BY DEF Start, Started, TypeOK
<1>2. \A d \in Consumers : \A r \in Started(d)' : d # c /\ r \in Started(d)
  BY <1>1 DEF Started
<1>3. \A a \in attempts' :
        \/ a \in attempts
        \/ /\ a.phase = "process" /\ ~a.done
           /\ \E r \in Started(c) : /\ a.job = r.job /\ a.claim = r.claim
                                   /\ a.made = r.made /\ a.inc = r.inc
                                   /\ a = [job |-> r.job, cons |-> c, claim |-> r.claim,
                                           made |-> r.made, inc |-> r.inc,
                                           phase |-> "process", result |-> "none",
                                           done |-> FALSE]
  BY <1>1 DEF Start
<1>4. \A a \in attempts' : a.claim \in 1 .. nextClaim' - 1
  BY <1>1, <1>3 DEF FenceInv
<1>5. \A a, b \in attempts' : a.job = b.job /\ a.claim = b.claim => a = b
  <2>. SUFFICES ASSUME NEW a \in attempts', NEW b \in attempts',
                       a.job = b.job, a.claim = b.claim
                PROVE  a = b
    OBVIOUS
  <2>1. CASE a \in attempts /\ b \in attempts
    BY <2>1 DEF FenceInv
  <2>2. CASE a \in attempts /\ b \notin attempts
    BY <1>3, <2>2 DEF FenceInv
  <2>3. CASE a \notin attempts /\ b \in attempts
    BY <1>3, <2>3 DEF FenceInv
  <2>4. CASE a \notin attempts /\ b \notin attempts
    <3>1. PICK r \in Started(c) :
            /\ a.job = r.job /\ a.claim = r.claim
            /\ a = [job |-> r.job, cons |-> c, claim |-> r.claim, made |-> r.made,
                    inc |-> r.inc, phase |-> "process", result |-> "none", done |-> FALSE]
      BY <1>3, <2>4
    <3>2. PICK s \in Started(c) :
            /\ b.job = s.job /\ b.claim = s.claim
            /\ b = [job |-> s.job, cons |-> c, claim |-> s.claim, made |-> s.made,
                    inc |-> s.inc, phase |-> "process", result |-> "none", done |-> FALSE]
      BY <1>3, <2>4
    <3>3. r = s
      BY <3>1, <3>2 DEF FenceInv
    <3>. QED BY <3>1, <3>2, <3>3
  <2>. QED BY <2>1, <2>2, <2>3, <2>4
<1>6. \A a \in attempts', d \in Consumers : \A r \in Started(d)' :
        ~(a.job = r.job /\ a.claim = r.claim)
  BY <1>2, <1>3 DEF FenceInv
<1>7. \A a \in attempts' : a.phase # "report" =>
        /\ ~a.done
        /\ Owns(a)' => /\ row'[a.job].state = "active"
                       /\ a.made = row'[a.job].made /\ a.inc = row'[a.job].inc
  BY <1>1, <1>3 DEF FenceInv, Owns, Present
<1>8. \A d \in Consumers : fetched'[d] # {} => pc'[d] \in {"start", "report"}
  BY <1>1 DEF FenceInv
<1>9. /\ \A d \in Consumers : \A r \in Started(d)' : r.claim \in 1 .. nextClaim' - 1
      /\ \A d, e \in Consumers : \A r \in Started(d)', s \in Started(e)' :
           r.job = s.job /\ r.claim = s.claim => d = e /\ r = s
      /\ \A d \in Consumers : \A r \in Started(d)' : Owns(r)' =>
           /\ row'[r.job].state = "active"
           /\ r.made = row'[r.job].made /\ r.inc = row'[r.job].inc
  BY <1>1, <1>2 DEF FenceInv, Owns, Present
<1>. QED BY <1>1, <1>4, <1>5, <1>6, <1>7, <1>8, <1>9 DEF FenceInv

(* A settlement, whether or not its caller hears of it, leaves behind no    *)
(* attempt that could settle the row again.                                 *)
LEMMA FenceSettled ==
  ASSUME TypeOK, FenceInv, NEW a \in attempts, NEW due \in BOOLEAN,
         a.phase = "settle", Owns(a), row' = Settled(a, due),
         nextClaim' = nextClaim, pc' = pc, fetched' = fetched,
         \A b \in attempts' :
           \/ b \in attempts \ {a}
           \/ b.phase = "report" /\ b.job = a.job /\ b.claim = a.claim,
         \A b, d \in attempts' \ attempts : b = d
  PROVE  FenceInv'
<1>1. row \in [Jobs -> Row] /\ attempts \subseteq Attempt /\ a.job \in Jobs /\ nextClaim \in Nat
  BY DEF TypeOK, Attempt
<1>2. \A j \in Jobs \ {a.job} : row'[j] = row[j]
  BY <1>1 DEF Settled
<1>3. row'[a.job].claim = row[a.job].claim \/ row'[a.job].claim = 0
  BY <1>1 DEF Settled, Absent, Row
<1>4. \A c \in Consumers : Started(c)' = Started(c) /\ Started(c) \subseteq Fetched
  BY DEF Started, TypeOK
<1>5. \A b \in attempts \ {a} : Owns(b)' => Owns(b) /\ row'[b.job] = row[b.job]
  <2>. SUFFICES ASSUME NEW b \in attempts \ {a}, Owns(b)'
                PROVE  b.job # a.job
    BY <1>1, <1>2 DEF Owns, Present, Attempt
  <2>1. b.claim # 0 /\ (b.job = a.job => b.claim # a.claim)
    BY DEF FenceInv
  <2>. QED BY <1>3, <2>1 DEF Owns
<1>6. \A c \in Consumers : \A r \in Started(c) : Owns(r)' => Owns(r) /\ row'[r.job] = row[r.job]
  <2>. SUFFICES ASSUME NEW c \in Consumers, NEW r \in Started(c), Owns(r)'
                PROVE  r.job # a.job
    BY <1>1, <1>2, <1>4 DEF Owns, Present, Fetched
  <2>1. r.claim # 0 /\ (r.job = a.job => r.claim # a.claim)
    BY DEF FenceInv
  <2>. QED BY <1>3, <2>1 DEF Owns
<1>7. \A j \in Jobs : row'[j].claim < nextClaim'
  BY <1>1, <1>2, <1>3 DEF FenceInv
<1>8. \A b, d \in attempts' : b.job = d.job /\ b.claim = d.claim => b = d
  BY DEF FenceInv
<1>9. /\ \A b \in attempts' : b.claim \in 1 .. nextClaim' - 1
      /\ \A c \in Consumers : fetched'[c] # {} => pc'[c] \in {"start", "report"}
      /\ \A c \in Consumers : \A r \in Started(c)' : r.claim \in 1 .. nextClaim' - 1
      /\ \A b \in attempts', c \in Consumers : \A r \in Started(c)' :
           ~(b.job = r.job /\ b.claim = r.claim)
      /\ \A c, d \in Consumers : \A r \in Started(c)', s \in Started(d)' :
           r.job = s.job /\ r.claim = s.claim => c = d /\ r = s
  BY <1>4 DEF FenceInv
<1>10. \A b \in attempts' : b.phase # "report" =>
        /\ ~b.done
        /\ Owns(b)' => /\ row'[b.job].state = "active"
                       /\ b.made = row'[b.job].made /\ b.inc = row'[b.job].inc
  BY <1>5 DEF FenceInv
<1>11. \A c \in Consumers : \A r \in Started(c)' : Owns(r)' =>
        /\ row'[r.job].state = "active"
        /\ r.made = row'[r.job].made /\ r.inc = row'[r.job].inc
  BY <1>4, <1>6 DEF FenceInv
<1>. QED BY <1>7, <1>8, <1>9, <1>10, <1>11 DEF FenceInv

LEMMA FenceFinish ==
  ASSUME TypeOK, FenceInv, NEW a \in attempts, NEW res \in {"ok", "error", "final"},
         Finish(a, res)
  PROVE  FenceInv'
<1>. DEFINE b == [a EXCEPT !.phase = "settle", !.result = res]
<1>1. /\ b.job = a.job /\ b.claim = a.claim /\ b.made = a.made /\ b.inc = a.inc
      /\ b.done = a.done /\ b.phase = "settle" /\ a.phase = "process"
  BY DEF Finish, TypeOK, Attempt
<1>2. \A d \in attempts' : d \in attempts \ {a} \/ d = b
  BY DEF Finish
<1>3. /\ row' = row /\ nextClaim' = nextClaim /\ fetched' = fetched /\ pc' = pc
      /\ \A c \in Consumers : Started(c)' = Started(c)
  BY DEF Finish, Started
<1>. HIDE DEF b
<1>4. \A d, e \in attempts' : d.job = e.job /\ d.claim = e.claim => d = e
  BY <1>1, <1>2 DEF FenceInv
<1>5. \A d \in attempts' : d.phase # "report" =>
        /\ ~d.done
        /\ Owns(d)' => /\ row'[d.job].state = "active"
                       /\ d.made = row'[d.job].made /\ d.inc = row'[d.job].inc
  BY <1>1, <1>2, <1>3 DEF FenceInv, Owns, Present
<1>6. /\ \A d \in attempts' : d.claim \in 1 .. nextClaim' - 1
      /\ \A d \in attempts', c \in Consumers : \A r \in Started(c)' :
           ~(d.job = r.job /\ d.claim = r.claim)
  BY <1>1, <1>2, <1>3 DEF FenceInv
<1>7. \A c \in Consumers : \A r \in Started(c)' : Owns(r)' =>
        /\ row'[r.job].state = "active"
        /\ r.made = row'[r.job].made /\ r.inc = row'[r.job].inc
  BY <1>3 DEF FenceInv, Owns, Present
<1>. QED BY <1>3, <1>4, <1>5, <1>6, <1>7 DEF FenceInv

LEMMA FenceNext == TypeOK /\ FenceInv /\ [Next]_vars => FenceInv'
<1>. SUFFICES ASSUME TypeOK, FenceInv, [Next]_vars PROVE FenceInv'
  OBVIOUS
<1>. USE DEF fates
<1>0. ASSUME nextClaim' = nextClaim, attempts' \subseteq attempts,
             fetched' = fetched, \A c \in Consumers : Started(c)' \subseteq Started(c),
             \A c \in Consumers : fetched[c] # {} => pc'[c] \in {"start", "report"},
             \A j \in Jobs :
               \/ row'[j].claim = 0
               \/ /\ row'[j].state = row[j].state /\ row'[j].claim = row[j].claim
                  /\ row'[j].made = row[j].made   /\ row'[j].inc = row[j].inc
      PROVE FenceInv'
  BY <1>0, NoNewHolder
<1>1. ASSUME NEW j \in Jobs,
             (\E due \in BOOLEAN : Enqueue(j, due)) \/ Remove(j) \/ Elapse(j)
      PROVE FenceInv'
  <2>1. /\ nextClaim' = nextClaim /\ attempts' = attempts
        /\ fetched' = fetched /\ pc' = pc /\ \A c \in Consumers : Started(c)' = Started(c)
    BY <1>1 DEF Enqueue, Remove, Elapse, Started
  <2>2. \A i \in Jobs \ {j} : row'[i] = row[i]
    BY <1>1 DEF TypeOK, Enqueue, Remove, Elapse
  <2>3. \/ row'[j].claim = 0
        \/ /\ row'[j].state = row[j].state /\ row'[j].claim = row[j].claim
           /\ row'[j].made = row[j].made   /\ row'[j].inc = row[j].inc
    <3>1. CASE \E due \in BOOLEAN : Enqueue(j, due)
      BY <3>1 DEF TypeOK, Enqueue, Absent
    <3>2. CASE Remove(j)
      BY <3>2 DEF TypeOK, Remove, Absent
    <3>3. CASE Elapse(j)
      BY <3>3 DEF TypeOK, Elapse, Row
    <3>. QED BY <1>1, <3>1, <3>2, <3>3
  <2>. QED BY <1>0, <2>1, <2>2, <2>3 DEF FenceInv
<1>2. ASSUME NEW c \in Consumers, StallRecover(c) PROVE FenceInv'
  <2>1. \A j \in Jobs : row'[j] = row[j] \/ row'[j].claim = 0
    BY <1>2, ZenonT(40) DEF TypeOK, StallRecover, Row
  <2>2. \A d \in Consumers : Started(d)' \subseteq Started(d)
    BY <1>2 DEF TypeOK, StallRecover, Started, FenceInv
  <2>2a. \A d \in Consumers : fetched[d] # {} => pc'[d] \in {"start", "report"}
    BY <1>2 DEF TypeOK, StallRecover, Started, FenceInv
  <2>. QED BY <1>0, <1>2, <2>1, <2>2, <2>2a DEF StallRecover
<1>3. ASSUME NEW c \in Consumers, StallFail(c) PROVE FenceInv'
  <2>1. \A j \in Jobs : row'[j] = row[j] \/ row'[j].claim = 0
    BY <1>3 DEF TypeOK, StallFail, Absent
  <2>2. fetched[c] = {}
    BY <1>3 DEF StallFail, FenceInv
  <2>3. \A d \in Consumers : Started(d)' \subseteq Started(d)
    BY <1>3, <2>2 DEF TypeOK, StallFail, Started, FenceInv
  <2>3a. \A d \in Consumers : fetched'[d] # {} => pc'[d] \in {"start", "report"}
    BY <1>3, <2>2, SMTT(30) DEF TypeOK, StallFail, Started, FenceInv
  <2>. QED BY <1>3, <2>1, <2>3, <2>3a, NoNewHolder DEF StallFail
<1>4. ASSUME NEW c \in Consumers,
             StallThrows(c) \/ (\E r \in fetched[c] : StallReport(c, r)) \/ Idle(c)
      PROVE FenceInv'
  <2>1. \A d \in Consumers : Started(d)' \subseteq Started(d)
    BY <1>4 DEF TypeOK, StallThrows, StallReport, Idle, Started, FenceInv
  <2>1a. \A d \in Consumers : fetched'[d] # {} => pc'[d] \in {"start", "report"}
    BY <1>4 DEF TypeOK, StallThrows, StallReport, Idle, Started, FenceInv
  <2>2. row' = row /\ nextClaim' = nextClaim /\ attempts' = attempts
    BY <1>4 DEF StallThrows, StallReport, Idle
  <2>. QED BY <2>1, <2>1a, <2>2, NoNewHolder
<1>5. ASSUME NEW c \in Consumers, Heartbeat(c) PROVE FenceInv'
  <2>1. \A j \in Jobs : /\ row'[j].state = row[j].state /\ row'[j].claim = row[j].claim
                       /\ row'[j].made = row[j].made   /\ row'[j].inc = row[j].inc
    BY <1>5 DEF TypeOK, Heartbeat, Row
  <2>. QED BY <1>0, <1>5, <2>1 DEF Heartbeat, FenceInv, Started
<1>6. ASSUME NEW c \in Consumers, Close(c) \/ LoopExit(c) \/ CloseDone(c) PROVE FenceInv'
  <2>1. \A d \in Consumers : Started(d)' \subseteq Started(d)
    BY <1>6 DEF TypeOK, Close, LoopExit, CloseDone, Started, FenceInv
  <2>1a. \A d \in Consumers : fetched[d] # {} => pc'[d] \in {"start", "report"}
    BY <1>6 DEF TypeOK, Close, LoopExit, CloseDone, Started, FenceInv
  <2>. QED BY <1>0, <1>6, <2>1, <2>1a DEF Close, LoopExit, CloseDone
<1>7. ASSUME NEW c \in Consumers, Crash(c) \/ Restart(c) PROVE FenceInv'
  <2>1. \A d \in Consumers : Started(d)' \subseteq Started(d)
    BY <1>7 DEF TypeOK, Crash, Restart, Die, Started, FenceInv
  <2>1a. \A d \in Consumers : fetched'[d] # {} => pc'[d] \in {"start", "report"}
    BY <1>7 DEF TypeOK, Crash, Restart, Die, Started, FenceInv
  <2>2. row' = row /\ nextClaim' = nextClaim /\ attempts' \subseteq attempts
    BY <1>7 DEF Crash, Restart, Die
  <2>. QED BY <2>1, <2>1a, <2>2, NoNewHolder
<1>8. ASSUME NEW a \in attempts, UpdateData(a) PROVE FenceInv'
  <2>1. \A j \in Jobs : /\ row'[j].state = row[j].state /\ row'[j].claim = row[j].claim
                       /\ row'[j].made = row[j].made   /\ row'[j].inc = row[j].inc
    BY <1>8 DEF TypeOK, UpdateData, Row
  <2>. QED BY <1>0, <1>8, <2>1 DEF UpdateData, FenceInv, Started
<1>9. ASSUME NEW a \in attempts, SettleLost(a) \/ Report(a) PROVE FenceInv'
  BY <1>0, <1>9 DEF SettleLost, Report, FenceInv, Started
<1>10. ASSUME NEW a \in attempts, NEW due \in BOOLEAN, Settle(a, due) PROVE FenceInv'
  <2>. DEFINE b == [a EXCEPT !.phase = "report", !.done = ~WillRetry(a)]
  <2>1. b.phase = "report" /\ b.job = a.job /\ b.claim = a.claim
    BY DEF TypeOK, Attempt
  <2>2. \A d \in attempts' : d \in attempts \ {a} \/ d = b
    BY <1>10 DEF Settle
  <2>3. a.phase = "settle" /\ Owns(a) /\ row' = Settled(a, due) /\ nextClaim' = nextClaim
        /\ pc' = pc /\ fetched' = fetched
    BY <1>10 DEF Settle
  <2>. HIDE DEF b
  <2>. QED BY <2>1, <2>2, <2>3, FenceSettled
<1>11. ASSUME NEW a \in attempts, NEW due \in BOOLEAN, SettleThrows(a, due)
       PROVE FenceInv'
  <2>1. attempts' = attempts \ {a} /\ nextClaim' = nextClaim /\ pc' = pc /\ fetched' = fetched
        /\ a.phase = "settle"
    BY <1>11 DEF SettleThrows
  <2>2. CASE row' = row
    BY <1>0, <2>1, <2>2 DEF FenceInv, Started
  <2>3. CASE Owns(a) /\ row' = Settled(a, due)
    BY <2>1, <2>3, FenceSettled
  <2>. QED BY <1>11, <2>2, <2>3 DEF SettleThrows
<1>12. CASE UNCHANGED vars
  BY <1>0, <1>12 DEF vars, FenceInv, Started
<1>. QED
  BY <1>1, <1>2, <1>3, <1>4, <1>5, <1>6, <1>7, <1>8, <1>9, <1>10, <1>11, <1>12,
     FenceClaim, FenceStart, FenceFinish
  DEF Next, Loop, Advance

(* The fence holds in every reachable state: tokens are fresh and never     *)
(* shared, and an attempt that can still settle a row knows its state.      *)
THEOREM Fenced == Spec => []FenceInv
BY TypeCorrect, FenceInit, FenceNext, PTL DEF Spec

(* Of all the attempts at a job in all worker processes, at most one can    *)
(* settle it: late settlements after a stall are no-ops.                    *)
THEOREM OneOwner == Spec => []SingleOwner
<1>1. FenceInv => SingleOwner
  BY DEF FenceInv, SingleOwner, Owns
<1>. QED BY <1>1, Fenced, PTL
-----------------------------------------------------------------------------
(* The claim budget, one row at a time.                                    *)
Paid(r) ==
  r.state # "absent" =>
    /\ r.claims = r.made + r.stalls + (IF r.state = "active" THEN 1 ELSE 0)
    /\ r.made < Attempts
    /\ r.stalls <= MaxStalled

LEMMA PaidNext ==
  ASSUME TypeOK, FenceInv, \A j \in Jobs : Paid(row[j]), [Next]_vars, NEW j \in Jobs
  PROVE  Paid(row'[j])
<1>. USE ConstantsAssumption
<1>. row[j] \in Row /\ Paid(row[j])
  BY DEF TypeOK
<1>0. CASE row'[j] = row[j]
  BY <1>0
<1>1. CASE row'[j].state = "absent"
  BY <1>1 DEF Paid
<1>2. ASSUME /\ row'[j].state = row[j].state /\ row'[j].made = row[j].made
             /\ row'[j].stalls = row[j].stalls /\ row'[j].claims = row[j].claims
      PROVE  Paid(row'[j])
  BY <1>2 DEF Paid
<1>3. ASSUME NEW i \in Jobs, NEW due \in BOOLEAN, Enqueue(i, due)
      PROVE  Paid(row'[j])
  <2>1. CASE i = j
    BY <1>3, <2>1 DEF Enqueue, TypeOK, Absent, Paid
  <2>2. CASE i # j
    BY <1>3, <2>2, <1>0 DEF Enqueue, TypeOK
  <2>. QED BY <2>1, <2>2
<1>4. ASSUME NEW i \in Jobs, Remove(i) PROVE Paid(row'[j])
  BY <1>0, <1>1, <1>4 DEF Remove, TypeOK, Absent
<1>5. ASSUME NEW i \in Jobs, Elapse(i) PROVE Paid(row'[j])
  BY <1>0, <1>2, <1>5 DEF Elapse, TypeOK, Row
<1>6. ASSUME NEW c \in Consumers, StallRecover(c) PROVE Paid(row'[j])
  <2>1. CASE Expired(j) /\ row[j].stalls < MaxStalled
    <3>1. row'[j] = [row[j] EXCEPT !.state = "waiting", !.claim = 0, !.stalls = @ + 1]
      BY <1>6, <2>1 DEF StallRecover
    <3>. QED BY <2>1, <3>1 DEF Expired, Paid, Row
  <2>2. CASE ~(Expired(j) /\ row[j].stalls < MaxStalled)
    BY <1>0, <1>6, <2>2 DEF StallRecover
  <2>. QED BY <2>1, <2>2
<1>7. ASSUME NEW c \in Consumers, StallFail(c) PROVE Paid(row'[j])
  BY <1>0, <1>1, <1>7 DEF StallFail, Absent
<1>8. ASSUME NEW c \in Consumers, NEW S \in SUBSET Jobs, Claim(c, S)
      PROVE  Paid(row'[j])
  <2>1. CASE j \in S
    <3>1. row'[j] = [row[j] EXCEPT !.state = "active", !.elapsed = FALSE,
                                   !.claim = nextClaim, !.claims = @ + 1]
      BY <1>8, <2>1 DEF Claim, Claimed
    <3>2. row[j].state = "waiting"
      BY <1>8, <2>1 DEF Claim, Claimable, Due
    <3>. QED BY <3>1, <3>2 DEF Paid, Row
  <2>2. CASE j \notin S
    BY <1>0, <1>8, <2>2 DEF Claim, Claimed
  <2>. QED BY <2>1, <2>2
<1>9. ASSUME NEW c \in Consumers, Heartbeat(c) PROVE Paid(row'[j])
  BY <1>0, <1>2, <1>9 DEF Heartbeat, Row
<1>10. ASSUME NEW a \in attempts, UpdateData(a) PROVE Paid(row'[j])
  BY <1>0, <1>2, <1>10 DEF UpdateData, TypeOK, Row
<1>11. ASSUME NEW a \in attempts, NEW due \in BOOLEAN,
              a.phase = "settle", Owns(a), row' = Settled(a, due)
       PROVE  Paid(row'[j])
  <2>1. CASE j = a.job /\ WillRetry(a)
    <3>1. row'[j] = [row[j] EXCEPT !.state = "waiting", !.elapsed = due, !.made = a.made + 1]
      BY <1>11, <2>1 DEF Settled, TypeOK
    <3>2. row[j].state = "active" /\ a.made = row[j].made
      BY <1>11, <2>1 DEF FenceInv
    <3>3. row'[j].state = "waiting" /\ row'[j].made = row[j].made + 1
          /\ row'[j].stalls = row[j].stalls /\ row'[j].claims = row[j].claims
      BY <3>1, <3>2 DEF Row
    <3>. QED BY <2>1, <3>2, <3>3 DEF Paid, WillRetry, Row
  <2>2. CASE ~(j = a.job /\ WillRetry(a))
    BY <1>0, <1>1, <1>11, <2>2 DEF Settled, Absent, TypeOK
  <2>. QED BY <2>1, <2>2
<1>12. ASSUME NEW c \in Consumers,
              StallThrows(c) \/ (\E r \in fetched[c] : StallReport(c, r)) \/ Idle(c)
              \/ Start(c) \/ Close(c) \/ LoopExit(c) \/ CloseDone(c) \/ Crash(c) \/ Restart(c)
       PROVE  Paid(row'[j])
  BY <1>0, <1>12 DEF StallThrows, StallReport, Idle, Start, Close, LoopExit,
                     CloseDone, Crash, Restart, Die
<1>13. ASSUME NEW a \in attempts, Advance(a) PROVE Paid(row'[j])
  <2>1. CASE \E due \in BOOLEAN : Settle(a, due)
    BY <1>11, <2>1 DEF Settle
  <2>2. CASE ~ \E due \in BOOLEAN : Settle(a, due)
    BY <1>0, <1>13, <2>2 DEF Advance, Finish, SettleLost, Report
  <2>. QED BY <2>1, <2>2
<1>14. ASSUME NEW a \in attempts, NEW due \in BOOLEAN, SettleThrows(a, due)
       PROVE  Paid(row'[j])
  BY <1>0, <1>11, <1>14 DEF SettleThrows
<1>15. CASE UNCHANGED vars
  BY <1>0, <1>15 DEF vars
<1>. QED
  BY <1>3, <1>4, <1>5, <1>6, <1>7, <1>8, <1>9, <1>10, <1>12, <1>13, <1>14, <1>15
  DEF Next, Loop

(* Every claim of a job is paid for by a counted failure or a counted       *)
(* stall, whatever crashes, retries and late settlements do.                *)
THEOREM BudgetKept == Spec => []ClaimsPaid
<1>1. ClaimsPaid <=> \A j \in Jobs : Paid(row[j])
  BY DEF ClaimsPaid, Paid, Present
<1>2. Init => ClaimsPaid
  BY DEF Init, ClaimsPaid, Present, Absent
<1>3. TypeOK /\ FenceInv /\ ClaimsPaid /\ [Next]_vars => ClaimsPaid'
  <2>1. ClaimsPaid' <=> \A j \in Jobs : Paid(row'[j])
    BY DEF ClaimsPaid, Paid, Present
  <2>. QED BY <1>1, <2>1, PaidNext
<1>. QED BY <1>2, <1>3, TypeCorrect, Fenced, PTL DEF Spec

(* So a handler is given a job at most Attempts + MaxStalled times.        *)
THEOREM RunsBounded ==
  Spec => [](\A j \in Jobs : Present(j) => row[j].claims <= Attempts + MaxStalled)
<1>1. TypeOK /\ ClaimsPaid
       => \A j \in Jobs : Present(j) => row[j].claims <= Attempts + MaxStalled
  BY ConstantsAssumption DEF TypeOK, ClaimsPaid, Present, Row
<1>. QED BY <1>1, BudgetKept, TypeCorrect, PTL

-----------------------------------------------------------------------------
(* A live lease protects its claim: only the claimant's own settlement      *)
(* takes the row from it before the lease has elapsed.                      *)
THEOREM LeaseHolds == Spec => LeaseProtects
<1>. DEFINE Guarded(j) ==
       /\ row[j].state = "active" /\ ~row[j].elapsed
       /\ row'[j].state # "active" \/ row'[j].claim # row[j].claim
       => \E a \in attempts :
            a.job = j /\ a.claim = row[j].claim /\ a.phase = "settle"
<1>1. ASSUME TypeOK, [Next]_vars, NEW j \in Jobs PROVE Guarded(j)
  <2>. SUFFICES ASSUME row[j].state = "active", ~row[j].elapsed,
                       row'[j].state # "active" \/ row'[j].claim # row[j].claim
                PROVE  \E a \in attempts :
                         a.job = j /\ a.claim = row[j].claim /\ a.phase = "settle"
    BY <1>1
  <2>. row[j] \in Row /\ row \in [Jobs -> Row]
    BY <1>1 DEF TypeOK
  <2>0. row'[j] # row[j]
    OBVIOUS
  <2>1. ASSUME NEW i \in Jobs,
               (\E due \in BOOLEAN : Enqueue(i, due)) \/ Remove(i) \/ Elapse(i)
        PROVE  FALSE
    <3>1. i = j
      BY <2>0, <2>1 DEF Enqueue, Remove, Elapse
    <3>. QED BY <2>1, <3>1, ZenonT(40) DEF Enqueue, Remove, Elapse, Present, Row
  <2>2. ASSUME NEW c \in Consumers, StallRecover(c) \/ StallFail(c) PROVE FALSE
    BY <2>0, <2>2 DEF StallRecover, StallFail, Expired
  <2>3. ASSUME NEW c \in Consumers, NEW S \in SUBSET Jobs, Claim(c, S) PROVE FALSE
    <3>1. j \notin S
      BY <2>3 DEF Claim, Claimable, Due
    <3>. QED BY <2>0, <2>3, <3>1 DEF Claim, Claimed
  <2>4. ASSUME NEW c \in Consumers, Heartbeat(c) PROVE FALSE
    BY <2>4 DEF Heartbeat, Row
  <2>5. ASSUME NEW a \in attempts, UpdateData(a) PROVE FALSE
    BY <2>5 DEF UpdateData, Row
  <2>6. ASSUME NEW a \in attempts, NEW due \in BOOLEAN,
               a.phase = "settle", Owns(a), row' = Settled(a, due)
        PROVE  a.job = j /\ a.claim = row[j].claim
    BY <2>0, <2>6 DEF Settled, Owns
  <2>7. ASSUME NEW c \in Consumers,
               StallThrows(c) \/ (\E r \in fetched[c] : StallReport(c, r)) \/ Idle(c)
               \/ Start(c) \/ Close(c) \/ LoopExit(c) \/ CloseDone(c) \/ Crash(c)
               \/ Restart(c)
        PROVE  FALSE
    BY <2>0, <2>7 DEF StallThrows, StallReport, Idle, Start, Close, LoopExit,
                      CloseDone, Crash, Restart, Die
  <2>8. ASSUME NEW a \in attempts,
               Advance(a) \/ (\E due \in BOOLEAN : SettleThrows(a, due))
        PROVE  a.phase = "settle" /\ a.job = j /\ a.claim = row[j].claim
    BY <2>0, <2>6, <2>8 DEF Advance, Finish, Settle, SettleLost, Report, SettleThrows
  <2>. QED
    BY <1>1, <2>0, <2>1, <2>2, <2>3, <2>4, <2>5, <2>7, <2>8 DEF Next, Loop, vars
<1>2. TypeOK /\ [Next]_vars => [\A j \in Jobs : Guarded(j)]_vars
  BY <1>1
<1>. QED BY <1>2, TypeCorrect, PTL DEF Spec, LeaseProtects

-----------------------------------------------------------------------------
(***************************************************************************)
(* The Postgres transport implements the delivery contract of JobDelivery: *)
(* every statement of a poller, a client or a settlement is one step of    *)
(* the contract or none.  The contract's theorem then says that no job's   *)
(* terminal callback is duplicated, and none is lost but to a fault.       *)
(***************************************************************************)

LEMMA PlaceOf ==
  ASSUME TypeOK
  PROVE  \A j \in Jobs :
           /\ Place[j] = "none"   <=> row[j].state = "absent"
           /\ Place[j] = "queued" <=> row[j].state = "waiting"
           /\ Place[j] = "taken"  <=> row[j].state = "active"
BY DEF TypeOK, Row, Place

LEMMA OwedMember ==
  \A v : v \in Owed <=>
    \/ \E a \in Verdicts : v = <<a.job, a.inc>>
    \/ \E c \in Consumers : \E r \in Stalled(c) : v = <<r.job, r.inc>>
BY DEF Owed, OwedBy

(* Owed changes only with the verdicts and the stall reports.              *)
LEMMA OwedSame ==
  ASSUME Verdicts' = Verdicts, \A c \in Consumers : Stalled(c)' = Stalled(c)
  PROVE  Owed' = Owed
BY DEF Owed, OwedBy

LEMMA HeldRows ==
  ASSUME TypeOK
  PROVE  /\ Delivery!Held = {j \in Jobs : Present(j)}
         /\ Delivery!Taken = {j \in Jobs : row[j].state = "active"}
BY PlaceOf DEF Delivery!Held, Delivery!Taken, Present

PlaceTypes == {"none", "queued", "taken"}

(* Insertions keep their number, and the rows of S alone leave the table.   *)
LEMMA Moved ==
  ASSUME TypeOK, TypeOK', NEW S \in SUBSET Jobs,
         \A j \in Jobs : row'[j].inc = row[j].inc,
         \A j \in Jobs : Present(j)' <=> Present(j) /\ j \notin S
  PROVE  /\ Delivery!Holds(Delivery!Held \ S)
         /\ [j \in Jobs |-> row[j].inc]' = [j \in Jobs |-> row[j].inc]
<1>1. Place' \in [Jobs -> PlaceTypes]
  BY DEF Place, PlaceTypes
<1>2. \A j \in Jobs : Place'[j] # "none" <=> Present(j)'
  BY DEF Place, Present
<1>3. \A j \in Jobs : j \in Delivery!Held \ S <=> Present(j)'
  BY HeldRows
<1>4. Delivery!Holds(Delivery!Held \ S)
  BY <1>1, <1>2, <1>3 DEF Delivery!Holds, PlaceTypes
<1>5. [j \in Jobs |-> row[j].inc]' = [j \in Jobs |-> row[j].inc]
  OBVIOUS
<1>. QED BY <1>4, <1>5

LEMMA Kept ==
  ASSUME TypeOK, TypeOK',
         \A j \in Jobs : row'[j].inc = row[j].inc,
         \A j \in Jobs : Present(j)' <=> Present(j)
  PROVE  /\ Delivery!Holds(Delivery!Held)
         /\ [j \in Jobs |-> row[j].inc]' = [j \in Jobs |-> row[j].inc]
<1>1. Delivery!Held \ {} = Delivery!Held /\ {} \in SUBSET Jobs
  OBVIOUS
<1>2. \A j \in Jobs : Present(j)' <=> Present(j) /\ j \notin {}
  OBVIOUS
<1>. QED BY <1>1, <1>2, Moved

(* A step that moves no row and settles nothing is no step of the contract. *)
LEMMA Invisible ==
  ASSUME \A j \in Jobs : row'[j].inc = row[j].inc /\ row'[j].state = row[j].state,
         Verdicts' = Verdicts, \A c \in Consumers : Stalled(c)' = Stalled(c),
         UNCHANGED fates
  PROVE  UNCHANGED Delivery!vars
<1>1. Place' = Place /\ [j \in Jobs |-> row[j].inc]' = [j \in Jobs |-> row[j].inc]
  BY DEF Place
<1>. QED BY <1>1, OwedSame DEF Delivery!vars, fates

(* The rows a stall pass deletes are the insertions it owes.               *)
LEMMA OwedSnaps ==
  ASSUME NEW S \in SUBSET Jobs
  PROVE  OwedBy({Snap(j, row[j].claim) : j \in S}) = Delivery!Current(S)
<1>. DEFINE A == {Snap(j, row[j].claim) : j \in S}
<1>1. ASSUME NEW j \in S
      PROVE  Snap(j, row[j].claim).job = j /\ Snap(j, row[j].claim).inc = row[j].inc
  BY DEF Snap
<1>2. ASSUME NEW v \in OwedBy(A) PROVE v \in {<<j, row[j].inc>> : j \in S}
  <2>1. PICK a \in A : v = <<a.job, a.inc>>
    BY DEF OwedBy
  <2>2. PICK j \in S : a = Snap(j, row[j].claim)
    OBVIOUS
  <2>. QED BY <1>1, <2>1, <2>2
<1>3. ASSUME NEW j \in S PROVE <<j, row[j].inc>> \in OwedBy(A)
  <2>1. Snap(j, row[j].claim) \in A
    OBVIOUS
  <2>. HIDE DEF A
  <2>. QED BY <1>1, <2>1 DEF OwedBy
<1>4. Delivery!Current(S) = {<<j, row[j].inc>> : j \in S}
  BY DEF Delivery!Current
<1>. QED BY <1>2, <1>3, <1>4

StepInv == TypeOK /\ FenceInv /\ OneVerdict

LEMMA SettledMoves ==
  ASSUME TypeOK, TypeOK', FenceInv, NEW a \in attempts, NEW due \in BOOLEAN,
         a.phase = "settle", Owns(a), row' = Settled(a, due)
  PROVE  /\ Delivery!Holds(IF WillRetry(a) THEN Delivery!Held ELSE Delivery!Held \ {a.job})
         /\ [j \in Jobs |-> row[j].inc]' = [j \in Jobs |-> row[j].inc]
         /\ a.job \in Delivery!Taken
         /\ Delivery!Current({a.job}) = {<<a.job, a.inc>>}
<1>1. a.job \in Jobs /\ row[a.job].state = "active" /\ a.inc = row[a.job].inc
  BY DEF TypeOK, Attempt, FenceInv
<1>2. \A j \in Jobs \ {a.job} : row'[j] = row[j]
  BY <1>1 DEF TypeOK, Settled
<1>3. /\ row'[a.job].inc = row[a.job].inc
      /\ row'[a.job].state = IF WillRetry(a) THEN "waiting" ELSE "absent"
  BY <1>1 DEF TypeOK, Settled, Absent, Row
<1>4. \A j \in Jobs : row'[j].inc = row[j].inc
  BY <1>2, <1>3
<1>5. a.job \in Delivery!Taken
  BY <1>1, HeldRows
<1>6. Delivery!Current({a.job}) = {<<a.job, a.inc>>}
  BY <1>1 DEF Delivery!Current
<1>7. CASE WillRetry(a)
  <2>1. \A j \in Jobs : Present(j)' <=> Present(j)
    BY <1>1, <1>2, <1>3, <1>7 DEF Present
  <2>. QED BY <1>4, <1>5, <1>6, <1>7, <2>1, Kept
<1>8. CASE ~WillRetry(a)
  <2>1. \A j \in Jobs : Present(j)' <=> Present(j) /\ j \notin {a.job}
    BY <1>1, <1>2, <1>3, <1>8 DEF Present
  <2>2. {a.job} \in SUBSET Jobs
    BY <1>1
  <2>. QED BY <1>4, <1>5, <1>6, <1>8, <2>1, <2>2, Moved
<1>. QED BY <1>7, <1>8

LEMMA Implements ==
  ASSUME StepInv, TypeOK', [Next]_vars
  PROVE  [Delivery!Next]_(Delivery!vars)
<1>. USE DEF StepInv
<1>0. ASSUME NEW S \in SUBSET Jobs,
             \/ Delivery!Handle \/ Delivery!Enqueue(S) \/ Delivery!Lose(S)
             \/ Delivery!End(S, {})
      PROVE  Delivery!Next
  <2>. {} \in SUBSET Jobs
    OBVIOUS
  <2>. QED BY <1>0 DEF Delivery!Next
<1>. DEFINE incs == [i \in Jobs |-> row[i].inc]
<1>100. Delivery!Current({}) = {}
  BY DEF Delivery!Current
<1>1. ASSUME NEW j \in Jobs, NEW due \in BOOLEAN, Enqueue(j, due) PROVE Delivery!Next
  <2>1. /\ row[j].state = "absent" /\ row'[j].state = "waiting"
        /\ row'[j].inc = row[j].inc + 1
        /\ \A i \in Jobs \ {j} : row'[i] = row[i]
    BY <1>1 DEF Enqueue, TypeOK, Absent, Present
  <2>2. \A i \in Jobs : Place'[i] # "none" <=> i \in Delivery!Held \cup {j}
    BY <2>1, HeldRows DEF Place, Present
  <2>3. Delivery!Holds(Delivery!Held \cup {j}) /\ {j} \cap Delivery!Held = {}
    <3>1. Place' \in [Jobs -> PlaceTypes] /\ j \notin Delivery!Held
      BY <2>1, HeldRows DEF Present, Place, PlaceTypes
    <3>. QED BY <2>2, <3>1 DEF Delivery!Holds, PlaceTypes
  <2>4. incs' = [i \in Jobs |-> IF i \in {j} THEN incs[i] + 1 ELSE incs[i]]
    BY <2>1
  <2>5. Owed' = Owed
    BY <1>1, OwedSame DEF Enqueue, Verdicts, Stalled
  <2>. QED BY <1>0, <1>1, <2>3, <2>4, <2>5, ZenonT(40) DEF Enqueue, fates, Delivery!Enqueue
<1>2. ASSUME NEW j \in Jobs, Remove(j) PROVE Delivery!Next
  <2>1. /\ row'[j].state = "absent" /\ j \in Delivery!Held
        /\ \A i \in Jobs \ {j} : row'[i].state = row[i].state
        /\ \A i \in Jobs : row'[i].inc = row[i].inc
    BY <1>2, HeldRows DEF Remove, TypeOK, Absent, Present
  <2>2. Delivery!Holds(Delivery!Held \ {j}) /\ incs' = incs
    <3>1. \A i \in Jobs : Present(i)' <=> Present(i) /\ i \notin {j}
      BY <2>1 DEF Present
    <3>2. {j} \in SUBSET Jobs
      OBVIOUS
    <3>. QED BY <2>1, <3>1, <3>2, Moved
  <2>3. Delivery!Current({j}) = {<<j, row[j].inc>>}
    BY DEF Delivery!Current
  <2>4. Owed' = Owed
    BY <1>2, OwedSame DEF Remove, Verdicts, Stalled
  <2>. QED BY <1>2, <2>1, <2>2, <2>3, <2>4 DEF Remove, Delivery!Next, Delivery!Remove
<1>3. ASSUME NEW j \in Jobs, Elapse(j) PROVE UNCHANGED Delivery!vars
  <2>1. \A i \in Jobs : row'[i].inc = row[i].inc /\ row'[i].state = row[i].state
    BY <1>3 DEF Elapse, TypeOK, Row
  <2>. QED BY <1>3, <2>1, Invisible DEF Elapse, Verdicts, Stalled
<1>4. ASSUME NEW c \in Consumers, StallRecover(c) PROVE Delivery!Next
  <2>. DEFINE S == {j \in Jobs : Expired(j) /\ row[j].stalls < MaxStalled}
  <2>1. \A j \in Jobs \ S : row'[j] = row[j]
    BY <1>4 DEF StallRecover
  <2>2. \A j \in S : /\ row[j].state = "active" /\ row'[j].state = "waiting"
                     /\ row'[j].inc = row[j].inc
    <3>. TAKE j \in S
    <3>1. row'[j] = [row[j] EXCEPT !.state = "waiting", !.claim = 0, !.stalls = @ + 1]
      BY <1>4 DEF StallRecover
    <3>2. row[j].state = "active" /\ row[j] \in Row
      BY DEF Expired, TypeOK
    <3>. QED BY <3>1, <3>2 DEF Row
  <2>4. Delivery!Holds(Delivery!Held) /\ incs' = incs
    <3>1. \A j \in Jobs : row'[j].inc = row[j].inc /\ (Present(j)' <=> Present(j))
      BY <2>1, <2>2 DEF Present
    <3>. QED BY <3>1, Kept
  <2>5. Owed' = Owed
    BY <1>4, OwedSame DEF StallRecover, Verdicts, Stalled, TypeOK
  <2>. QED BY <1>4, <2>4, <2>5 DEF StallRecover, fates, Delivery!Next, Delivery!Handle
<1>5. ASSUME NEW c \in Consumers, StallFail(c) PROVE [Delivery!Next]_(Delivery!vars)
  <2>. DEFINE S == {j \in Jobs : Expired(j) /\ row[j].stalls >= MaxStalled}
  <2>1. \A j \in Jobs \ S : row'[j] = row[j]
    BY <1>5 DEF StallFail
  <2>2. \A j \in S : /\ row[j].state = "active" /\ row'[j].state = "absent"
                     /\ row'[j].inc = row[j].inc
    BY <1>5 DEF StallFail, Expired, Absent
  <2>3. S \subseteq Delivery!Taken /\ S \subseteq Delivery!Held /\ S \in SUBSET Jobs
    BY <2>2, HeldRows DEF Present
  <2>4. Delivery!Holds(Delivery!Held \ S) /\ incs' = incs
    <3>1. \A j \in Jobs : row'[j].inc = row[j].inc
      BY <2>1, <2>2
    <3>2. \A j \in Jobs : Present(j)' <=> Present(j) /\ j \notin S
      BY <2>1, <2>2 DEF Present
    <3>. HIDE DEF S
    <3>. QED BY <2>3, <3>1, <3>2, Moved
  <2>5. fetched[c] = {} /\ Stalled(c) = {} /\ Verdicts' = Verdicts
    BY <1>5 DEF StallFail, FenceInv, Stalled, Verdicts
  <2>6. \A d \in Consumers \ {c} : Stalled(d)' = Stalled(d)
    BY <1>5 DEF StallFail, Stalled, TypeOK
  <2>7. OwedBy({Snap(j, row[j].claim) : j \in S}) = Delivery!Current(S)
    BY OwedSnaps
  <2>8. CASE /\ fetched' = [fetched EXCEPT ![c] = {Snap(j, row[j].claim) : j \in S}]
             /\ pc' = [pc EXCEPT ![c] = IF S = {} THEN "poll" ELSE "report"]
             /\ UNCHANGED <<faults, lost>>
    <3>1. Stalled(c)' = {Snap(j, row[j].claim) : j \in S}
      BY <2>8 DEF Stalled, TypeOK
    <3>2. Owed' = Owed \cup Delivery!Current(S)
      BY <2>5, <2>6, <2>7, <3>1 DEF Owed, OwedBy
    <3>3. Delivery!End(S, {})
      <4>1. UNCHANGED <<reported, removed, lost>>
        BY <1>5, <2>8 DEF StallFail
      <4>2. removed' = removed \cup Delivery!Current({}) /\ S \cup {} = S
        BY <1>100, <4>1
      <4>. HIDE DEF S
      <4>. QED BY <2>3, <2>4, <3>2, <4>1, <4>2 DEF Delivery!End
    <3>. QED BY <1>0, <2>3, <3>3
  <2>9. CASE /\ pc' = [pc EXCEPT ![c] = "poll"] /\ UNCHANGED fetched
             /\ lost' = lost \cup {<<j, row[j].inc>> : j \in S}
    <3>1. Stalled(c)' = {}
      BY <2>9 DEF Stalled, TypeOK
    <3>2. Owed' = Owed
      BY <2>5, <2>6, <3>1, OwedSame
    <3>3. Delivery!Current(S) = {<<j, row[j].inc>> : j \in S}
      BY DEF Delivery!Current
    <3>. QED BY <1>0, <1>5, <2>3, <2>4, <2>9, <3>2, <3>3 DEF StallFail, Delivery!Lose
  <2>. QED BY <1>5, <2>8, <2>9 DEF StallFail
<1>6. ASSUME NEW c \in Consumers, NEW r \in fetched[c], StallReport(c, r) PROVE Delivery!Next
  <2>. DEFINE v == <<r.job, r.inc>>
  <2>1. /\ Verdicts' = Verdicts /\ r \in Stalled(c) /\ Stalled(c)' = Stalled(c) \ {r}
        /\ \A d \in Consumers \ {c} : Stalled(d)' = Stalled(d)
    BY <1>6 DEF StallReport, Verdicts, Stalled, TypeOK
  <2>2. r.job \in Jobs /\ r.inc \in Nat
    BY DEF TypeOK, Fetched
  <2>3. Owed' = Owed \ {v}
    <3>1. \A w \in Owed' : w \in Owed /\ w # v
      BY <2>1, OwedMember DEF OneVerdict, Owed, OwedBy
    <3>2. \A w \in Owed \ {v} : w \in Owed'
      BY <2>1 DEF Owed, OwedBy
    <3>. QED BY <3>1, <3>2
  <2>4. v \in Owed
    BY <2>1, OwedMember
  <2>5. Delivery!Holds(Delivery!Held) /\ incs' = incs
    <3>1. row' = row
      BY <1>6 DEF StallReport
    <3>. QED BY <3>1, Kept DEF Present
  <2>. QED BY <1>6, <2>3, <2>4, <2>5 DEF StallReport, Delivery!Next, Delivery!Report
<1>7. ASSUME NEW c \in Consumers, NEW S \in SUBSET Jobs, Claim(c, S) PROVE Delivery!Next
  <2>1. \A j \in Jobs \ S : row'[j] = row[j]
    BY <1>7 DEF Claim, Claimed
  <2>2. \A j \in S : /\ row[j].state = "waiting" /\ row'[j].state = "active"
                     /\ row'[j].inc = row[j].inc
    <3>. TAKE j \in S
    <3>1. row'[j] = [row[j] EXCEPT !.state = "active", !.elapsed = FALSE,
                                   !.claim = nextClaim, !.claims = @ + 1]
      BY <1>7 DEF Claim, Claimed
    <3>2. row[j].state = "waiting" /\ row[j] \in Row
      BY <1>7 DEF Claim, Claimable, Due, TypeOK
    <3>. QED BY <3>1, <3>2 DEF Row
  <2>4. Delivery!Holds(Delivery!Held) /\ incs' = incs
    <3>1. \A j \in Jobs : row'[j].inc = row[j].inc /\ (Present(j)' <=> Present(j))
      BY <2>1, <2>2 DEF Present
    <3>. QED BY <3>1, Kept
  <2>5. Owed' = Owed
    BY <1>7, OwedSame DEF Claim, Verdicts, Stalled, TypeOK
  <2>. QED BY <1>7, <2>4, <2>5 DEF Claim, fates, Delivery!Next, Delivery!Handle
<1>8. ASSUME NEW c \in Consumers,
             \/ StallThrows(c) \/ Idle(c) \/ Heartbeat(c)
             \/ Close(c) \/ LoopExit(c) \/ CloseDone(c)
      PROVE  UNCHANGED Delivery!vars
  <2>1. \A i \in Jobs : row'[i].inc = row[i].inc /\ row'[i].state = row[i].state
    BY <1>8 DEF StallThrows, Idle, Heartbeat, Close, LoopExit, CloseDone, TypeOK, Row
  <2>2. Verdicts' = Verdicts /\ UNCHANGED fates
    BY <1>8 DEF StallThrows, Idle, Heartbeat, Close, LoopExit, CloseDone, Verdicts, fates
  <2>3. \A d \in Consumers : Stalled(d)' = Stalled(d)
    BY <1>8 DEF StallThrows, Idle, Heartbeat, Close, LoopExit, CloseDone, Stalled, TypeOK
  <2>. QED BY <2>1, <2>2, <2>3, Invisible
<1>9. ASSUME NEW c \in Consumers, Start(c) PROVE UNCHANGED Delivery!vars
  <2>1. Verdicts' = Verdicts
    BY <1>9 DEF Start, Verdicts
  <2>2. \A d \in Consumers : Stalled(d)' = Stalled(d)
    BY <1>9 DEF Start, Stalled, TypeOK
  <2>. QED BY <1>9, <2>1, <2>2, Invisible DEF Start
<1>10. ASSUME NEW c \in Consumers, Crash(c) \/ Restart(c) PROVE Delivery!Next
  <2>. DEFINE V == OwedBy({a \in Verdicts : a.cons = c} \cup Stalled(c))
  <2>1. /\ Verdicts' = {a \in Verdicts : a.cons # c} /\ Stalled(c)' = {}
        /\ \A d \in Consumers \ {c} : Stalled(d)' = Stalled(d)
    BY <1>10 DEF Crash, Restart, Die, Verdicts, Stalled, TypeOK
  <2>2. \A v : v \in V <=> \/ \E a \in Verdicts : a.cons = c /\ v = <<a.job, a.inc>>
                           \/ \E r \in Stalled(c) : v = <<r.job, r.inc>>
    BY DEF OwedBy
  <2>3. \A v : v \in Owed' <=>
          \/ \E a \in Verdicts : a.cons # c /\ v = <<a.job, a.inc>>
          \/ \E d \in Consumers \ {c} : \E r \in Stalled(d) : v = <<r.job, r.inc>>
    BY <2>1 DEF Owed, OwedBy
  <2>. HIDE DEF V
  <2>4. V \subseteq Owed
    BY <2>2, OwedMember
  <2>5. Owed' = Owed \ V
    <3>1. \A v \in Owed' : v \in Owed
      BY <2>3, OwedMember
    <3>2. \A v \in Owed \ V : v \in Owed'
      BY <2>2, <2>3, OwedMember
    <3>3. \A v \in Owed' : v \notin V
      BY <2>2, <2>3 DEF OneVerdict
    <3>. QED BY <3>1, <3>2, <3>3
  <2>6. /\ lost' = lost \cup V /\ UNCHANGED <<reported, removed>>
        /\ row' = row
    BY <1>10 DEF Crash, Restart, Die, OwedBy, V
  <2>7. Delivery!Holds(Delivery!Held) /\ incs' = incs
    BY <2>6, Kept DEF Present
  <2>. QED BY <2>4, <2>5, <2>6, <2>7 DEF Delivery!Next, Delivery!Drop
<1>11. ASSUME NEW a \in attempts, UpdateData(a) PROVE UNCHANGED Delivery!vars
  <2>1. \A i \in Jobs : row'[i].inc = row[i].inc /\ row'[i].state = row[i].state
    BY <1>11 DEF UpdateData, TypeOK, Row
  <2>. QED BY <1>11, <2>1, Invisible DEF UpdateData, Verdicts, Stalled
<1>12. ASSUME NEW a \in attempts, NEW res \in {"ok", "error", "final"}, Finish(a, res)
       PROVE  UNCHANGED Delivery!vars
  <2>1. ~a.done /\ [a EXCEPT !.phase = "settle", !.result = res].done = a.done
    BY <1>12 DEF Finish, FenceInv, TypeOK, Attempt
  <2>2. Verdicts' = Verdicts
    BY <1>12, <2>1 DEF Finish, Verdicts
  <2>. QED BY <1>12, <2>2, Invisible DEF Finish, Stalled
<1>13. ASSUME NEW a \in attempts, NEW due \in BOOLEAN, Settle(a, due) PROVE Delivery!Next
  <2>. DEFINE b == [a EXCEPT !.phase = "report", !.done = ~WillRetry(a)]
  <2>1. /\ b.done = ~WillRetry(a) /\ b.job = a.job /\ b.inc = a.inc
        /\ ~a.done
    BY <1>13 DEF Settle, FenceInv, TypeOK, Attempt, WillRetry
  <2>2. attempts' = (attempts \ {a}) \cup {b} /\ \A d \in Consumers : Stalled(d)' = Stalled(d)
    BY <1>13 DEF Settle, Stalled
  <2>3. /\ Delivery!Holds(IF WillRetry(a) THEN Delivery!Held ELSE Delivery!Held \ {a.job})
        /\ incs' = incs /\ a.job \in Delivery!Taken
        /\ Delivery!Current({a.job}) = {<<a.job, a.inc>>}
        /\ {a.job} \in SUBSET Jobs
    BY <1>13, SettledMoves DEF Settle, TypeOK, Attempt
  <2>. HIDE DEF b
  <2>4. CASE WillRetry(a)
    <3>1. Verdicts' = Verdicts
      BY <2>1, <2>2, <2>4 DEF Verdicts
    <3>2. Owed' = Owed
      BY <2>2, <3>1, OwedSame
    <3>. QED BY <1>13, <2>3, <2>4, <3>2 DEF Settle, fates, Delivery!Next, Delivery!Handle
  <2>5. CASE ~WillRetry(a)
    <3>1. Verdicts' = Verdicts \cup {b}
      BY <2>1, <2>2, <2>5 DEF Verdicts
    <3>2. Owed' = Owed \cup {<<a.job, a.inc>>}
      BY <2>1, <2>2, <3>1 DEF Owed, OwedBy
    <3>3. removed' = removed \cup Delivery!Current({}) /\ {a.job} \cup {} = {a.job}
      BY <1>13, <1>100 DEF Settle, fates
    <3>4. Delivery!End({a.job}, {})
      BY <1>13, <2>3, <2>5, <3>2, <3>3 DEF Settle, fates, Delivery!End
    <3>. QED BY <1>0, <2>3, <3>4
  <2>. QED BY <2>4, <2>5
<1>14. ASSUME NEW a \in attempts, SettleLost(a) PROVE UNCHANGED Delivery!vars
  <2>1. Verdicts' = Verdicts
    BY <1>14 DEF SettleLost, FenceInv, Verdicts
  <2>. QED BY <1>14, <2>1, Invisible DEF SettleLost, Stalled
<1>15. ASSUME NEW a \in attempts, Report(a) PROVE [Delivery!Next]_(Delivery!vars)
  <2>1. CASE ~a.done
    <3>1. Verdicts' = Verdicts
      BY <1>15, <2>1 DEF Report, Verdicts
    <3>. QED BY <1>15, <2>1, <3>1, Invisible DEF Report, Stalled, fates
  <2>2. CASE a.done
    <3>. DEFINE v == <<a.job, a.inc>>
    <3>1. a \in Verdicts /\ Verdicts' = Verdicts \ {a} /\ \A d \in Consumers : Stalled(d)' = Stalled(d)
      BY <1>15, <2>2 DEF Report, Verdicts, Stalled
    <3>2. a.job \in Jobs /\ a.inc \in Nat
      BY DEF TypeOK, Attempt
    <3>3. Owed' = Owed \ {v}
      <4>1. \A w \in Owed' : w \in Owed /\ w # v
        BY <3>1, OwedMember DEF OneVerdict, Owed, OwedBy
      <4>2. \A w \in Owed \ {v} : w \in Owed'
        BY <3>1 DEF Owed, OwedBy
      <4>. QED BY <4>1, <4>2
    <3>4. v \in Owed
      BY <3>1, OwedMember
    <3>5. Delivery!Holds(Delivery!Held) /\ incs' = incs
      <4>1. row' = row
        BY <1>15 DEF Report
      <4>. QED BY <4>1, Kept DEF Present
    <3>. QED BY <1>15, <2>2, <3>3, <3>4, <3>5 DEF Report, Delivery!Next, Delivery!Report
  <2>. QED BY <2>1, <2>2
<1>16. ASSUME NEW a \in attempts, NEW due \in BOOLEAN, SettleThrows(a, due)
       PROVE  [Delivery!Next]_(Delivery!vars)
  <2>1. Verdicts' = Verdicts /\ \A d \in Consumers : Stalled(d)' = Stalled(d)
    BY <1>16 DEF SettleThrows, FenceInv, Verdicts, Stalled
  <2>2. CASE UNCHANGED <<row, lost>>
    BY <1>16, <2>1, <2>2, Invisible DEF SettleThrows, fates
  <2>3. CASE Owns(a) /\ row' = Settled(a, due)
             /\ lost' = lost \cup IF WillRetry(a) THEN {} ELSE {<<a.job, a.inc>>}
    <3>1. /\ Delivery!Holds(IF WillRetry(a) THEN Delivery!Held ELSE Delivery!Held \ {a.job})
          /\ incs' = incs /\ a.job \in Delivery!Taken
          /\ Delivery!Current({a.job}) = {<<a.job, a.inc>>}
          /\ {a.job} \in SUBSET Jobs
      BY <1>16, <2>3, SettledMoves DEF SettleThrows, TypeOK, Attempt
    <3>2. Owed' = Owed /\ UNCHANGED <<reported, removed>>
      BY <1>16, <2>1, OwedSame DEF SettleThrows
    <3>3. CASE WillRetry(a)
      <4>1. lost' = lost
        BY <2>3, <3>3
      <4>. QED BY <3>1, <3>2, <3>3, <4>1 DEF Delivery!Next, Delivery!Handle
    <3>4. CASE ~WillRetry(a)
      <4>1. a.job \in Delivery!Held
        BY <3>1 DEF Delivery!Taken, Delivery!Held
      <4>2. Delivery!Lose({a.job})
        BY <2>3, <3>1, <3>2, <3>4, <4>1 DEF Delivery!Lose
      <4>. QED BY <1>0, <3>1, <4>2
    <3>. QED BY <3>3, <3>4
  <2>. QED BY <1>16, <2>2, <2>3 DEF SettleThrows
<1>17. CASE UNCHANGED vars
  BY <1>17, Invisible DEF vars, fates, Verdicts, Stalled
<1>. QED
  BY <1>1, <1>2, <1>3, <1>4, <1>5, <1>6, <1>7, <1>8, <1>9, <1>10, <1>11, <1>12,
     <1>13, <1>14, <1>15, <1>16, <1>17
  DEF Next, Loop, Advance
-----------------------------------------------------------------------------
(* Callbacks that were owed once are owed once as long as none is added.    *)
LEMMA Shrinks ==
  ASSUME OneVerdict, Verdicts' \subseteq Verdicts,
         \A c \in Consumers : Stalled(c)' \subseteq Stalled(c)
  PROVE  OneVerdict'
BY DEF OneVerdict

(* The insertion of a job in the table is owed by nobody yet.               *)
LEMMA HeldNotOwed ==
  ASSUME TypeOK, Delivery!FateInv, NEW j \in Jobs, Present(j)
  PROVE  /\ \A a \in Verdicts : ~(a.job = j /\ a.inc = row[j].inc)
         /\ \A c \in Consumers : \A r \in Stalled(c) : ~(r.job = j /\ r.inc = row[j].inc)
<1>1. Place[j] # "none"
  BY PlaceOf DEF Present
<1>2. <<j, [i \in Jobs |-> row[i].inc][j]>> \notin Delivery!Past
  BY <1>1 DEF Delivery!FateInv, Delivery!OneFate
<1>3. <<j, row[j].inc>> \notin Owed
  BY <1>2 DEF Delivery!Past
<1>. QED BY <1>3, OwedMember

LEMMA VerdictNext ==
  ASSUME StepInv, TypeOK', Delivery!FateInv, [Next]_vars
  PROVE  OneVerdict'
<1>. USE DEF StepInv
<1>1. ASSUME NEW a \in attempts, NEW due \in BOOLEAN, Settle(a, due) PROVE OneVerdict'
  <2>. DEFINE b == [a EXCEPT !.phase = "report", !.done = ~WillRetry(a)]
  <2>1. /\ a.job \in Jobs /\ Present(a.job) /\ a.inc = row[a.job].inc
        /\ b.job = a.job /\ b.inc = a.inc
    BY <1>1 DEF Settle, FenceInv, Owns, TypeOK, Attempt
  <2>2. attempts' = (attempts \ {a}) \cup {b} /\ \A d \in Consumers : Stalled(d)' = Stalled(d)
    BY <1>1 DEF Settle, Stalled
  <2>. HIDE DEF b
  <2>3. Verdicts' \subseteq Verdicts \cup {b}
    BY <2>2 DEF Verdicts
  <2>4. \A v \in Verdicts : ~(v.job = b.job /\ v.inc = b.inc)
    BY <2>1, HeldNotOwed
  <2>5. \A d \in Consumers : \A r \in Stalled(d) : ~(b.job = r.job /\ b.inc = r.inc)
    BY <2>1, HeldNotOwed
  <2>. QED BY <2>2, <2>3, <2>4, <2>5 DEF OneVerdict
<1>2. ASSUME NEW c \in Consumers, StallFail(c) PROVE OneVerdict'
  <2>. DEFINE S == {j \in Jobs : Expired(j) /\ row[j].stalls >= MaxStalled}
  <2>1. fetched[c] = {} /\ Stalled(c) = {} /\ Verdicts' = Verdicts
    BY <1>2 DEF StallFail, FenceInv, Stalled, Verdicts
  <2>2. \A d \in Consumers \ {c} : Stalled(d)' = Stalled(d)
    BY <1>2 DEF StallFail, Stalled, TypeOK
  <2>3. \A r \in Stalled(c)' : \E j \in S : r = Snap(j, row[j].claim)
    <3>1. fetched'[c] \subseteq {Snap(j, row[j].claim) : j \in S}
      BY <1>2, <2>1 DEF StallFail, TypeOK
    <3>2. Stalled(c)' \subseteq fetched'[c]
      BY DEF Stalled
    <3>. QED BY <3>1, <3>2
  <2>4. ASSUME NEW r \in Stalled(c)'
        PROVE  r.job \in Jobs /\ Present(r.job) /\ r = Snap(r.job, row[r.job].claim)
    <3>1. PICK j \in S : r = Snap(j, row[j].claim)
      BY <2>3
    <3>2. r.job = j /\ Present(j)
      BY <3>1 DEF Snap, Expired, Present
    <3>. QED BY <3>1, <3>2
  <2>5. \A r \in Stalled(c)' : r.inc = row[r.job].inc
    BY <2>4 DEF Snap
  <2>. HIDE DEF S
  <2>6. \A r, s \in Stalled(c)' : r.job = s.job => r = s
    BY <2>4
  <2>7. \A r \in Stalled(c)' : \A v \in Verdicts : ~(v.job = r.job /\ v.inc = r.inc)
    BY <2>4, <2>5, HeldNotOwed
  <2>8. \A r \in Stalled(c)' : \A d \in Consumers : \A s \in Stalled(d) :
          ~(s.job = r.job /\ s.inc = r.inc)
    BY <2>4, <2>5, HeldNotOwed
  <2>. QED BY <2>1, <2>2, <2>6, <2>7, <2>8 DEF OneVerdict
<1>3. ASSUME NEW j \in Jobs, NEW due \in BOOLEAN, Enqueue(j, due) \/ Remove(j) \/ Elapse(j)
      PROVE  OneVerdict'
  BY <1>3, Shrinks DEF Enqueue, Remove, Elapse, Verdicts, Stalled
<1>4. ASSUME NEW c \in Consumers, NEW r \in fetched[c], StallReport(c, r) PROVE OneVerdict'
  BY <1>4, Shrinks DEF StallReport, Verdicts, Stalled, TypeOK
<1>5. ASSUME NEW c \in Consumers, NEW S \in SUBSET Jobs,
             \/ StallRecover(c) \/ StallThrows(c) \/ Idle(c) \/ Claim(c, S)
             \/ Heartbeat(c) \/ Close(c) \/ LoopExit(c) \/ CloseDone(c)
      PROVE  OneVerdict'
  <2>1. Verdicts' = Verdicts
    BY <1>5 DEF StallRecover, StallThrows, Idle, Claim, Heartbeat, Close, LoopExit,
       CloseDone, Verdicts
  <2>2. \A d \in Consumers : Stalled(d)' \subseteq Stalled(d)
    BY <1>5 DEF StallRecover, StallThrows, Idle, Claim, Heartbeat, Close, LoopExit,
       CloseDone, Stalled, TypeOK
  <2>. QED BY <2>1, <2>2, Shrinks
<1>6. ASSUME NEW c \in Consumers, Start(c) PROVE OneVerdict'
  <2>1. Verdicts' = Verdicts
    BY <1>6 DEF Start, Verdicts
  <2>2. \A d \in Consumers : Stalled(d)' \subseteq Stalled(d)
    BY <1>6 DEF Start, Stalled, TypeOK
  <2>. QED BY <2>1, <2>2, Shrinks
<1>7. ASSUME NEW c \in Consumers, Crash(c) \/ Restart(c) PROVE OneVerdict'
  BY <1>7, Shrinks, SMTT(30) DEF Crash, Restart, Die, Verdicts, Stalled, TypeOK
<1>8. ASSUME NEW a \in attempts, UpdateData(a) PROVE OneVerdict'
  BY <1>8, Shrinks DEF UpdateData, Verdicts, Stalled
<1>9. ASSUME NEW a \in attempts, NEW res \in {"ok", "error", "final"}, Finish(a, res)
      PROVE  OneVerdict'
  <2>1. ~a.done /\ [a EXCEPT !.phase = "settle", !.result = res].done = a.done
    BY <1>9 DEF Finish, FenceInv, TypeOK, Attempt
  <2>2. Verdicts' = Verdicts
    BY <1>9, <2>1 DEF Finish, Verdicts
  <2>. QED BY <1>9, <2>2, Shrinks DEF Finish, Stalled
<1>10. ASSUME NEW a \in attempts, NEW due \in BOOLEAN,
              SettleLost(a) \/ Report(a) \/ SettleThrows(a, due)
       PROVE  OneVerdict'
  BY <1>10, Shrinks DEF SettleLost, Report, SettleThrows, Verdicts, Stalled
<1>11. CASE UNCHANGED vars
  BY <1>11, Shrinks DEF vars, Verdicts, Stalled
<1>. QED
  BY <1>1, <1>2, <1>3, <1>4, <1>5, <1>6, <1>7, <1>8, <1>9, <1>10, <1>11
  DEF Next, Loop, Advance

-----------------------------------------------------------------------------
(* The induction: the contract's own invariant keeps the callbacks of one   *)
(* insertion in one hand, and one hand is what a Report of the contract is. *)
DeliveryInv == StepInv /\ Delivery!FateInv

LEMMA DeliveryInit == Init => DeliveryInv /\ Delivery!Init
<1>. SUFFICES ASSUME Init PROVE DeliveryInv /\ Delivery!Init
  OBVIOUS
<1>1. TypeOK /\ FenceInv
  BY TypeInit, FenceInit
<1>2. Verdicts = {} /\ \A c \in Consumers : Stalled(c) = {}
  BY DEF Init, Verdicts, Stalled
<1>3. OneVerdict
  BY <1>2 DEF OneVerdict
<1>4. Owed = {}
  BY <1>2, OwedMember
<1>5. Place = [j \in Jobs |-> "none"] /\ [j \in Jobs |-> row[j].inc] = [j \in Jobs |-> 0]
  BY DEF Init, Place, Absent
<1>6. Delivery!Init
  BY <1>4, <1>5 DEF Init, Delivery!Init
<1>7. Delivery!FateInv
  BY <1>6 DEF Delivery!Init, Delivery!FateInv, Delivery!TypeOK, Delivery!OneFate,
     Delivery!NoneAhead, Delivery!Past
<1>. QED BY <1>1, <1>3, <1>6, <1>7 DEF DeliveryInv, StepInv

LEMMA DeliveryNext ==
  DeliveryInv /\ [Next]_vars => DeliveryInv' /\ [Delivery!Next]_(Delivery!vars)
<1>. SUFFICES ASSUME DeliveryInv, [Next]_vars
              PROVE  DeliveryInv' /\ [Delivery!Next]_(Delivery!vars)
  OBVIOUS
<1>. USE DEF DeliveryInv
<1>1. TypeOK'
  BY TypeNext DEF StepInv
<1>2. FenceInv'
  BY FenceNext DEF StepInv
<1>3. OneVerdict'
  BY <1>1, VerdictNext
<1>4. [Delivery!Next]_(Delivery!vars)
  BY <1>1, Implements
<1>5. Delivery!FateInv'
  BY <1>4, Delivery!FateNext
<1>. QED BY <1>1, <1>2, <1>3, <1>4, <1>5 DEF StepInv

(* Every run of the Postgres transport is a run of the delivery contract.  *)
THEOREM Refines == Spec => Delivers
BY DeliveryInit, DeliveryNext, PTL DEF Spec, Delivers, Delivery!Spec

(* Every insertion of a job has exactly one fate, for any number of jobs,   *)
(* consumers, attempts, crashes and lost replies.                          *)
THEOREM FatesKept == Spec => []OneFate
<1>1. DeliveryInv => OneFate
  BY DEF DeliveryInv, StepInv, OneFate, Delivery!FateInv
<1>. QED BY <1>1, DeliveryInit, DeliveryNext, PTL DEF Spec
=============================================================================
