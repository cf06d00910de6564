------------------------- MODULE RedisState_proofs -------------------------
(***************************************************************************)
(* Proofs about RedisState.  The three parts share nothing, and each has    *)
(* an inductive invariant of its own:                                      *)
(*  - the alert rules: what an edit, a list or an answer on its way may    *)
(*    still say of a rule (RulesTrueCorrect);                              *)
(*  - the schedules: which call still covers what Redis and the durable    *)
(*    store disagree about (NothingMissingCorrect, CurrentCorrect);        *)
(*  - the runs: which event still tells what a store does not know, who    *)
(*    trims a hash that is too large, and of one call at a time what it    *)
(*    has read (RunsKeptCorrect).                                          *)
(***************************************************************************)
EXTENDS RedisState, FiniteSetTheorems, TLAPS

-----------------------------------------------------------------------------
(* A step is one of the schedules, of the runs or of the rules, and each     *)
(* leaves the others alone.                                                *)
RuleStep ==
  \/ \E a \in Admins, r \in Rules : \/ CreateRule(a, r) \/ UpdateRule(a, r) \/ DeleteRule(a, r)
                                    \/ GetRule(a, r) \/ WriteRule(a, r)
  \/ \E a \in Admins : \/ InsertRule(a) \/ SetRow(a) \/ MergeRow(a) \/ DropRow(a) \/ GetRules(a)
                       \/ ReadTable(a) \/ Break(a)

LEMMA RuleSteps == [Next]_vars => RuleStep \/ UNCHANGED ruleVars
BY DEF Next, vars, Scheduling, Running, Ruling, RuleStep

-----------------------------------------------------------------------------
(* The alert rules.                                                        *)

(* A call that is over leaves nothing; one that has a next step in the table *)
(* names a rule, and is made only where there is a table.                   *)
EditInv ==
  \A a \in Admins :
    /\ edits[a].pc = "none" => edits[a] = NoEdit
    /\ edits[a].pc \in {"insert", "update", "delete", "one", "read"} => edits[a].rule \in Rules

(* However calls overlap, a rule of the table that was created since Redis   *)
(* started is in the hash, or about to be written there, or about to go.    *)
ShownInv ==
  persisted /\ breaks = 0 /\ ~cold =>
    \A r \in Known(ruleTable) :
      \/ r \in Known(ruleHash)
      \/ \E a \in Admins : \/ edits[a].pc = "write" /\ r \in Known(edits[a].put)
                           \/ edits[a].pc = "delete" /\ edits[a].rule = r

(* While they do not overlap, what the hash holds is what the table holds,   *)
(* or what the one call is about to write; and what that call has read of    *)
(* the table is still true.                                                *)
AgreeInv ==
  persisted /\ breaks = 0 /\ ~crossed =>
    /\ \A a, b \in Editing : a = b
    /\ \A r \in Known(ruleHash) :
         ruleHash[r] = ruleTable[r] \/ \E a \in Admins : edits[a].pc = "write" /\ r \in Known(edits[a].put)
    /\ \A a \in Admins :
         /\ edits[a].pc = "write" => \A r \in Known(edits[a].put) : edits[a].put[r] = ruleTable[r]
         /\ edits[a].pc = "read" => edits[a].to = NoRule \/ edits[a].rule \notin Known(ruleTable)
         /\ edits[a].pc \in {"insert", "delete"} => edits[a].rule \notin Known(ruleHash)

(* An id that was never given out is in neither.                            *)
UsedInv ==
  /\ Known(ruleTable) \subseteq used /\ Known(ruleHash) \subseteq used
  /\ \A a \in Admins : /\ edits[a].pc = "insert" => edits[a].rule \in used
                       /\ Known(edits[a].put) \subseteq used

LEMMA OnlyFacts ==
  ASSUME NEW r \in Rules, NEW row
  PROVE  Known(Only(r, row)) \subseteq {r} /\ (row # NoRule => Known(Only(r, row)) = {r})
         /\ Only(r, row)[r] = row
BY DEF Known, Only, NoRows

LEMMA EditFacts ==
  ASSUME RulesTypeOK
  PROVE  /\ edits \in [Admins -> Edit] /\ ruleTable \in RuleRows /\ ruleHash \in RuleRows
         /\ \A r \in Rules : ruleTable[r] \in RuleRow \cup {NoRule} /\ ruleHash[r] \in RuleRow \cup {NoRule}
         /\ NoRows \in RuleRows /\ NoEdit \in Edit /\ NoEdit.pc = "none" /\ 0 \in RuleRow
         /\ Known(NoRows) = {}
         /\ \A r \in Rules : \A row \in RuleRow \cup {NoRule} : Only(r, row) \in RuleRows
         /\ \A a \in Admins : /\ edits[a].put \in RuleRows /\ edits[a].to \in RuleRow \cup {NoRule}
                              /\ edits[a].rule \in Rules \cup {NoRule}
         /\ edited \in 0 .. MaxEdits /\ breaks \in 0 .. MaxBreaks /\ used \subseteq Rules
         /\ MaxEdits \in Nat
<1>1. /\ edits \in [Admins -> Edit] /\ ruleTable \in RuleRows /\ ruleHash \in RuleRows
      /\ edited \in 0 .. MaxEdits /\ breaks \in 0 .. MaxBreaks /\ used \subseteq Rules
  BY DEF RulesTypeOK
<1>2. NoRows \in RuleRows /\ 0 \in RuleRow /\ MaxEdits \in Nat /\ Known(NoRows) = {}
  BY AlertRulesAssumption DEF NoRows, RuleRows, RuleRow, Known
<1>3. NoEdit \in Edit /\ NoEdit.pc = "none"
  BY <1>2 DEF NoEdit, Edit
<1>4. \A r \in Rules : \A row \in RuleRow \cup {NoRule} : Only(r, row) \in RuleRows
  BY <1>2 DEF Only, RuleRows
<1>5. \A a \in Admins : edits[a] \in Edit
  BY <1>1
<1>6. \A a \in Admins : /\ edits[a].put \in RuleRows /\ edits[a].to \in RuleRow \cup {NoRule}
                        /\ edits[a].rule \in Rules \cup {NoRule}
  BY <1>5 DEF Edit
<1>. QED BY <1>1, <1>2, <1>3, <1>4, <1>6 DEF RuleRows

(* What a call is after a step that asks, and after one that goes on.        *)
LEMMA AskFacts ==
  ASSUME RulesTypeOK, NEW a \in Admins, NEW edit \in Edit, Ask(a, edit)
  PROVE  /\ edits' \in [Admins -> Edit] /\ edits'[a] = edit /\ \A b \in Admins \ {a} : edits'[b] = edits[b]
         /\ edits[a] = NoEdit /\ edited' \in 0 .. MaxEdits /\ edited + 1 \in RuleRow
         /\ crossed' \in BOOLEAN /\ (~crossed' => ~crossed /\ Editing = {})
         /\ UNCHANGED <<persisted, ruleTable, cold, breaks>>
<1>1. /\ edits' = [edits EXCEPT ![a] = edit] /\ edits \in [Admins -> Edit] /\ edits[a] = NoEdit
      /\ edited' = edited + 1 /\ edited < MaxEdits /\ crossed' = (crossed \/ Editing # {})
      /\ UNCHANGED <<persisted, ruleTable, cold, breaks>>
  BY EditFacts DEF Ask, Editing
<1>2. edited' \in 0 .. MaxEdits /\ edited + 1 \in RuleRow
  BY <1>1, EditFacts DEF RuleRow
<1>. QED BY <1>1, <1>2

LEMMA RuleTypeNext ==
  ASSUME RulesTypeOK, EditInv, UsedInv, RuleStep
  PROVE  RulesTypeOK' /\ EditInv' /\ UsedInv'
<1>. USE EditFacts
<1>1. {persisted, cold, crossed} \subseteq BOOLEAN /\ \A a \in Admins : edits[a] \in Edit
  BY DEF RulesTypeOK
<1>. DEFINE Good(e) == /\ e.pc = "none" => e = NoEdit
                       /\ e.pc \in {"insert", "update", "delete", "one", "read"} => e.rule \in Rules
                       /\ e.pc = "insert" => e.rule \in used'
                       /\ Known(e.put) \subseteq used'
<1>a. Good(NoEdit)
  BY DEF NoEdit
<1>2. ASSUME NEW a \in Admins, NEW edit \in Edit, Ask(a, edit), used \subseteq used', used' \subseteq Rules,
             ruleHash' \in RuleRows, Known(ruleHash') \subseteq used', Good(edit)
      PROVE  RulesTypeOK' /\ EditInv' /\ UsedInv'
  <2>1. /\ edits' \in [Admins -> Edit] /\ edits'[a] = edit /\ \A b \in Admins \ {a} : edits'[b] = edits[b]
        /\ edited' \in 0 .. MaxEdits /\ crossed' \in BOOLEAN
        /\ UNCHANGED <<persisted, ruleTable, cold, breaks>>
    BY <1>2, AskFacts
  <2>2. RulesTypeOK'
    BY <1>1, <1>2, <2>1 DEF RulesTypeOK
  <2>3. EditInv'
    BY <1>2, <2>1 DEF EditInv
  <2>. QED BY <1>2, <2>1, <2>2, <2>3 DEF UsedInv
<1>3. ASSUME NEW a \in Admins, NEW edit \in Edit, Becomes(a, edit),
             ruleTable' \in RuleRows, ruleHash' \in RuleRows, breaks' \in 0 .. MaxBreaks,
             Known(ruleTable') \subseteq used, Known(ruleHash') \subseteq used,
             UNCHANGED <<persisted, used, cold, crossed, edited>>, Good(edit)
      PROVE  RulesTypeOK' /\ EditInv' /\ UsedInv'
  <2>1. edits' \in [Admins -> Edit] /\ edits'[a] = edit /\ \A b \in Admins \ {a} : edits'[b] = edits[b]
    BY <1>3 DEF Becomes
  <2>2. RulesTypeOK'
    BY <1>1, <1>3, <2>1 DEF RulesTypeOK
  <2>3. EditInv'
    BY <1>3, <2>1 DEF EditInv
  <2>. QED BY <1>3, <2>1, <2>2, <2>3 DEF UsedInv
<1>4. ASSUME NEW a \in Admins, NEW p \in RuleRows, Known(p) \subseteq used, used' = used
      PROVE  \E edit \in Edit : (Writes(a, p) => Becomes(a, edit)) /\ Good(edit)
  <2>1. CASE p = NoRows
    BY <1>a, <2>1 DEF Writes
  <2>2. CASE p # NoRows
    <3>. DEFINE e == [NoEdit EXCEPT !.pc = "write", !.put = p]
    <3>1. e \in Edit /\ e.pc = "write" /\ e.put = p
      BY DEF NoEdit, Edit
    <3>2. Good(e)
      BY <1>4, <3>1
    <3>. QED BY <2>2, <3>1, <3>2 DEF Writes
  <2>. QED BY <2>1, <2>2
<1>5. ASSUME NEW a \in Admins, NEW r \in Rules, CreateRule(a, r) PROVE RulesTypeOK' /\ EditInv' /\ UsedInv'
  <2>1. used' = used \cup {r} /\ UNCHANGED ruleHash
    BY <1>5 DEF CreateRule
  <2>2. PICK edit \in Edit : Ask(a, edit) /\ Good(edit)
    <3>1. [NoEdit EXCEPT !.pc = "insert", !.rule = r] \in Edit
          /\ [NoEdit EXCEPT !.pc = "write", !.put = Only(r, 0)] \in Edit
      BY DEF NoEdit, Edit
    <3>2. Good([NoEdit EXCEPT !.pc = "insert", !.rule = r])
      BY <2>1 DEF NoEdit
    <3>3. Good([NoEdit EXCEPT !.pc = "write", !.put = Only(r, 0)])
      BY <2>1, OnlyFacts DEF NoEdit
    <3>. QED BY <1>5, <3>1, <3>2, <3>3 DEF CreateRule
  <2>3. Known(ruleHash') \subseteq used'
    BY <2>1 DEF UsedInv
  <2>. QED BY <1>2, <2>1, <2>2, <2>3
<1>6. ASSUME NEW a \in Admins, (\E r \in Rules : UpdateRule(a, r) \/ GetRule(a, r)) \/ GetRules(a)
      PROVE  RulesTypeOK' /\ EditInv' /\ UsedInv'
  <2>1. UNCHANGED <<ruleHash, used>>
    BY <1>6 DEF UpdateRule, GetRule, GetRules
  <2>2. Known(ruleHash') \subseteq used'
    BY <2>1 DEF UsedInv
  <2>3. ASSUME NEW r \in Rules, UpdateRule(a, r) PROVE RulesTypeOK' /\ EditInv' /\ UsedInv'
    <3>1. PICK to \in {edited + 1, NoRule} :
            Ask(a, [NoEdit EXCEPT !.pc = IF persisted THEN "update" ELSE "read", !.rule = r, !.to = to])
      BY <2>3 DEF UpdateRule
    <3>2. to \in RuleRow \cup {NoRule}
      BY <3>1 DEF Ask, RuleRow
    <3>. DEFINE e == [NoEdit EXCEPT !.pc = IF persisted THEN "update" ELSE "read", !.rule = r, !.to = to]
    <3>3. e \in Edit /\ e.rule = r /\ e.pc \in {"update", "read"} /\ e.put = NoRows
      BY <3>2 DEF NoEdit, Edit
    <3>. QED BY <1>2, <2>1, <2>2, <3>1, <3>3
  <2>4. ASSUME NEW r \in Rules, GetRule(a, r) PROVE RulesTypeOK' /\ EditInv' /\ UsedInv'
    <3>. DEFINE e == [NoEdit EXCEPT !.pc = "one", !.rule = r]
    <3>1. e \in Edit /\ e.rule = r /\ e.pc = "one" /\ e.put = NoRows
      BY DEF NoEdit, Edit
    <3>. QED BY <1>2, <2>1, <2>2, <2>4, <3>1 DEF GetRule
  <2>5. CASE GetRules(a)
    <3>. DEFINE e == [NoEdit EXCEPT !.pc = "all"]
    <3>1. e \in Edit /\ e.pc = "all" /\ e.put = NoRows
      BY DEF NoEdit, Edit
    <3>. QED BY <1>2, <2>1, <2>2, <2>5, <3>1 DEF GetRules
  <2>. QED BY <1>6, <2>3, <2>4, <2>5
<1>7. ASSUME NEW a \in Admins, NEW r \in Rules, DeleteRule(a, r) PROVE RulesTypeOK' /\ EditInv' /\ UsedInv'
  <2>1. used' = used /\ ruleHash' = [ruleHash EXCEPT ![r] = NoRule]
    BY <1>7 DEF DeleteRule
  <2>2. ruleHash' \in RuleRows /\ Known(ruleHash') \subseteq used'
    BY <2>1 DEF Known, RuleRows, UsedInv
  <2>3. PICK edit \in Edit : Ask(a, edit) /\ Good(edit)
    <3>. DEFINE e == [NoEdit EXCEPT !.pc = "delete", !.rule = r]
    <3>1. e \in Edit /\ e.pc = "delete" /\ e.rule = r /\ e.put = NoRows
      BY DEF NoEdit, Edit
    <3>. QED BY <1>7, <1>a, <3>1 DEF DeleteRule
  <2>. QED BY <1>2, <2>1, <2>2, <2>3
<1>8. ASSUME NEW a \in Admins, InsertRule(a) PROVE RulesTypeOK' /\ EditInv' /\ UsedInv'
  <2>. DEFINE r == edits[a].rule
  <2>1. /\ r \in Rules /\ r \in used /\ ruleTable' = [ruleTable EXCEPT ![r] = 0] /\ ruleHash' = ruleHash
        /\ Writes(a, Only(r, 0)) /\ UNCHANGED <<persisted, used, cold, crossed, edited, breaks>>
    BY <1>8 DEF InsertRule, Stands, EditInv, UsedInv
  <2>2. ruleTable' \in RuleRows /\ Known(ruleTable') \subseteq used /\ Known(ruleHash') \subseteq used
    BY <2>1 DEF RuleRows, Known, UsedInv
  <2>3. PICK edit \in Edit : Becomes(a, edit) /\ Good(edit)
    BY <1>4, <2>1, OnlyFacts
  <2>. QED BY <1>3, <2>1, <2>2, <2>3
<1>9. ASSUME NEW a \in Admins, SetRow(a) PROVE RulesTypeOK' /\ EditInv' /\ UsedInv'
  <2>. DEFINE e == edits[a]
  <2>1. /\ e.pc = "update" /\ ruleHash' = ruleHash /\ e \in Edit /\ e.rule \in Rules
        /\ UNCHANGED <<persisted, used, cold, crossed, edited, breaks>>
    BY <1>1, <1>9 DEF SetRow, Stands, EditInv
  <2>2. CASE e.rule \in Known(ruleTable) /\ e.to # NoRule
    <3>1. ruleTable' = [ruleTable EXCEPT ![e.rule] = e.to] /\ Writes(a, Only(e.rule, e.to))
      BY <1>9, <2>2 DEF SetRow
    <3>2. ruleTable' \in RuleRows /\ Known(ruleTable') \subseteq used /\ Known(ruleHash') \subseteq used
      BY <2>1, <2>2, <3>1 DEF RuleRows, Known, UsedInv
    <3>3. PICK edit \in Edit : Becomes(a, edit) /\ Good(edit)
      <4>1. Known(Only(e.rule, e.to)) \subseteq used /\ Only(e.rule, e.to) \in RuleRows
        BY <2>1, <2>2, OnlyFacts DEF UsedInv
      <4>. QED BY <1>4, <2>1, <3>1, <4>1
    <3>. QED BY <1>3, <2>1, <3>2, <3>3
  <2>3. CASE ~(e.rule \in Known(ruleTable) /\ e.to # NoRule)
    <3>1. Becomes(a, [e EXCEPT !.pc = "read"]) /\ ruleTable' = ruleTable
      BY <1>9, <2>3 DEF SetRow
    <3>2. [e EXCEPT !.pc = "read"] \in Edit /\ [e EXCEPT !.pc = "read"].pc = "read"
          /\ [e EXCEPT !.pc = "read"].rule = e.rule /\ [e EXCEPT !.pc = "read"].put = e.put
      BY <2>1 DEF Edit
    <3>3. Known(e.put) \subseteq used /\ Known(ruleTable) \subseteq used /\ Known(ruleHash) \subseteq used
      BY DEF UsedInv
    <3>. QED BY <1>3, <2>1, <3>1, <3>2, <3>3
  <2>. QED BY <2>2, <2>3
<1>10. ASSUME NEW a \in Admins, MergeRow(a) PROVE RulesTypeOK' /\ EditInv' /\ UsedInv'
  <2>. DEFINE e == edits[a]
              row == ruleHash[e.rule]
              new == IF row = NoRule \/ e.to = NoRule THEN row ELSE e.to
  <2>1. /\ e.rule \in Rules /\ Writes(a, Only(e.rule, new)) /\ UNCHANGED <<ruleTable, ruleHash>>
        /\ UNCHANGED <<persisted, used, cold, crossed, edited, breaks>>
    BY <1>10 DEF MergeRow, Stands, EditInv
  <2>2. new \in RuleRow \cup {NoRule} /\ (row = NoRule => new = NoRule)
    BY <2>1
  <2>. HIDE DEF new
  <2>3. Known(Only(e.rule, new)) \subseteq used /\ Only(e.rule, new) \in RuleRows
    <3>1. CASE row = NoRule
      BY <2>1, <2>2, <3>1 DEF Known, Only, NoRows
    <3>2. CASE row # NoRule
      BY <2>1, <2>2, <3>2, OnlyFacts DEF UsedInv, Known
    <3>. QED BY <3>1, <3>2
  <2>4. PICK edit \in Edit : Becomes(a, edit) /\ Good(edit)
    BY <1>4, <2>1, <2>3
  <2>. QED BY <1>3, <2>1, <2>4 DEF UsedInv
<1>11. ASSUME NEW a \in Admins, DropRow(a) PROVE RulesTypeOK' /\ EditInv' /\ UsedInv'
  <2>1. /\ ruleTable' = [ruleTable EXCEPT ![edits[a].rule] = NoRule] /\ ruleHash' = ruleHash
        /\ Becomes(a, NoEdit) /\ UNCHANGED <<persisted, used, cold, crossed, edited, breaks>>
        /\ edits[a].rule \in Rules
    BY <1>11 DEF DropRow, Stands, EditInv
  <2>2. ruleTable' \in RuleRows /\ Known(ruleTable') \subseteq used
    BY <2>1 DEF RuleRows, Known, UsedInv
  <2>. QED BY <1>3, <1>a, <2>1, <2>2 DEF UsedInv
<1>12. ASSUME NEW a \in Admins, ReadTable(a) PROVE RulesTypeOK' /\ EditInv' /\ UsedInv'
  <2>1. UNCHANGED <<ruleTable, ruleHash, persisted, used, cold, crossed, edited, breaks>>
    BY <1>12 DEF ReadTable, Stands
  <2>2. PICK p \in RuleRows : Writes(a, p) /\ Known(p) \subseteq used
    <3>1. CASE Writes(a, ruleTable)
      BY <3>1 DEF UsedInv
    <3>2. CASE edits[a].pc = "one" /\ Writes(a, Only(edits[a].rule, ruleTable[edits[a].rule]))
      <4>1. edits[a].rule \in Rules
        BY <3>2 DEF EditInv
      <4>2. Known(Only(edits[a].rule, ruleTable[edits[a].rule])) \subseteq Known(ruleTable)
        BY <4>1 DEF Known, Only, NoRows
      <4>. QED BY <3>2, <4>1, <4>2 DEF UsedInv
    <3>. QED BY <1>12, <3>1, <3>2 DEF ReadTable, Stands
  <2>3. PICK edit \in Edit : Becomes(a, edit) /\ Good(edit)
    BY <1>4, <2>1, <2>2
  <2>. QED BY <1>3, <2>1, <2>3 DEF UsedInv
<1>13. ASSUME NEW a \in Admins, NEW r \in Rules, WriteRule(a, r) PROVE RulesTypeOK' /\ EditInv' /\ UsedInv'
  <2>. DEFINE p == [edits[a].put EXCEPT ![r] = NoRule]
  <2>1. /\ r \in Known(edits[a].put) /\ ruleHash' = [ruleHash EXCEPT ![r] = edits[a].put[r]]
        /\ Writes(a, p) /\ UNCHANGED <<ruleTable, persisted, used, cold, crossed, edited, breaks>>
    BY <1>13 DEF WriteRule, Stands
  <2>2. ruleHash' \in RuleRows /\ Known(ruleHash') \subseteq used
    BY <2>1 DEF RuleRows, Known, UsedInv
  <2>3. p \in RuleRows /\ Known(p) \subseteq used
    BY DEF RuleRows, Known, UsedInv
  <2>4. PICK edit \in Edit : Becomes(a, edit) /\ Good(edit)
    BY <1>4, <2>1, <2>3
  <2>. QED BY <1>3, <2>1, <2>2, <2>4 DEF UsedInv
<1>14. ASSUME NEW a \in Admins, Break(a) PROVE RulesTypeOK' /\ EditInv' /\ UsedInv'
  <2>1. breaks' \in 0 .. MaxBreaks /\ Becomes(a, NoEdit)
        /\ UNCHANGED <<persisted, ruleTable, ruleHash, used, cold, crossed, edited>>
    BY <1>14, AlertRulesAssumption DEF Break
  <2>. QED BY <1>3, <1>a, <2>1 DEF UsedInv
<1>. QED BY <1>5, <1>6, <1>7, <1>8, <1>9, <1>10, <1>11, <1>12, <1>13, <1>14 DEF RuleStep

LEMMA ShownNext ==
  ASSUME RulesTypeOK, EditInv, ShownInv, RuleStep
  PROVE  ShownInv'
<1>. USE EditFacts
<1>. SUFFICES ASSUME persisted', breaks' = 0, ~cold', NEW q \in Known(ruleTable')
              PROVE  \/ q \in Known(ruleHash')
                     \/ \E a \in Admins : \/ edits'[a].pc = "write" /\ q \in Known(edits'[a].put)
                                          \/ edits'[a].pc = "delete" /\ edits'[a].rule = q
  BY DEF ShownInv
<1>. DEFINE Pends(b) == \/ edits'[b].pc = "write" /\ q \in Known(edits'[b].put)
                        \/ edits'[b].pc = "delete" /\ edits'[b].rule = q
            Shows == q \in Known(ruleHash') \/ \E b \in Admins : Pends(b)
<1>. DEFINE Pending(b) == \/ edits[b].pc = "write" /\ q \in Known(edits[b].put)
                          \/ edits[b].pc = "delete" /\ edits[b].rule = q
<1>0. q \in Rules /\ NoEdit.pc = "none"
  BY DEF Known
<1>1. persisted /\ breaks = 0 /\ ~cold
  <2>1. UNCHANGED <<persisted, cold>> /\ breaks' \in {breaks, breaks + 1}
    BY DEF RuleStep, CreateRule, UpdateRule, DeleteRule, GetRule, WriteRule, InsertRule, SetRow, MergeRow,
           DropRow, GetRules, ReadTable, Break, Ask, Stands
  <2>. QED BY <2>1
<1>2. q \in Known(ruleTable) => q \in Known(ruleHash) \/ \E b \in Admins : Pending(b)
  BY <1>1 DEF ShownInv
(* A call that is not pending goes on: whoever was pending still is.        *)
<1>3. ASSUME NEW a \in Admins, NEW edit, edits' = [edits EXCEPT ![a] = edit],
             Pending(a) => q \in Known(ruleHash') \/ (edit.pc = "write" /\ q \in Known(edit.put)),
             q \in Known(ruleTable), q \in Known(ruleHash) => q \in Known(ruleHash')
      PROVE  Shows
  <2>1. edits'[a] = edit /\ \A b \in Admins \ {a} : edits'[b] = edits[b]
    BY <1>3
  <2>2. CASE q \in Known(ruleHash)
    BY <1>3, <2>2
  <2>3. CASE q \notin Known(ruleHash)
    <3>1. PICK b \in Admins : Pending(b)
      BY <1>2, <1>3, <2>3
    <3>2. CASE b = a
      <4>1. q \in Known(ruleHash') \/ Pends(a)
        BY <1>3, <2>1, <3>1, <3>2
      <4>. QED BY <4>1
    <3>3. CASE b # a
      <4>1. Pends(b)
        BY <2>1, <3>1, <3>3
      <4>. QED BY <4>1
    <3>. QED BY <3>2, <3>3
  <2>. QED BY <2>2, <2>3
(* What a call has still to write is written or it is in its next step.      *)
<1>4. ASSUME NEW a \in Admins, NEW p \in RuleRows, Writes(a, p), q \in Known(p)
      PROVE  edits'[a].pc = "write" /\ q \in Known(edits'[a].put)
  <2>1. p # NoRows
    BY <1>4
  <2>2. edits' = [edits EXCEPT ![a] = [NoEdit EXCEPT !.pc = "write", !.put = p]]
    BY <1>4, <2>1 DEF Writes, Becomes
  <2>3. edits'[a] = [NoEdit EXCEPT !.pc = "write", !.put = p]
    BY <2>2
  <2>. QED BY <1>4, <2>3 DEF NoEdit
<1>5. ASSUME NEW a \in Admins, (\E r \in Rules : CreateRule(a, r) \/ UpdateRule(a, r) \/ GetRule(a, r)) \/ GetRules(a)
      PROVE  Shows
  <2>1. PICK edit : Ask(a, edit) /\ UNCHANGED ruleHash
    BY <1>5 DEF CreateRule, UpdateRule, GetRule, GetRules
  <2>2. edits' = [edits EXCEPT ![a] = edit] /\ edits[a] = NoEdit /\ ruleTable' = ruleTable
    BY <2>1 DEF Ask, Editing
  <2>. QED BY <1>0, <1>3, <2>1, <2>2
<1>6. ASSUME NEW a \in Admins, NEW r \in Rules, DeleteRule(a, r)
      PROVE  Shows
  <2>. DEFINE edit == [NoEdit EXCEPT !.pc = "delete", !.rule = r]
  <2>1. /\ edits' = [edits EXCEPT ![a] = edit] /\ edits[a] = NoEdit /\ ruleTable' = ruleTable
        /\ ruleHash' = [ruleHash EXCEPT ![r] = NoRule]
    BY <1>1, <1>6 DEF DeleteRule, Ask, Editing
  <2>2. CASE q = r
    <3>1. edits'[a] = edit
      BY <2>1
    <3>. QED BY <2>2, <3>1 DEF NoEdit
  <2>3. CASE q # r
    <3>1. q \in Known(ruleHash) => q \in Known(ruleHash')
      BY <1>0, <2>1, <2>3 DEF Known, RuleRows
    <3>. QED BY <1>0, <1>3, <2>1, <3>1
  <2>. QED BY <2>2, <2>3
<1>7. ASSUME NEW a \in Admins, InsertRule(a)
      PROVE  Shows
  <2>. DEFINE r == edits[a].rule
  <2>1. /\ r \in Rules /\ ruleTable' = [ruleTable EXCEPT ![r] = 0] /\ ruleHash' = ruleHash
        /\ Writes(a, Only(r, 0)) /\ edits[a].pc = "insert"
    BY <1>7 DEF InsertRule, Stands, EditInv
  <2>2. PICK edit : edits' = [edits EXCEPT ![a] = edit]
    BY <2>1 DEF Writes, Becomes
  <2>3. CASE q = r
    <3>1. ruleTable'[q] = 0 /\ 0 # NoRule
      BY <2>1, <2>3 DEF RuleRows, Known
    <3>2. q \in Known(Only(r, 0)) /\ Only(r, 0) \in RuleRows
      BY <2>1, <2>3, <3>1, OnlyFacts
    <3>3. Pends(a)
      BY <1>4, <2>1, <3>2
    <3>. QED BY <3>3
  <2>4. CASE q # r
    <3>1. q \in Known(ruleTable)
      BY <1>0, <2>1, <2>4 DEF Known, RuleRows
    <3>. QED BY <1>3, <2>1, <2>2, <3>1
  <2>. QED BY <2>3, <2>4
<1>8. ASSUME NEW a \in Admins, SetRow(a)
      PROVE  Shows
  <2>. DEFINE e == edits[a]
  <2>1. e.pc = "update" /\ ruleHash' = ruleHash /\ e.rule \in Rules
    BY <1>8 DEF SetRow, Stands, EditInv
  <2>2. PICK edit : edits' = [edits EXCEPT ![a] = edit]
    BY <1>8 DEF SetRow, Writes, Becomes
  <2>3. q \in Known(ruleTable)
    BY <1>0, <1>8, <2>1 DEF SetRow, Known, RuleRows
  <2>. QED BY <1>3, <2>1, <2>2, <2>3
<1>9. ASSUME NEW a \in Admins, MergeRow(a) \/ ReadTable(a)
      PROVE  Shows
  <2>1. edits[a].pc \in {"read", "all", "one"} /\ UNCHANGED <<ruleTable, ruleHash>>
    BY <1>9 DEF MergeRow, ReadTable, Stands
  <2>2. PICK edit : edits' = [edits EXCEPT ![a] = edit]
    BY <1>9 DEF MergeRow, ReadTable, Writes, Becomes
  <2>. QED BY <1>3, <2>1, <2>2
<1>10. ASSUME NEW a \in Admins, DropRow(a)
      PROVE  Shows
  <2>1. /\ edits[a].pc = "delete" /\ edits' = [edits EXCEPT ![a] = NoEdit] /\ ruleHash' = ruleHash
        /\ ruleTable' = [ruleTable EXCEPT ![edits[a].rule] = NoRule] /\ edits[a].rule \in Rules
    BY <1>10 DEF DropRow, Stands, Becomes, EditInv
  <2>2. q # edits[a].rule /\ q \in Known(ruleTable)
    BY <1>0, <2>1 DEF Known, RuleRows
  <2>. QED BY <1>3, <2>1, <2>2
<1>11. ASSUME NEW a \in Admins, NEW r \in Rules, WriteRule(a, r)
      PROVE  Shows
  <2>. DEFINE p == [edits[a].put EXCEPT ![r] = NoRule]
  <2>1. /\ edits[a].pc = "write" /\ r \in Known(edits[a].put) /\ ruleTable' = ruleTable
        /\ ruleHash' = [ruleHash EXCEPT ![r] = edits[a].put[r]] /\ Writes(a, p)
    BY <1>11 DEF WriteRule, Stands
  <2>a. /\ r \in Rules /\ edits[a].put[r] # NoRule /\ edits[a].put \in [Rules -> RuleRow \cup {NoRule}]
        /\ ruleHash \in [Rules -> RuleRow \cup {NoRule}]
    BY <2>1 DEF Known, RuleRows
  <2>b. /\ ruleHash'[r] # NoRule /\ \A s \in Rules \ {r} : ruleHash'[s] = ruleHash[s]
        /\ \A s \in Rules \ {r} : p[s] = edits[a].put[s]
    BY <2>1, <2>a
  <2>c. p \in RuleRows
    BY <2>a DEF RuleRows
  <2>d. q \in Known(ruleHash) => q \in Known(ruleHash')
    BY <1>0, <2>a, <2>b DEF Known
  <2>2. /\ r \in Known(ruleHash')
        /\ q \in Known(ruleHash) => q \in Known(ruleHash')
        /\ q \in Known(edits[a].put) /\ q # r => q \in Known(p)
        /\ p \in RuleRows
    BY <1>0, <2>a, <2>b, <2>c, <2>d DEF Known
  <2>3. PICK edit : edits' = [edits EXCEPT ![a] = edit]
    BY <2>1 DEF Writes, Becomes
  <2>4. CASE q \in Known(edits[a].put) /\ q # r
    <3>1. q \in Known(p) /\ p \in RuleRows
      BY <2>2, <2>4
    <3>. HIDE DEF p
    <3>2. Pends(a)
      BY <1>4, <2>1, <3>1
    <3>. QED BY <3>2
  <2>5. CASE q = r
    BY <2>2, <2>5
  <2>6. CASE q \notin Known(edits[a].put) /\ q # r
    <3>1. ~Pending(a)
      BY <2>1, <2>6
    <3>. QED BY <1>3, <2>1, <2>2, <2>3, <3>1
  <2>. QED BY <2>4, <2>5, <2>6
<1>12. ~\E a \in Admins : Break(a)
  BY <1>1 DEF Break
<1>. QED BY <1>5, <1>6, <1>7, <1>8, <1>9, <1>10, <1>11, <1>12 DEF RuleStep

(* A call that writes rows next, or has none to write and is over.          *)
LEMMA WritesFacts ==
  ASSUME NEW a \in Admins, NEW p, Writes(a, p)
  PROVE  \E edit : /\ Becomes(a, edit) /\ edit.put = p /\ edit.pc \in {"none", "write"}
                   /\ (edit.pc = "none" => edit = NoEdit)
                   /\ (edit.pc = "none" => p = NoRows)
<1>1. CASE p = NoRows
  BY <1>1 DEF Writes, NoEdit
<1>2. CASE p # NoRows
  <2>. DEFINE e == [NoEdit EXCEPT !.pc = "write", !.put = p]
  <2>1. e.pc = "write" /\ e.put = p /\ Becomes(a, e)
    BY <1>2 DEF NoEdit, Writes
  <2>. QED BY <2>1
<1>. QED BY <1>1, <1>2

LEMMA AgreeNext ==
  ASSUME RulesTypeOK, EditInv, UsedInv, AgreeInv, RuleStep
  PROVE  AgreeInv'
<1>. USE EditFacts
<1>. SUFFICES ASSUME persisted', breaks' = 0, ~crossed'
              PROVE  AgreeInv'
  BY DEF AgreeInv
<1>1. persisted /\ breaks = 0 /\ ~crossed
  <2>1. UNCHANGED persisted /\ breaks' \in {breaks, breaks + 1}
    BY DEF RuleStep, CreateRule, UpdateRule, DeleteRule, GetRule, WriteRule, InsertRule, SetRow, MergeRow,
           DropRow, GetRules, ReadTable, Break, Ask, Stands
  <2>2. (\E a \in Admins : \E edit : Ask(a, edit)) \/ UNCHANGED crossed
    BY DEF RuleStep, CreateRule, UpdateRule, DeleteRule, GetRule, WriteRule, InsertRule, SetRow, MergeRow,
           DropRow, GetRules, ReadTable, Break, Stands
  <2>3. ~crossed
    BY <2>2 DEF Ask
  <2>. QED BY <2>1, <2>3
<1>2. ASSUME NEW a \in Admins, NEW edit, edits' = [edits EXCEPT ![a] = edit],
             \A b \in Admins \ {a} : edits[b] = NoEdit,
             \A r \in Known(ruleHash') :
               ruleHash'[r] = ruleTable'[r] \/ (edit.pc = "write" /\ r \in Known(edit.put)),
             edit.pc = "write" => \A r \in Known(edit.put) : edit.put[r] = ruleTable'[r],
             edit.pc = "read" => edit.to = NoRule \/ edit.rule \notin Known(ruleTable'),
             edit.pc \in {"insert", "delete"} => edit.rule \notin Known(ruleHash')
      PROVE  AgreeInv'
  <2>1. edits'[a] = edit /\ \A b \in Admins \ {a} : edits'[b] = NoEdit
    BY <1>2
  <2>2. \A b, d \in Editing' : b = d
    BY <2>1 DEF Editing
  <2>3. \A r \in Known(ruleHash') :
          ruleHash'[r] = ruleTable'[r] \/ \E b \in Admins : edits'[b].pc = "write" /\ r \in Known(edits'[b].put)
    BY <1>2, <2>1
  <2>4. ASSUME NEW b \in Admins
        PROVE  /\ edits'[b].pc = "write" => \A r \in Known(edits'[b].put) : edits'[b].put[r] = ruleTable'[r]
               /\ edits'[b].pc = "read" => edits'[b].to = NoRule \/ edits'[b].rule \notin Known(ruleTable')
               /\ edits'[b].pc \in {"insert", "delete"} => edits'[b].rule \notin Known(ruleHash')
    BY <1>2, <2>1
  <2>. QED BY <2>2, <2>3, <2>4 DEF AgreeInv
(* Who asks is alone, and what the hash holds is what the table holds.      *)
<1>3. ASSUME NEW a \in Admins, NEW edit, Ask(a, edit)
      PROVE  /\ edits' = [edits EXCEPT ![a] = edit] /\ UNCHANGED ruleTable
             /\ \A b \in Admins : edits[b] = NoEdit
             /\ \A r \in Known(ruleHash) : ruleHash[r] = ruleTable[r]
  <2>1. edits' = [edits EXCEPT ![a] = edit] /\ UNCHANGED ruleTable /\ Editing = {}
    BY <1>3 DEF Ask
  <2>2. \A b \in Admins : edits[b] = NoEdit
    BY <2>1 DEF Editing
  <2>. QED BY <1>1, <2>1, <2>2 DEF AgreeInv
(* And so is who goes on.                                                  *)
<1>4. ASSUME NEW a \in Admins, edits[a].pc # "none"
      PROVE  /\ \A b \in Admins \ {a} : edits[b] = NoEdit
             /\ \A r \in Known(ruleHash) :
                  ruleHash[r] = ruleTable[r] \/ (edits[a].pc = "write" /\ r \in Known(edits[a].put))
  <2>1. a \in Editing
    BY <1>4 DEF Editing
  <2>2. \A b \in Admins \ {a} : edits[b] = NoEdit
    BY <1>1, <2>1 DEF AgreeInv, Editing
  <2>. QED BY <1>1, <2>2 DEF AgreeInv
<1>5. ASSUME NEW a \in Admins, NEW r \in Rules, CreateRule(a, r) PROVE AgreeInv'
  <2>. DEFINE edit == [NoEdit EXCEPT !.pc = "insert", !.rule = r]
  <2>1. Ask(a, edit) /\ ruleHash' = ruleHash /\ r \notin used
    BY <1>1, <1>5 DEF CreateRule
  <2>2. edit.pc = "insert" /\ edit.rule = r /\ r \notin Known(ruleHash)
    BY <2>1 DEF NoEdit, UsedInv
  <2>. HIDE DEF edit
  <2>. QED BY <1>2, <1>3, <2>1, <2>2
<1>6. ASSUME NEW a \in Admins, (\E r \in Rules : UpdateRule(a, r) \/ GetRule(a, r)) \/ GetRules(a) PROVE AgreeInv'
  <2>1. PICK edit : Ask(a, edit) /\ edit.pc \in {"update", "one", "all"} /\ ruleHash' = ruleHash
    BY <1>1, <1>6 DEF UpdateRule, GetRule, GetRules, NoEdit
  <2>. QED BY <1>2, <1>3, <2>1
<1>7. ASSUME NEW a \in Admins, NEW r \in Rules, DeleteRule(a, r) PROVE AgreeInv'
  <2>. DEFINE edit == [NoEdit EXCEPT !.pc = "delete", !.rule = r]
  <2>1. Ask(a, edit) /\ ruleHash' = [ruleHash EXCEPT ![r] = NoRule]
    BY <1>1, <1>7 DEF DeleteRule
  <2>2. edit.pc = "delete" /\ edit.rule = r
    BY DEF NoEdit
  <2>3. r \notin Known(ruleHash') /\ \A s \in Known(ruleHash') : s \in Known(ruleHash) /\ ruleHash'[s] = ruleHash[s]
    BY <2>1 DEF Known, RuleRows
  <2>. HIDE DEF edit
  <2>4. /\ edits' = [edits EXCEPT ![a] = edit] /\ ruleTable' = ruleTable
        /\ \A b \in Admins : edits[b] = NoEdit
        /\ \A s \in Known(ruleHash) : ruleHash[s] = ruleTable[s]
    BY <1>3, <2>1
  <2>. QED BY <1>2, <2>2, <2>3, <2>4
<1>8. ASSUME NEW a \in Admins, InsertRule(a) PROVE AgreeInv'
  <2>. DEFINE r == edits[a].rule
  <2>1. /\ r \in Rules /\ ruleTable' = [ruleTable EXCEPT ![r] = 0] /\ ruleHash' = ruleHash
        /\ Writes(a, Only(r, 0)) /\ edits[a].pc = "insert"
    BY <1>8 DEF InsertRule, Stands, EditInv
  <2>2. r \notin Known(ruleHash)
    BY <1>1, <2>1 DEF AgreeInv
  <2>3. ruleTable'[r] = 0 /\ \A s \in Rules \ {r} : ruleTable'[s] = ruleTable[s]
    BY <2>1 DEF RuleRows
  <2>4. \A s \in Known(Only(r, 0)) : Only(r, 0)[s] = ruleTable'[s]
    BY <2>1, <2>3, OnlyFacts
  <2>5. \A s \in Known(ruleHash) : ruleHash[s] = ruleTable'[s]
    BY <1>4, <2>1, <2>2, <2>3 DEF Known
  <2>6. PICK edit : /\ edits' = [edits EXCEPT ![a] = edit] /\ edit.put = Only(r, 0)
                    /\ edit.pc \in {"none", "write"}
    BY <2>1, WritesFacts DEF Becomes
  <2>. QED BY <1>2, <1>4, <2>1, <2>4, <2>5, <2>6
<1>9. ASSUME NEW a \in Admins, SetRow(a) PROVE AgreeInv'
  <2>. DEFINE e == edits[a]
  <2>1. e.pc = "update" /\ ruleHash' = ruleHash /\ e.rule \in Rules
    BY <1>9 DEF SetRow, Stands, EditInv
  <2>2. CASE e.rule \in Known(ruleTable) /\ e.to # NoRule
    <3>1. ruleTable' = [ruleTable EXCEPT ![e.rule] = e.to] /\ Writes(a, Only(e.rule, e.to))
      BY <1>9, <2>2 DEF SetRow
    <3>2. ruleTable'[e.rule] = e.to /\ \A s \in Rules \ {e.rule} : ruleTable'[s] = ruleTable[s]
      BY <2>1, <3>1 DEF RuleRows
    <3>3. Known(Only(e.rule, e.to)) = {e.rule} /\ Only(e.rule, e.to)[e.rule] = e.to
      BY <2>1, <2>2, OnlyFacts
    <3>4. Known(NoRows) = {}
      OBVIOUS
    <3>. DEFINE p == Only(e.rule, e.to)
    <3>5. Writes(a, p) /\ p # NoRows
      BY <3>1, <3>3, <3>4
    <3>6. \A s \in Known(ruleHash) : ruleHash[s] = ruleTable'[s] \/ s \in Known(p)
      BY <1>4, <2>1, <3>2, <3>3 DEF Known
    <3>7. \A s \in Known(p) : p[s] = ruleTable'[s]
      BY <3>2, <3>3
    <3>. HIDE DEF p
    <3>8. PICK edit : edits' = [edits EXCEPT ![a] = edit] /\ edit.put = p /\ edit.pc = "write"
      BY <3>5, WritesFacts DEF Becomes
    <3>. QED BY <1>2, <1>4, <2>1, <3>6, <3>7, <3>8
  <2>3. CASE ~(e.rule \in Known(ruleTable) /\ e.to # NoRule)
    <3>. DEFINE edit == [e EXCEPT !.pc = "read"]
    <3>1. edits' = [edits EXCEPT ![a] = edit] /\ ruleTable' = ruleTable
      BY <1>9, <2>3 DEF SetRow, Becomes
    <3>2. e \in Edit
      BY DEF RulesTypeOK
    <3>3. edit.pc = "read" /\ edit.rule = e.rule /\ edit.to = e.to
      BY <3>2 DEF Edit
    <3>. HIDE DEF edit
    <3>. QED BY <1>2, <1>4, <2>1, <2>3, <3>1, <3>3
  <2>. QED BY <2>2, <2>3
<1>10. ASSUME NEW a \in Admins, MergeRow(a) PROVE AgreeInv'
  <2>. DEFINE e == edits[a]
              row == ruleHash[e.rule]
              new == IF row = NoRule \/ e.to = NoRule THEN row ELSE e.to
  <2>1. e.pc = "read" /\ e.rule \in Rules /\ Writes(a, Only(e.rule, new)) /\ UNCHANGED <<ruleTable, ruleHash>>
    BY <1>10 DEF MergeRow, Stands, EditInv
  <2>2. e.to = NoRule \/ e.rule \notin Known(ruleTable)
    BY <1>1, <2>1 DEF AgreeInv
  <2>3. \A s \in Known(ruleHash) : ruleHash[s] = ruleTable[s]
    BY <1>4, <2>1
  <2>4. new # NoRule => new = ruleTable[e.rule]
    BY <2>1, <2>2, <2>3 DEF Known
  <2>5. PICK edit : /\ edits' = [edits EXCEPT ![a] = edit] /\ edit.put = Only(e.rule, new)
                    /\ edit.pc \in {"none", "write"}
    BY <2>1, WritesFacts DEF Becomes
  <2>. HIDE DEF new
  <2>6. \A s \in Known(Only(e.rule, new)) : Only(e.rule, new)[s] = ruleTable'[s]
    <3>1. \A s \in Known(Only(e.rule, new)) : s = e.rule /\ Only(e.rule, new)[s] = new /\ new # NoRule
      BY <2>1, OnlyFacts DEF Known
    <3>. QED BY <2>1, <2>4, <3>1
  <2>. QED BY <1>2, <1>4, <2>1, <2>3, <2>5, <2>6
<1>11. ASSUME NEW a \in Admins, DropRow(a) PROVE AgreeInv'
  <2>. DEFINE r == edits[a].rule
  <2>1. /\ edits[a].pc = "delete" /\ edits' = [edits EXCEPT ![a] = NoEdit] /\ ruleHash' = ruleHash
        /\ ruleTable' = [ruleTable EXCEPT ![r] = NoRule] /\ r \in Rules
    BY <1>11 DEF DropRow, Stands, Becomes, EditInv
  <2>2. r \notin Known(ruleHash)
    BY <1>1, <2>1 DEF AgreeInv
  <2>3. \A s \in Rules \ {r} : ruleTable'[s] = ruleTable[s]
    BY <2>1 DEF RuleRows
  <2>4. \A s \in Known(ruleHash) : ruleHash[s] = ruleTable'[s]
    BY <1>4, <2>1, <2>2, <2>3 DEF Known
  <2>. QED BY <1>2, <1>4, <2>1, <2>4
<1>12. ASSUME NEW a \in Admins, ReadTable(a) PROVE AgreeInv'
  <2>1. UNCHANGED <<ruleTable, ruleHash>> /\ edits[a].pc \in {"all", "one"}
    BY <1>12 DEF ReadTable, Stands
  <2>2. PICK p : Writes(a, p) /\ \A s \in Known(p) : p[s] = ruleTable[s]
    <3>1. CASE Writes(a, ruleTable)
      BY <3>1
    <3>2. CASE edits[a].pc = "one" /\ Writes(a, Only(edits[a].rule, ruleTable[edits[a].rule]))
      <4>1. edits[a].rule \in Rules
        BY <3>2 DEF EditInv
      <4>. QED BY <3>2, <4>1, OnlyFacts
    <3>. QED BY <1>12, <3>1, <3>2 DEF ReadTable, Stands
  <2>3. PICK edit : edits' = [edits EXCEPT ![a] = edit] /\ edit.put = p /\ edit.pc \in {"none", "write"}
    BY <2>2, WritesFacts DEF Becomes
  <2>4. \A s \in Known(ruleHash) : ruleHash[s] = ruleTable[s]
    BY <1>4, <2>1
  <2>. QED BY <1>2, <1>4, <2>1, <2>2, <2>3, <2>4
<1>13. ASSUME NEW a \in Admins, NEW r \in Rules, WriteRule(a, r) PROVE AgreeInv'
  <2>. DEFINE put == edits[a].put
              p == [put EXCEPT ![r] = NoRule]
  <2>1. /\ edits[a].pc = "write" /\ r \in Known(put) /\ ruleTable' = ruleTable
        /\ ruleHash' = [ruleHash EXCEPT ![r] = put[r]] /\ Writes(a, p)
    BY <1>13 DEF WriteRule, Stands
  <2>2. /\ r \in Rules /\ put[r] # NoRule /\ put \in [Rules -> RuleRow \cup {NoRule}]
        /\ ruleHash \in [Rules -> RuleRow \cup {NoRule}]
    BY <2>1 DEF Known, RuleRows
  <2>3. /\ ruleHash'[r] = put[r] /\ \A s \in Rules \ {r} : ruleHash'[s] = ruleHash[s]
        /\ p[r] = NoRule /\ \A s \in Rules \ {r} : p[s] = put[s]
    BY <2>1, <2>2
  <2>4. \A s \in Known(put) : put[s] = ruleTable[s]
    BY <1>1, <2>1 DEF AgreeInv
  <2>5. PICK edit : /\ edits' = [edits EXCEPT ![a] = edit] /\ edit.put = p /\ edit.pc \in {"none", "write"}
                    /\ (edit.pc = "none" => p = NoRows)
    BY <2>1, WritesFacts DEF Becomes
  <2>. HIDE DEF p
  <2>6. \A s \in Known(p) : p[s] = ruleTable[s] /\ edit.pc = "write"
    <3>1. \A s \in Known(p) : s \in Known(put) /\ p[s] = put[s]
      BY <2>3 DEF Known
    <3>. QED BY <2>4, <2>5, <3>1
  <2>7. ASSUME NEW s \in Known(ruleHash')
        PROVE  ruleHash'[s] = ruleTable[s] \/ s \in Known(p)
    <3>1. CASE s = r
      BY <2>1, <2>3, <2>4, <3>1
    <3>2. CASE s # r
      <4>1. s \in Known(ruleHash) /\ ruleHash'[s] = ruleHash[s] /\ (s \in Known(put) => s \in Known(p))
        BY <2>3, <3>2 DEF Known
      <4>. QED BY <1>4, <2>1, <4>1
    <3>. QED BY <3>1, <3>2
  <2>. QED BY <1>2, <1>4, <2>1, <2>5, <2>6, <2>7, ZenonT(40)
<1>14. ~\E a \in Admins : Break(a)
  BY <1>1 DEF Break
<1>. QED BY <1>5, <1>6, <1>7, <1>8, <1>9, <1>10, <1>11, <1>12, <1>13, <1>14 DEF RuleStep

(* The alert rules: while no two calls overlap and none was cut short, a     *)
(* rule the hash shows is the one of the table; and however they overlap, a  *)
(* hash that has cached the table since it was empty hides none of its rules *)
(* (redisAlertStore).                                                      *)
THEOREM RulesTrueCorrect == Spec => []RulesTrue
<1>. DEFINE RInv == RulesTypeOK /\ EditInv /\ UsedInv /\ ShownInv /\ AgreeInv
<1>1. Init => RInv
  <2>. SUFFICES ASSUME Init PROVE RInv
    OBVIOUS
  <2>1. /\ persisted \in BOOLEAN /\ ruleTable \in [Rules -> {NoRule, 0}] /\ ruleHash = NoRows
        /\ used = Known(ruleTable) /\ edits = [a \in Admins |-> NoEdit] /\ cold = (used # {})
        /\ crossed = FALSE /\ edited = 0 /\ breaks = 0
    BY DEF Init, RulesInit
  <2>2. RulesTypeOK
    <3>1. 0 \in RuleRow /\ 0 \in 0 .. MaxEdits /\ 0 \in 0 .. MaxBreaks
      BY AlertRulesAssumption DEF RuleRow
    <3>2. NoRows \in RuleRows /\ ruleTable \in RuleRows
      BY <2>1, <3>1 DEF NoRows, RuleRows
    <3>3. NoEdit \in Edit
      BY <3>2 DEF NoEdit, Edit
    <3>4. edits \in [Admins -> Edit]
      BY <2>1, <3>3
    <3>5. used \subseteq Rules /\ cold \in BOOLEAN /\ crossed \in BOOLEAN
      BY <2>1 DEF Known
    <3>. QED BY <2>1, <3>1, <3>2, <3>4, <3>5 DEF RulesTypeOK
  <2>3. Known(ruleHash) = {} /\ \A a \in Admins : edits[a].pc = "none" /\ edits[a] = NoEdit /\ Known(edits[a].put) = {}
    BY <2>1 DEF Known, NoRows, NoEdit
  <2>4. EditInv /\ UsedInv /\ ShownInv /\ AgreeInv
    BY <2>1, <2>3 DEF EditInv, UsedInv, ShownInv, AgreeInv, Editing
  <2>. QED BY <2>2, <2>4
<1>2. RInv /\ [Next]_vars => RInv'
  <2>. SUFFICES ASSUME RInv, [Next]_vars PROVE RInv'
    OBVIOUS
  <2>1. CASE RuleStep
    BY <2>1, RuleTypeNext, ShownNext, AgreeNext
  <2>2. CASE UNCHANGED ruleVars
    BY <2>2 DEF ruleVars, RulesTypeOK, EditInv, UsedInv, ShownInv, AgreeInv, Editing
  <2>. QED BY <2>1, <2>2, RuleSteps
<1>3. RInv => RulesTrue
  <2>. SUFFICES ASSUME RInv PROVE RulesTrue
    OBVIOUS
  <2>1. AtRest => \A a \in Admins : edits[a].pc = "none"
    BY DEF AtRest, Editing, NoEdit
  <2>2. AtRest /\ ~crossed => \A r \in Known(ruleHash) : ruleHash[r] = ruleTable[r]
    BY <2>1 DEF AtRest, AgreeInv
  <2>3. AtRest /\ ~cold => Known(ruleTable) \subseteq Known(ruleHash)
    BY <2>1 DEF AtRest, ShownInv
  <2>. QED BY <2>2, <2>3 DEF RulesTrue
<1>. QED BY <1>1, <1>2, <1>3, PTL DEF Spec

-----------------------------------------------------------------------------
(* The schedules.                                                          *)
ScheduleStep ==
  \/ \E c \in Clients, i \in Ids :
       \/ \E k \in Keys \cup {None} : Create(c, i, k)
       \/ \E p \in Patches : Change(c, i, p)
       \/ Retrieve(c, i) \/ Delete(c, i) \/ WriteRow(c, i) \/ WriteKey(c, i)
  \/ \E c \in Clients :
       \/ \E full \in BOOLEAN : List(c, full)
       \/ StoreCreate(c) \/ FindByKey(c) \/ StorePatch(c) \/ ReadRow(c) \/ StoreRetrieve(c) \/ StoreList(c)
       \/ Filled(c) \/ ReadKey(c) \/ Unhash(c) \/ Unkey(c) \/ StoreDelete(c) \/ Fault(c)

LEMMA ScheduleSteps == [Next]_vars => ScheduleStep \/ UNCHANGED scheduleVars
BY DEF Next, vars, Scheduling, Running, Ruling, ScheduleStep

(* What a call holds at its step: nothing of its key is written before its   *)
(* rows, one that writes a single row writes no other, and with a durable   *)
(* store nothing is read back from Redis.                                  *)
CallOK(o) ==
  /\ o.op = "idle" => o = Idle
  /\ o.op \notin {"idle", "list"} => o.id \in Ids
  /\ o.op = "create" /\ o.pc = "read" => o.owner \in Ids
  /\ o.pc \notin {"row", "fill"} => o.keyed = {}
  /\ o.keyed \subseteq Present(o.put)
  /\ o.pc = "row" => \A i, j \in Present(o.put) : i = j
  /\ o.pc = "fill" <=> o.op = "list" /\ o.pc # "store"
  /\ durable /\ o.op \in {"create", "patch"} => o.pc \in {"store", "row"}
CallInv == \A c \in Clients : CallOK(calls[c])

(* A row on its way to the hash; a schedule that is going, out of the hash   *)
(* already; a list of everything that fills the hash.                       *)
Carries(o, i) == o.pc \in {"row", "fill"} /\ i \in Present(o.put) \ o.keyed
Leaves(o, i) == o.op = "delete" /\ o.pc \in {"unkey", "drop"} /\ o.id = i
Fills(o) == o.op = "list" /\ o.pc = "fill" /\ o.full

(* However calls overlap, while none is cut short: when the hash is complete *)
(* or a full list fills it, each row of the store is in it or on its way.    *)
CoverInv ==
  durable /\ faults = 0 /\ (complete \/ \E c \in Clients : Fills(calls[c])) =>
    \A i \in Present(rows) :
      i \in Present(cache) \/ \E c \in Clients : Carries(calls[c], i) \/ Leaves(calls[c], i)

(* While they do not overlap, what the hash holds, and what the one call     *)
(* carries, is what the store holds.                                       *)
SameInv ==
  durable /\ faults = 0 /\ ~overlapped =>
    /\ \A c, d \in Busy : c = d
    /\ \A i \in Present(cache) : cache[i] = rows[i] \/ \E c \in Clients : Carries(calls[c], i)
    /\ \A c \in Clients : calls[c].pc \in {"row", "fill"} =>
         \A i \in Present(calls[c].put) : calls[c].put[i] = rows[i]
    /\ \A c \in Clients : \A i \in Ids : Leaves(calls[c], i) => cache[i] = None

LEMMA CallFacts ==
  ASSUME TypeOK
  PROVE  /\ calls \in [Clients -> Call] /\ rows \in [Ids -> Row \cup {None}] /\ cache \in [Ids -> Row \cup {None}]
         /\ durable \in BOOLEAN /\ complete \in BOOLEAN /\ overlapped \in BOOLEAN
         /\ dedupe \in [Keys -> Ids \cup {None}] /\ made \in 0 .. MaxCalls /\ faults \in 0 .. MaxFaults
         /\ \A i \in Present(rows) : i \in Ids /\ rows[i] \in Row
         /\ \A i \in Present(cache) : i \in Ids /\ cache[i] \in Row
         /\ \A c \in Clients : calls[c] \in Call
BY DEF TypeOK, Table, Present

LEMMA RowFacts ==
  /\ Nothing \in Table /\ NoPatch \in Patch /\ Idle \in Call /\ CallOK(Idle) /\ Present(Nothing) = {}
  /\ Patches \subseteq Patch
  /\ \A k \in Keys \cup {None} : Fresh(k) \in Row
  /\ \A row \in Row : \A p \in Patch : Patched(row, p) \in Row
  /\ \A row \in Row : [row EXCEPT !.active = TRUE] \in Row
<1>1. Nothing \in Table /\ Present(Nothing) = {}
  BY DEF Nothing, Table, Present
<1>2. NoPatch \in Patch
  BY DEF NoPatch, Patch
<1>3. Idle \in Call
  BY <1>1, <1>2 DEF Idle, Call
<1>4. CallOK(Idle)
  BY <1>1 DEF Idle, CallOK
<1>5. Patches \subseteq Patch
  <2>1. /\ \A b \in BOOLEAN : [NoPatch EXCEPT !.active = b] \in Patch
        /\ \A k \in Keys : [NoPatch EXCEPT !.key = k] \in Patch
        /\ [NoPatch EXCEPT !.ran = TRUE] \in Patch
    BY <1>2 DEF Patch
  <2>. QED BY <2>1 DEF Patches
<1>6. \A k \in Keys \cup {None} : Fresh(k) \in Row
  BY DEF Fresh, Row
<1>7. ASSUME NEW row \in Row, NEW p \in Patch PROVE Patched(row, p) \in Row
  <2>1. /\ row.active \in BOOLEAN /\ row.key \in Keys \cup {None} /\ row.ran \in BOOLEAN
        /\ p.active \in BOOLEAN \cup {None} /\ p.key \in Keys \cup {None} /\ p.ran \in BOOLEAN \cup {None}
    BY DEF Row, Patch
  <2>. DEFINE b == IF p.active = None THEN row.active ELSE p.active
              k == IF p.key = None THEN row.key ELSE p.key
              d == IF p.ran = None THEN row.ran ELSE p.ran
  <2>2. b \in BOOLEAN /\ k \in Keys \cup {None} /\ d \in BOOLEAN
    BY <2>1
  <2>. HIDE DEF b, k, d
  <2>3. [active |-> b, key |-> k, ran |-> d] \in Row
    BY <2>2 DEF Row
  <2>. QED BY <2>3 DEF Patched, b, k, d
<1>8. \A row \in Row : [row EXCEPT !.active = TRUE] \in Row
  BY DEF Row
<1>. QED BY <1>1, <1>2, <1>3, <1>4, <1>5, <1>6, <1>7, <1>8

(* A call that goes on to write one row, which it has just read or put.      *)
LEMMA PutFacts ==
  ASSUME TypeOK, CallInv, NEW c \in Clients, NEW i \in Ids, NEW row \in Row, Put(c, i, row),
         calls[c].pc \notin {"row", "fill"}, calls[c].op \notin {"idle", "list"}
  PROVE  \E o \in Call : /\ calls' = [calls EXCEPT ![c] = o] /\ CallOK(o) /\ o.pc = "row" /\ o.op = calls[c].op
                         /\ o.put[i] = row /\ o.keyed = {}
                         /\ Present(o.put) = {i}
<1>. DEFINE o == [calls[c] EXCEPT !.pc = "row", !.put = [Nothing EXCEPT ![i] = row], !.again = ~durable]
<1>1. calls[c] \in Call /\ durable \in BOOLEAN /\ calls \in [Clients -> Call]
  BY CallFacts
<1>2. [Nothing EXCEPT ![i] = row] \in Table
  BY DEF Nothing, Table
<1>3. o \in Call /\ o.pc = "row" /\ o.op = calls[c].op /\ o.put = [Nothing EXCEPT ![i] = row]
      /\ o.keyed = calls[c].keyed /\ o.id = calls[c].id
  BY <1>1, <1>2 DEF Call
<1>4. o.keyed = {} /\ o.id \in Ids
  BY <1>3 DEF CallInv, CallOK
<1>5. Present(o.put) \subseteq {i} /\ o.put[i] = row
  BY <1>3 DEF Nothing, Present
<1>6. calls' = [calls EXCEPT ![c] = o]
  BY <1>1 DEF Put
<1>7. Present(o.put) = {i}
  BY <1>5, NoneAssumption DEF Present
<1>. HIDE DEF o
<1>8. CallOK(o)
  BY <1>3, <1>4, <1>5 DEF CallOK
<1>. QED BY <1>3, <1>4, <1>5, <1>6, <1>7, <1>8

(* A call that goes on is of its type if the call it becomes is.             *)
LEMMA CallNext ==
  ASSUME TypeOK, CallInv, NEW c \in Clients, NEW o \in Call, calls' = [calls EXCEPT ![c] = o], CallOK(o),
         rows' \in Table, cache' \in Table, dedupe' \in [Keys -> Ids \cup {None}], complete' \in BOOLEAN,
         durable' = durable, overlapped' \in BOOLEAN, made' \in 0 .. MaxCalls, faults' \in 0 .. MaxFaults
  PROVE  TypeOK' /\ CallInv'
<1>1. calls' \in [Clients -> Call]
  BY CallFacts
<1>2. TypeOK'
  BY <1>1, CallFacts DEF TypeOK
<1>3. \A d \in Clients : calls'[d] = IF d = c THEN o ELSE calls[d]
  BY CallFacts
<1>4. CallOK(o)' /\ \A d \in Clients : CallOK(calls[d]) => CallOK(calls[d])'
  BY DEF CallOK
<1>. QED BY <1>2, <1>3, <1>4 DEF CallInv, CallOK

(* What is known of a call that is the only one.                            *)
Alone(c) ==
  /\ \A d \in Clients \ {c} : calls[d] = Idle
  /\ \A i \in Present(cache) : cache[i] = rows[i] \/ Carries(calls[c], i)
  /\ calls[c].pc \in {"row", "fill"} => \A i \in Present(calls[c].put) : calls[c].put[i] = rows[i]
  /\ \A i \in Ids : Leaves(calls[c], i) => cache[i] = None

LEMMA IdleFacts == Idle.op = "idle" /\ Idle.pc = "store" /\ ~Fills(Idle) /\ \A i : ~Carries(Idle, i) /\ ~Leaves(Idle, i)
BY DEF Idle, Fills, Carries, Leaves

LEMMA AloneFacts ==
  ASSUME TypeOK, SameInv, durable, faults = 0, ~overlapped, NEW c \in Clients, c \in Busy \/ Busy = {}
  PROVE  Alone(c)
<1>1. \A d \in Clients \ {c} : calls[d] = Idle
  BY DEF SameInv, Busy
<1>2. \A d \in Clients \ {c} : \A i : ~Carries(calls[d], i)
  BY <1>1, IdleFacts
<1>. QED BY <1>1, <1>2 DEF SameInv, Alone

(* A step of a call keeps CoverInv if each row it leaves in the store is     *)
(* shown, or was there and is not taken from where it was shown.            *)
LEMMA CoverStep ==
  ASSUME TypeOK, CoverInv, NEW c \in Clients, NEW o, calls' = [calls EXCEPT ![c] = o],
         durable' = durable, faults' = 0 => faults = 0,
         complete' => complete \/ Fills(calls[c]),
         \A i \in Present(rows') :
           \/ i \in Present(cache') \/ Carries(o, i) \/ Leaves(o, i)
           \/ /\ i \in Present(rows) /\ i \notin Present(cache) /\ ~Carries(calls[c], i) /\ ~Leaves(calls[c], i)
              /\ ~Fills(o) \/ Fills(calls[c])
  PROVE  CoverInv'
<1>. SUFFICES ASSUME durable', faults' = 0, complete' \/ \E d \in Clients : Fills(calls'[d]),
                     NEW i \in Present(rows')
              PROVE  i \in Present(cache') \/ \E d \in Clients : Carries(calls'[d], i) \/ Leaves(calls'[d], i)
  BY DEF CoverInv, Carries, Leaves, Fills
<1>1. calls'[c] = o /\ \A d \in Clients \ {c} : calls'[d] = calls[d]
  BY CallFacts
<1>2. CASE i \in Present(cache') \/ Carries(o, i) \/ Leaves(o, i)
  BY <1>1, <1>2
<1>3. CASE /\ i \in Present(rows) /\ i \notin Present(cache) /\ ~Carries(calls[c], i) /\ ~Leaves(calls[c], i)
           /\ ~Fills(o) \/ Fills(calls[c])
  <2>1. complete \/ \E d \in Clients : Fills(calls[d])
    BY <1>1, <1>3
  <2>2. PICK d \in Clients : Carries(calls[d], i) \/ Leaves(calls[d], i)
    BY <1>3, <2>1 DEF CoverInv
  <2>3. d # c
    BY <1>3, <2>2
  <2>. QED BY <1>1, <2>2, <2>3
<1>. QED BY <1>2, <1>3

LEMMA SameStep ==
  ASSUME TypeOK, SameInv, NEW c \in Clients, NEW o, calls' = [calls EXCEPT ![c] = o],
         durable' = durable, faults' = 0 => faults = 0, ~overlapped' => ~overlapped /\ (c \in Busy \/ Busy = {}),
         durable /\ Alone(c) =>
           /\ \A i \in Present(cache') : cache'[i] = rows'[i] \/ Carries(o, i)
           /\ o.pc \in {"row", "fill"} => \A i \in Present(o.put) : o.put[i] = rows'[i]
           /\ \A i \in Ids : Leaves(o, i) => cache'[i] = None
  PROVE  SameInv'
<1>. SUFFICES ASSUME durable', faults' = 0, ~overlapped' PROVE SameInv'
  BY DEF SameInv
<1>1. durable /\ Alone(c)
  BY AloneFacts
<1>2. calls'[c] = o /\ \A d \in Clients \ {c} : calls'[d] = Idle
  BY <1>1, CallFacts DEF Alone
<1>3. \A d, e \in Busy' : d = e
  BY <1>2 DEF Busy
<1>4. \A i \in Present(cache') : cache'[i] = rows'[i] \/ \E d \in Clients : Carries(calls'[d], i)
  BY <1>1, <1>2
<1>5. ASSUME NEW d \in Clients
      PROVE  /\ calls'[d].pc \in {"row", "fill"} => \A i \in Present(calls'[d].put) : calls'[d].put[i] = rows'[i]
             /\ \A i \in Ids : Leaves(calls'[d], i) => cache'[i] = None
  BY <1>1, <1>2, IdleFacts
<1>. QED BY <1>3, <1>4, <1>5 DEF SameInv, Carries, Leaves

ScheduleInv == TypeOK /\ CallInv /\ CoverInv /\ SameInv

(* A step of a call that has nothing on its way, before it or after.         *)
LEMMA AsideStep ==
  ASSUME ScheduleInv, NEW c \in Clients, NEW o \in Call, calls' = [calls EXCEPT ![c] = o], CallOK(o),
         UNCHANGED <<durable, rows, cache, complete>>,
         dedupe' \in [Keys -> Ids \cup {None}], made' \in 0 .. MaxCalls, faults' \in 0 .. MaxFaults,
         overlapped' \in BOOLEAN, faults' = 0 => faults = 0,
         ~overlapped' => ~overlapped /\ (c \in Busy \/ Busy = {}),
         o.pc \notin {"row", "fill"}, calls[c].pc \notin {"row", "fill"},
         \A i : Leaves(o, i) <=> Leaves(calls[c], i)
  PROVE  ScheduleInv'
<1>1. TypeOK' /\ CallInv'
  BY CallNext DEF ScheduleInv, TypeOK
<1>2. ~Fills(o) /\ \A i : ~Carries(o, i) /\ ~Carries(calls[c], i)
  BY DEF Fills, Carries
<1>3. CoverInv'
  BY <1>2, CoverStep DEF ScheduleInv
<1>4. SameInv'
  BY <1>2, SameStep DEF ScheduleInv, Alone
<1>. QED BY <1>1, <1>3, <1>4 DEF ScheduleInv

LEMMA BeginStep ==
  ASSUME ScheduleInv, NEW c \in Clients, NEW o \in Call, Begin(c, o), CallOK(o), o.pc \in {"store", "find", "read"}
  PROVE  ScheduleInv'
<1>1. /\ calls' = [calls EXCEPT ![c] = o] /\ calls[c] = Idle /\ made' = made + 1 /\ made < MaxCalls
      /\ overlapped' = (overlapped \/ Busy # {}) /\ UNCHANGED <<durable, rows, cache, dedupe, complete, faults>>
  BY DEF Begin, Busy, redis
<1>2. made' \in 0 .. MaxCalls
  BY <1>1, CallFacts, CacheAssumption DEF ScheduleInv
<1>3. overlapped' \in BOOLEAN /\ (~overlapped' => ~overlapped /\ Busy = {})
  BY <1>1
<1>4. faults' \in 0 .. MaxFaults /\ (faults' = 0 => faults = 0) /\ dedupe' \in [Keys -> Ids \cup {None}]
  BY <1>1, CallFacts DEF ScheduleInv
<1>5. \A i : Leaves(o, i) <=> Leaves(calls[c], i)
  BY <1>1, IdleFacts DEF Leaves
<1>6. calls[c].pc \notin {"row", "fill"} /\ o.pc \notin {"row", "fill"}
  BY <1>1, IdleFacts
<1>. QED BY <1>1, <1>2, <1>3, <1>4, <1>5, <1>6, AsideStep

(* What holds of a call that goes on, at a step that is not a fault.         *)
LEMMA GoesOn ==
  ASSUME ScheduleInv, UNCHANGED <<durable, history>>
  PROVE  /\ durable' = durable /\ made' \in 0 .. MaxCalls /\ faults' \in 0 .. MaxFaults /\ overlapped' \in BOOLEAN
         /\ faults' = faults /\ overlapped' = overlapped
BY CallFacts DEF ScheduleInv, history

LEMMA BusyFacts ==
  ASSUME NEW c \in Clients, calls[c].op # "idle" \/ calls[c].pc # "store"
  PROVE  c \in Busy
BY IdleFacts DEF Busy

LEMMA ScheduleNext ==
  ASSUME ScheduleInv, ScheduleStep
  PROVE  ScheduleInv'
<1>. USE DEF ScheduleInv
<1>1. ASSUME NEW c \in Clients, NEW i \in Ids, NEW k \in Keys \cup {None}, Create(c, i, k) PROVE ScheduleInv'
  <2>. DEFINE o == [Idle EXCEPT !.op = "create", !.id = i, !.patch.key = k,
                                !.pc = IF durable THEN "store" ELSE "find"]
  <2>1. /\ o \in Call /\ o.op = "create" /\ o.id = i /\ o.keyed = {} /\ o.put = Nothing
        /\ o.pc = IF durable THEN "store" ELSE "find"
    BY RowFacts, ZenonT(40) DEF Idle, Call, Patch, NoPatch
  <2>2. CallOK(o)
    BY <2>1, RowFacts DEF CallOK
  <2>. QED BY <1>1, <2>1, <2>2, BeginStep DEF Create
<1>2. ASSUME NEW c \in Clients, NEW i \in Ids, NEW p \in Patches, Change(c, i, p) PROVE ScheduleInv'
  <2>. DEFINE o == [Idle EXCEPT !.op = "patch", !.id = i, !.patch = p, !.pc = IF durable THEN "store" ELSE "read"]
  <2>1. /\ o \in Call /\ o.op = "patch" /\ o.id = i /\ o.keyed = {} /\ o.put = Nothing
        /\ o.pc = IF durable THEN "store" ELSE "read"
    BY RowFacts DEF Idle, Call
  <2>2. CallOK(o)
    BY <2>1, RowFacts DEF CallOK
  <2>. QED BY <1>2, <2>1, <2>2, BeginStep DEF Change
<1>3. ASSUME NEW c \in Clients, NEW i \in Ids, Retrieve(c, i) \/ Delete(c, i) PROVE ScheduleInv'
  <2>. DEFINE o(op, pc) == [Idle EXCEPT !.op = op, !.pc = pc, !.id = i]
              r == [Idle EXCEPT !.op = "retrieve", !.id = i]
  <2>1. r \in Call /\ r.op = "retrieve" /\ r.pc = "store" /\ r.id = i /\ r.keyed = {} /\ r.put = Nothing
    BY RowFacts DEF Idle, Call
  <2>2. o("delete", "read") \in Call /\ o("delete", "read").op = "delete" /\ o("delete", "read").pc = "read"
        /\ o("delete", "read").id = i /\ o("delete", "read").keyed = {} /\ o("delete", "read").put = Nothing
    BY RowFacts DEF Idle, Call
  <2>3. CallOK(r) /\ CallOK(o("delete", "read"))
    BY <2>1, <2>2, RowFacts DEF CallOK
  <2>. QED BY <1>3, <2>1, <2>2, <2>3, BeginStep DEF Retrieve, Delete
<1>4. ASSUME NEW c \in Clients, NEW full \in BOOLEAN, List(c, full) PROVE ScheduleInv'
  <2>. DEFINE o == [Idle EXCEPT !.op = "list", !.full = full]
  <2>1. o \in Call /\ o.op = "list" /\ o.pc = "store" /\ o.keyed = {} /\ o.put = Nothing
    BY RowFacts DEF Idle, Call
  <2>2. CallOK(o)
    BY <2>1, RowFacts DEF CallOK
  <2>. QED BY <1>4, <2>1, <2>2, BeginStep DEF List
(* A call that returns with nothing on its way.                             *)
<1>5. ASSUME NEW c \in Clients, Done(c), c \in Busy, calls[c].pc \notin {"row", "fill"},
             \A i : ~Leaves(calls[c], i), UNCHANGED <<durable, rows, redis, history>>
      PROVE  ScheduleInv'
  <2>1. calls' = [calls EXCEPT ![c] = Idle] /\ UNCHANGED <<durable, rows, cache, dedupe, complete>>
    BY <1>5 DEF Done, redis
  <2>2. dedupe' \in [Keys -> Ids \cup {None}]
    BY <2>1, CallFacts
  <2>3. \A i : Leaves(Idle, i) <=> Leaves(calls[c], i)
    BY <1>5, IdleFacts
  <2>4. /\ made' \in 0 .. MaxCalls /\ faults' \in 0 .. MaxFaults /\ overlapped' \in BOOLEAN
        /\ faults' = faults /\ overlapped' = overlapped
    BY <1>5, GoesOn
  <2>. QED BY <1>5, <2>1, <2>2, <2>3, <2>4, AsideStep, RowFacts, IdleFacts
(* A call that goes on to put the row that the store has now.                *)
<1>6. ASSUME NEW c \in Clients, NEW i \in Ids, NEW row \in Row, Put(c, i, row), calls[c].pc \notin {"row", "fill"},
             calls[c].op \notin {"idle", "list", "delete"}, durable => rows' = [rows EXCEPT ![i] = row],
             rows' \in Table, UNCHANGED <<durable, redis, history>>
      PROVE  ScheduleInv'
  <2>1. PICK o \in Call : /\ calls' = [calls EXCEPT ![c] = o] /\ CallOK(o) /\ o.pc = "row" /\ o.op = calls[c].op
                          /\ o.put[i] = row /\ o.keyed = {}
                          /\ Present(o.put) = {i}
    BY <1>6, PutFacts
  <2>2. rows' \in Table /\ UNCHANGED <<cache, dedupe, complete>> /\ cache' \in Table
        /\ dedupe' \in [Keys -> Ids \cup {None}] /\ complete' \in BOOLEAN
    BY <1>6, CallFacts DEF Table, redis
  <2>3. TypeOK' /\ CallInv'
    BY <1>6, <2>1, <2>2, GoesOn, CallNext
  <2>4. ~Fills(o) /\ ~Fills(calls[c]) /\ (\A j : ~Leaves(o, j) /\ ~Leaves(calls[c], j) /\ ~Carries(calls[c], j))
    BY <1>6, <2>1 DEF Fills, Leaves, Carries
  <2>5. durable => /\ rows'[i] = row
                   /\ \A j \in Ids \ {i} : rows'[j] = rows[j]
    BY <1>6, CallFacts
  <2>6. durable => \A j \in Present(rows') : Carries(o, j) \/ j \in Present(rows)
    BY <2>1, <2>5 DEF Present, Carries
  <2>7. CoverInv'
    <3>1. CASE durable
      BY <1>6, <2>1, <2>2, <2>4, <2>6, <3>1, GoesOn, CoverStep
    <3>2. CASE ~durable
      BY <1>6, <3>2 DEF CoverInv
    <3>. QED BY <3>1, <3>2
  <2>8. ASSUME durable, Alone(c)
        PROVE  /\ \A j \in Present(cache') : cache'[j] = rows'[j] \/ Carries(o, j)
               /\ \A j \in Present(o.put) : o.put[j] = rows'[j]
    <3>1. \A j \in Present(cache) : cache[j] = rows[j] /\ j \in Ids
      BY <2>4, <2>8 DEF Alone, Present
    <3>2. Carries(o, i)
      BY <2>1 DEF Carries
    <3>. QED BY <2>1, <2>2, <2>5, <2>8, <3>1, <3>2
  <2>9. c \in Busy
    BY <1>6, BusyFacts
  <2>10. SameInv'
    <3>1. durable' = durable /\ faults' = faults /\ overlapped' = overlapped
      BY <1>6, GoesOn
    <3>2. durable /\ Alone(c) =>
            /\ \A j \in Present(cache') : cache'[j] = rows'[j] \/ Carries(o, j)
            /\ o.pc \in {"row", "fill"} => \A j \in Present(o.put) : o.put[j] = rows'[j]
            /\ \A j \in Ids : Leaves(o, j) => cache'[j] = None
      BY <2>4, <2>8
    <3>. QED BY <2>1, <2>9, <3>1, <3>2, SameStep
  <2>. QED BY <2>3, <2>7, <2>10
<1>7. ASSUME NEW c \in Clients, StoreCreate(c) PROVE ScheduleInv'
  <2>. DEFINE o == calls[c]
              owners == {i \in Present(rows) : o.patch.key # None /\ rows[i].key = o.patch.key}
              i == IF owners = {} THEN o.id ELSE CHOOSE j \in owners : TRUE
              row == IF owners = {} THEN Fresh(o.patch.key) ELSE [rows[i] EXCEPT !.active = TRUE]
  <2>1. o.op = "create" /\ o.pc = "store" /\ UNCHANGED <<durable, redis, history>> /\ c \in Busy
    BY <1>7, BusyFacts DEF StoreCreate, At
  <2>2. o \in Call /\ o.id \in Ids /\ o.patch.key \in Keys \cup {None}
    BY <2>1, CallFacts DEF CallInv, CallOK, Call, Patch
  <2>3. i \in Ids /\ row \in Row
    <3>1. CASE owners = {}
      BY <2>2, <3>1, RowFacts
    <3>2. CASE owners # {}
      <4>1. i \in owners
        BY <3>2
      <4>2. i \in Ids /\ rows[i] \in Row
        BY <4>1, CallFacts
      <4>. QED BY <3>2, <4>2, RowFacts
    <3>. QED BY <3>1, <3>2
  <2>4. \/ Done(c) /\ UNCHANGED rows
        \/ rows' = [rows EXCEPT ![i] = row] /\ Put(c, i, row)
    BY <1>7 DEF StoreCreate
  <2>. HIDE DEF i, row
  <2>5. CASE Done(c) /\ UNCHANGED rows
    BY <1>5, <2>1, <2>5 DEF Leaves
  <2>6. CASE rows' = [rows EXCEPT ![i] = row] /\ Put(c, i, row)
    <3>1. rows' \in Table
      BY <2>3, <2>6, CallFacts DEF Table
    <3>. QED BY <1>6, <2>1, <2>3, <2>6, <3>1
  <2>. QED BY <2>4, <2>5, <2>6
<1>8. ASSUME NEW c \in Clients, StorePatch(c) PROVE ScheduleInv'
  <2>. DEFINE o == calls[c]
              row == Patched(rows[o.id], o.patch)
  <2>1. o.op = "patch" /\ o.pc = "store" /\ UNCHANGED <<durable, redis, history>> /\ c \in Busy
    BY <1>8, BusyFacts DEF StorePatch, At
  <2>2. o \in Call /\ o.id \in Ids /\ o.patch \in Patch
    BY <2>1, CallFacts DEF CallInv, CallOK, Call
  <2>3. \/ Done(c) /\ UNCHANGED rows
        \/ o.id \in Present(rows) /\ rows' = [rows EXCEPT ![o.id] = row] /\ Put(c, o.id, row)
    BY <1>8 DEF StorePatch
  <2>4. CASE Done(c) /\ UNCHANGED rows
    BY <1>5, <2>1, <2>4 DEF Leaves
  <2>5. CASE o.id \in Present(rows) /\ rows' = [rows EXCEPT ![o.id] = row] /\ Put(c, o.id, row)
    <3>1. row \in Row
      BY <2>2, <2>5, CallFacts, RowFacts
    <3>. HIDE DEF row
    <3>2. rows' \in Table
      BY <2>2, <2>5, <3>1, CallFacts DEF Table
    <3>. QED BY <1>6, <2>1, <2>2, <2>5, <3>1, <3>2
  <2>. QED BY <2>3, <2>4, <2>5
<1>9. ASSUME NEW c \in Clients, FindByKey(c) PROVE ScheduleInv'
  <2>. DEFINE k == calls[c].patch.key
              o == [calls[c] EXCEPT !.pc = "read", !.owner = dedupe[k]]
  <2>1. /\ calls[c].op = "create" /\ calls[c].pc = "find" /\ UNCHANGED <<durable, rows, redis, history>>
        /\ ~durable /\ calls[c] \in Call /\ calls[c].id \in Ids /\ k \in Keys \cup {None} /\ calls[c].keyed = {}
        /\ c \in Busy
    BY <1>9, CallFacts, BusyFacts DEF FindByKey, At, CallInv, CallOK, Call, Patch
  <2>2. CASE k # None /\ dedupe[k] # None
    <3>1. calls' = [calls EXCEPT ![c] = o] /\ dedupe[k] \in Ids
      BY <1>9, <2>1, <2>2, CallFacts DEF FindByKey
    <3>2. o \in Call /\ o.op = "create" /\ o.pc = "read" /\ o.id \in Ids /\ o.owner \in Ids /\ o.keyed = {}
      BY <2>1, <3>1 DEF Call
    <3>. HIDE DEF o
    <3>3. CallOK(o)
      BY <2>1, <3>2 DEF CallOK
    <3>4. \A i : ~Leaves(o, i) /\ ~Leaves(calls[c], i)
      BY <2>1, <3>2 DEF Leaves
    <3>5. UNCHANGED <<durable, rows, cache, complete, dedupe>> /\ dedupe' \in [Keys -> Ids \cup {None}]
      BY <2>1, CallFacts DEF redis
    <3>6. /\ made' \in 0 .. MaxCalls /\ faults' \in 0 .. MaxFaults /\ overlapped' \in BOOLEAN
          /\ faults' = faults /\ overlapped' = overlapped
      BY <2>1, GoesOn
    <3>. QED BY <2>1, <3>1, <3>2, <3>3, <3>4, <3>5, <3>6, AsideStep
  <2>3. CASE ~(k # None /\ dedupe[k] # None)
    <3>1. Put(c, calls[c].id, Fresh(k)) /\ Fresh(k) \in Row /\ rows' \in Table
      BY <1>9, <2>1, <2>3, RowFacts, CallFacts DEF FindByKey, Table
    <3>. QED BY <1>6, <2>1, <3>1
  <2>. QED BY <2>2, <2>3
<1>10. ASSUME NEW c \in Clients, ReadRow(c) PROVE ScheduleInv'
  <2>. DEFINE o == calls[c]
              i == IF o.op = "create" THEN o.owner ELSE o.id
  <2>1. /\ o.op \in {"create", "patch"} /\ o.pc = "read" /\ UNCHANGED <<durable, rows, redis, history>>
        /\ ~durable /\ o \in Call /\ o.id \in Ids /\ i \in Ids /\ c \in Busy
    BY <1>10, CallFacts, BusyFacts DEF ReadRow, CallInv, CallOK
  <2>2. o.patch \in Patch /\ o.patch.key \in Keys \cup {None} /\ rows' \in Table
    BY <2>1, CallFacts DEF Call, Patch, Table
  <2>3. \/ i \in Present(cache) /\ Put(c, i, Patched(cache[i], o.patch))
        \/ Put(c, o.id, Fresh(o.patch.key))
        \/ Done(c)
    BY <1>10 DEF ReadRow
  <2>. HIDE DEF i
  <2>4. CASE i \in Present(cache) /\ Put(c, i, Patched(cache[i], o.patch))
    <3>1. Patched(cache[i], o.patch) \in Row
      BY <2>2, <2>4, CallFacts, RowFacts
    <3>. QED BY <1>6, <2>1, <2>2, <2>4, <3>1
  <2>5. CASE Put(c, o.id, Fresh(o.patch.key))
    BY <1>6, <2>1, <2>2, <2>5, RowFacts
  <2>6. CASE Done(c)
    BY <1>5, <2>1, <2>6 DEF Leaves
  <2>. QED BY <2>3, <2>4, <2>5, <2>6
<1>11. ASSUME NEW c \in Clients, StoreRetrieve(c) PROVE ScheduleInv'
  <2>. DEFINE i == calls[c].id
  <2>1. /\ calls[c].op = "retrieve" /\ calls[c].pc = "store" /\ UNCHANGED <<durable, rows, redis, history>>
        /\ i \in Ids /\ c \in Busy
    BY <1>11, BusyFacts DEF StoreRetrieve, At, CallInv, CallOK
  <2>2. CASE i \in Present(rows)
    <3>1. Put(c, i, rows[i]) /\ rows[i] \in Row /\ rows' \in Table /\ rows' = [rows EXCEPT ![i] = rows[i]]
      BY <1>11, <2>1, <2>2, CallFacts DEF StoreRetrieve, Table
    <3>. QED BY <1>6, <2>1, <3>1
  <2>3. CASE i \notin Present(rows)
    BY <1>5, <1>11, <2>1, <2>3 DEF StoreRetrieve, Leaves
  <2>. QED BY <2>2, <2>3
<1>12. ASSUME NEW c \in Clients, ReadKey(c) \/ Unkey(c) PROVE ScheduleInv'
  <2>1. /\ calls[c].op = "delete" /\ calls[c].pc \in {"read", "unkey"} /\ c \in Busy /\ calls[c] \in Call
        /\ UNCHANGED <<durable, rows, cache, complete, history>> /\ calls[c].id \in Ids /\ calls[c].keyed = {}
    BY <1>12, BusyFacts, CallFacts DEF ReadKey, Unkey, At, redis, CallInv, CallOK
  <2>2. PICK o \in Call : /\ calls' = [calls EXCEPT ![c] = o] /\ o.op = "delete" /\ o.id = calls[c].id /\ o.keyed = {}
                          /\ calls[c].pc = "read" => o.pc = "hdel"
                          /\ calls[c].pc = "unkey" => o.pc = "drop"
    <3>1. CASE ReadKey(c)
      <4>. DEFINE row == cache[calls[c].id]
                  k == IF row = None THEN None ELSE row.key
                  o == [calls[c] EXCEPT !.pc = "hdel", !.patch.key = k]
      <4>1. k \in Keys \cup {None}
        BY <2>1, CallFacts DEF Row
      <4>2. calls' = [calls EXCEPT ![c] = o] /\ calls[c].pc = "read"
        BY <3>1, CallFacts DEF ReadKey, At
      <4>. HIDE DEF k
      <4>3. o \in Call /\ o.op = "delete" /\ o.id = calls[c].id /\ o.keyed = {} /\ o.pc = "hdel"
        BY <2>1, <4>1 DEF Call, Patch
      <4>. QED BY <4>2, <4>3
    <3>2. CASE Unkey(c)
      <4>. DEFINE o == [calls[c] EXCEPT !.pc = "drop"]
      <4>1. calls' = [calls EXCEPT ![c] = o] /\ calls[c].pc = "unkey"
        BY <3>2, CallFacts DEF Unkey, Goto, At
      <4>2. o \in Call /\ o.op = "delete" /\ o.id = calls[c].id /\ o.keyed = {} /\ o.pc = "drop"
        BY <2>1 DEF Call
      <4>. QED BY <4>1, <4>2
    <3>. QED BY <1>12, <3>1, <3>2
  <2>3. dedupe' \in [Keys -> Ids \cup {None}]
    BY <1>12, CallFacts DEF ReadKey, Unkey, redis
  <2>4. CallOK(o)
    BY <2>1, <2>2 DEF CallOK
  <2>5. \A i : Leaves(o, i) <=> Leaves(calls[c], i)
    BY <2>1, <2>2 DEF Leaves
  <2>6. /\ made' \in 0 .. MaxCalls /\ faults' \in 0 .. MaxFaults /\ overlapped' \in BOOLEAN
        /\ faults' = faults /\ overlapped' = overlapped
    BY <2>1, GoesOn
  <2>. QED BY <2>1, <2>2, <2>3, <2>4, <2>5, <2>6, AsideStep
(* The steps after which something else is on its way.                      *)
<1>13. ASSUME NEW c \in Clients, NEW o \in Call, calls' = [calls EXCEPT ![c] = o], CallOK(o), c \in Busy,
              rows' \in Table, cache' \in Table, dedupe' \in [Keys -> Ids \cup {None}], complete' \in BOOLEAN,
              UNCHANGED <<durable, history>>, durable => (complete' => complete \/ Fills(calls[c])),
              durable => \A i \in Present(rows') :
                \/ i \in Present(cache') \/ Carries(o, i) \/ Leaves(o, i)
                \/ /\ i \in Present(rows) /\ i \notin Present(cache) /\ ~Carries(calls[c], i) /\ ~Leaves(calls[c], i)
                   /\ ~Fills(o) \/ Fills(calls[c]),
              durable /\ Alone(c) =>
                /\ \A i \in Present(cache') : cache'[i] = rows'[i] \/ Carries(o, i)
                /\ o.pc \in {"row", "fill"} => \A i \in Present(o.put) : o.put[i] = rows'[i]
                /\ \A i \in Ids : Leaves(o, i) => cache'[i] = None
       PROVE  ScheduleInv'
  <2>1. /\ durable' = durable /\ made' \in 0 .. MaxCalls /\ faults' \in 0 .. MaxFaults /\ overlapped' \in BOOLEAN
        /\ faults' = faults /\ overlapped' = overlapped
    BY <1>13, GoesOn
  <2>2. TypeOK' /\ CallInv'
    BY <1>13, <2>1, CallNext
  <2>3. CoverInv'
    <3>1. CASE durable
      BY <1>13, <2>1, <3>1, CoverStep
    <3>2. CASE ~durable
      BY <2>1, <3>2 DEF CoverInv
    <3>. QED BY <3>1, <3>2
  <2>4. SameInv'
    BY <1>13, <2>1, SameStep
  <2>. QED BY <2>2, <2>3, <2>4
<1>14. ASSUME NEW c \in Clients, StoreList(c) PROVE ScheduleInv'
  <2>1. /\ calls[c].op = "list" /\ calls[c].pc = "store" /\ UNCHANGED <<durable, rows, cache, dedupe, complete, history>>
        /\ c \in Busy /\ calls[c] \in Call /\ calls[c].keyed = {}
    BY <1>14, BusyFacts, CallFacts DEF StoreList, At, CallInv, CallOK, redis
  <2>2. PICK some \in SUBSET Present(rows) :
          /\ calls[c].full => some = Present(rows)
          /\ calls' = [calls EXCEPT ![c].pc = "fill",
                                    ![c].put = [i \in Ids |-> IF i \in some THEN rows[i] ELSE None]]
    <3>1. PICK some \in IF calls[c].full THEN {Present(rows)} ELSE SUBSET Present(rows) :
            calls' = [calls EXCEPT ![c].pc = "fill",
                                   ![c].put = [i \in Ids |-> IF i \in some THEN rows[i] ELSE None]]
      BY <1>14 DEF StoreList
    <3>2. some \in SUBSET Present(rows) /\ (calls[c].full => some = Present(rows))
      BY <3>1
    <3>. QED BY <3>1, <3>2
  <2>. DEFINE put == [i \in Ids |-> IF i \in some THEN rows[i] ELSE None]
              o == [calls[c] EXCEPT !.pc = "fill", !.put = put]
  <2>3. put \in Table /\ Present(put) = some
    BY CallFacts DEF Table, Present
  <2>4. o \in Call /\ o.op = "list" /\ o.pc = "fill" /\ o.put = put /\ o.keyed = {} /\ o.full = calls[c].full
    BY <2>1, <2>3 DEF Call
  <2>5. calls' = [calls EXCEPT ![c] = o]
    BY <2>2, CallFacts
  <2>6. \A i \in some : put[i] = rows[i]
    BY <2>3 DEF Present
  <2>. HIDE DEF put, o
  <2>7. CallOK(o)
    BY <2>4 DEF CallOK
  <2>8. (\A i : ~Leaves(o, i) /\ ~Leaves(calls[c], i) /\ ~Carries(calls[c], i)) /\ \A i \in some : Carries(o, i)
    BY <2>1, <2>3, <2>4 DEF Leaves, Carries
  <2>9. Fills(o) => some = Present(rows)
    BY <2>2, <2>4 DEF Fills
  <2>10. rows' \in Table /\ cache' \in Table /\ dedupe' \in [Keys -> Ids \cup {None}] /\ complete' \in BOOLEAN
    BY <2>1, CallFacts DEF Table
  <2>11. \A i \in Present(rows') :
           \/ i \in Present(cache') \/ Carries(o, i) \/ Leaves(o, i)
           \/ /\ i \in Present(rows) /\ i \notin Present(cache) /\ ~Carries(calls[c], i) /\ ~Leaves(calls[c], i)
              /\ ~Fills(o) \/ Fills(calls[c])
    BY <2>1, <2>8, <2>9
  <2>12. Alone(c) => /\ \A i \in Present(cache') : cache'[i] = rows'[i] \/ Carries(o, i)
                     /\ \A i \in Present(o.put) : o.put[i] = rows'[i]
                     /\ \A i \in Ids : Leaves(o, i) => cache'[i] = None
    BY <2>1, <2>3, <2>4, <2>6, <2>8 DEF Alone
  <2>. QED BY <1>13, <2>1, <2>4, <2>5, <2>7, <2>10, <2>11, <2>12
<1>15. ASSUME NEW c \in Clients, NEW i \in Ids, WriteRow(c, i) PROVE ScheduleInv'
  <2>. DEFINE o == [calls[c] EXCEPT !.keyed = @ \cup {i}]
  <2>1. /\ calls[c].pc \in {"row", "fill"} /\ i \in Present(calls[c].put) \ calls[c].keyed /\ calls[c] \in Call
        /\ cache' = [cache EXCEPT ![i] = calls[c].put[i]] /\ UNCHANGED <<durable, rows, dedupe, complete, history>>
        /\ c \in Busy /\ CallOK(calls[c])
    BY <1>15, BusyFacts, CallFacts DEF WriteRow, CallInv
  <2>2. calls[c].put \in [Ids -> Row \cup {None}] /\ calls[c].put[i] \in Row
    BY <2>1 DEF Call, Table, Present
  <2>3. /\ o \in Call /\ o.op = calls[c].op /\ o.pc = calls[c].pc /\ o.put = calls[c].put
        /\ o.keyed = calls[c].keyed \cup {i} /\ o.full = calls[c].full /\ o.id = calls[c].id
    BY <2>1 DEF Call
  <2>4. calls' = [calls EXCEPT ![c] = o]
    BY <1>15, CallFacts DEF WriteRow
  <2>. HIDE DEF o
  <2>5. CallOK(o)
    <3>1. o.op # "idle"
      BY <2>1, <2>3, IdleFacts DEF CallOK
    <3>. QED BY <2>1, <2>3, <3>1 DEF CallOK
  <2>6. cache'[i] = calls[c].put[i] /\ i \in Present(cache') /\ \A j \in Ids \ {i} : cache'[j] = cache[j]
    BY <2>1, <2>2, CallFacts, NoneAssumption DEF Present
  <2>7. \A j \in Present(cache) : j \in Present(cache')
    BY <2>6 DEF Present
  <2>8. \A j : (Leaves(o, j) <=> Leaves(calls[c], j)) /\ (Carries(calls[c], j) => Carries(o, j) \/ j = i)
    BY <2>1, <2>3 DEF Leaves, Carries
  <2>9. Fills(o) <=> Fills(calls[c])
    BY <2>3 DEF Fills
  <2>10. /\ rows' \in Table /\ cache' \in Table /\ dedupe' \in [Keys -> Ids \cup {None}] /\ complete' \in BOOLEAN
    BY <2>1, <2>2, CallFacts DEF Table
  <2>11. \A j \in Present(rows') :
           \/ j \in Present(cache') \/ Carries(o, j) \/ Leaves(o, j)
           \/ /\ j \in Present(rows) /\ j \notin Present(cache) /\ ~Carries(calls[c], j) /\ ~Leaves(calls[c], j)
              /\ ~Fills(o) \/ Fills(calls[c])
    BY <2>1, <2>6, <2>7, <2>8, <2>9
  <2>12. ASSUME Alone(c)
         PROVE  /\ \A j \in Present(cache') : cache'[j] = rows'[j] \/ Carries(o, j)
                /\ \A j \in Present(o.put) : o.put[j] = rows'[j]
                /\ \A j \in Ids : ~Leaves(o, j)
    <3>1. \A j \in Present(o.put) : o.put[j] = rows'[j]
      BY <2>1, <2>3, <2>12 DEF Alone
    <3>2. \A j \in Ids : ~Leaves(o, j)
      BY <2>1, <2>3 DEF Leaves
    <3>3. ASSUME NEW j \in Present(cache') PROVE cache'[j] = rows'[j] \/ Carries(o, j)
      <4>1. CASE j = i
        BY <2>1, <2>3, <2>6, <3>1, <4>1
      <4>2. CASE j # i
        <5>1. j \in Present(cache) /\ cache'[j] = cache[j]
          BY <2>6, <4>2 DEF Present
        <5>. QED BY <2>1, <2>8, <2>12, <4>2, <5>1 DEF Alone
      <4>. QED BY <4>1, <4>2
    <3>. QED BY <3>1, <3>2, <3>3
  <2>. QED BY <1>13, <2>1, <2>3, <2>4, <2>5, <2>9, <2>10, <2>11, <2>12
<1>16. ASSUME NEW c \in Clients, NEW i \in Ids, WriteKey(c, i) PROVE ScheduleInv'
  <2>. DEFINE k == calls[c].put[i].key
              left == [calls[c] EXCEPT !.put[i] = None, !.keyed = @ \ {i}]
              anew == [calls[c] EXCEPT !.again = FALSE, !.keyed = {}]
              o == IF calls[c].pc = "fill" THEN left ELSE IF calls[c].again THEN anew ELSE Idle
  <2>1. /\ calls[c].pc \in {"row", "fill"} /\ i \in calls[c].keyed /\ calls[c] \in Call
        /\ dedupe' = (IF k = None THEN dedupe ELSE [dedupe EXCEPT ![k] = i])
        /\ UNCHANGED <<durable, rows, cache, complete, history>> /\ calls' = [calls EXCEPT ![c] = o]
        /\ c \in Busy /\ CallOK(calls[c])
    BY <1>16, BusyFacts, CallFacts DEF WriteKey, CallInv
  <2>2. /\ calls[c].put \in [Ids -> Row \cup {None}] /\ calls[c].put[i] \in Row /\ k \in Keys \cup {None}
        /\ calls[c].op # "idle"
    BY <2>1, IdleFacts DEF Call, Table, Present, CallOK, Row
  <2>3. dedupe' \in [Keys -> Ids \cup {None}]
    BY <2>1, <2>2, CallFacts
  <2>4. /\ left \in Call /\ left.op = calls[c].op /\ left.pc = calls[c].pc /\ left.put = [calls[c].put EXCEPT ![i] = None]
        /\ left.keyed = calls[c].keyed \ {i} /\ left.full = calls[c].full /\ left.id = calls[c].id
    BY <2>1, <2>2 DEF Call, Table
  <2>5. /\ anew \in Call /\ anew.op = calls[c].op /\ anew.pc = calls[c].pc /\ anew.put = calls[c].put
        /\ anew.keyed = {} /\ anew.full = calls[c].full /\ anew.id = calls[c].id
    BY <2>1 DEF Call
  <2>6. left.put[i] = None /\ (\A j \in Ids \ {i} : left.put[j] = calls[c].put[j])
        /\ Present(left.put) = Present(calls[c].put) \ {i}
    BY <2>2, <2>4 DEF Present
  <2>. HIDE DEF left, anew
  <2>7. CallOK(left) /\ CallOK(anew)
    BY <2>1, <2>2, <2>4, <2>5, <2>6 DEF CallOK
  <2>8. o \in Call /\ CallOK(o) /\ o \in {left, anew, Idle} /\ (o.pc = "fill" <=> calls[c].pc = "fill")
        /\ (o = Idle => calls[c].pc = "row")
    BY <2>1, <2>4, <2>5, <2>7, RowFacts, IdleFacts
  <2>9. \A j : Carries(calls[c], j) => Carries(left, j) /\ Carries(anew, j)
    BY <2>1, <2>4, <2>5, <2>6 DEF Carries
  <2>10. o = Idle => \A j : ~Carries(calls[c], j)
    BY <2>1, <2>8 DEF Carries, CallOK
  <2>11. (\A j : ~Leaves(o, j) /\ ~Leaves(calls[c], j)) /\ (Fills(o) <=> Fills(calls[c]))
    BY <2>1, <2>4, <2>5, <2>8, IdleFacts DEF Leaves, Fills
  <2>12. /\ rows' \in Table /\ cache' \in Table /\ complete' \in BOOLEAN
    BY <2>1, CallFacts DEF Table
  <2>13. \A j : Carries(calls[c], j) => Carries(o, j)
    BY <2>8, <2>9, <2>10
  <2>14. o.pc \in {"row", "fill"} => \A j \in Present(o.put) : j \in Present(calls[c].put) /\ o.put[j] = calls[c].put[j]
    BY <2>2, <2>4, <2>5, <2>6, <2>8, IdleFacts DEF Present
  <2>. HIDE DEF o
  <2>15. \A j \in Present(rows') :
           \/ j \in Present(cache') \/ Carries(o, j) \/ Leaves(o, j)
           \/ /\ j \in Present(rows) /\ j \notin Present(cache) /\ ~Carries(calls[c], j) /\ ~Leaves(calls[c], j)
              /\ ~Fills(o) \/ Fills(calls[c])
    BY <2>1, <2>11, <2>13
  <2>16. Alone(c) => /\ \A j \in Present(cache') : cache'[j] = rows'[j] \/ Carries(o, j)
                     /\ o.pc \in {"row", "fill"} => \A j \in Present(o.put) : o.put[j] = rows'[j]
                     /\ \A j \in Ids : Leaves(o, j) => cache'[j] = None
    BY <2>1, <2>11, <2>13, <2>14 DEF Alone
  <2>. QED BY <1>13, <2>1, <2>3, <2>8, <2>12, <2>15, <2>16
<1>17. ASSUME NEW c \in Clients, Filled(c) PROVE ScheduleInv'
  <2>1. /\ calls[c].op = "list" /\ calls[c].pc = "fill" /\ calls[c].put = Nothing /\ c \in Busy
        /\ complete' = (complete \/ calls[c].full) /\ calls' = [calls EXCEPT ![c] = Idle]
        /\ UNCHANGED <<durable, rows, cache, dedupe, history>> /\ calls[c].full \in BOOLEAN
    BY <1>17, BusyFacts, CallFacts DEF Filled, At, Done, Call
  <2>2. (\A j : ~Leaves(calls[c], j) /\ ~Carries(calls[c], j)) /\ (calls[c].full => Fills(calls[c]))
    BY <2>1, RowFacts DEF Leaves, Carries, Fills
  <2>3. rows' \in Table /\ cache' \in Table /\ dedupe' \in [Keys -> Ids \cup {None}] /\ complete' \in BOOLEAN
    BY <2>1, CallFacts DEF Table
  <2>4. Alone(c) => \A j \in Present(cache') : cache'[j] = rows'[j]
    BY <2>1, <2>2 DEF Alone
  <2>5. \A j \in Present(rows') :
           \/ j \in Present(cache') \/ Carries(Idle, j) \/ Leaves(Idle, j)
           \/ /\ j \in Present(rows) /\ j \notin Present(cache) /\ ~Carries(calls[c], j) /\ ~Leaves(calls[c], j)
              /\ ~Fills(Idle) \/ Fills(calls[c])
    BY <2>1, <2>2, IdleFacts
  <2>. QED BY <1>13, <2>1, <2>2, <2>3, <2>4, <2>5, RowFacts, IdleFacts
<1>18. ASSUME NEW c \in Clients, Unhash(c) PROVE ScheduleInv'
  <2>. DEFINE i == calls[c].id
              o == [calls[c] EXCEPT !.pc = "unkey"]
  <2>1. /\ calls[c].op = "delete" /\ calls[c].pc = "hdel" /\ c \in Busy /\ i \in Ids /\ calls[c] \in Call
        /\ calls[c].keyed = {} /\ cache' = [cache EXCEPT ![i] = None] /\ calls' = [calls EXCEPT ![c] = o]
        /\ UNCHANGED <<durable, rows, dedupe, complete, history>>
    BY <1>18, BusyFacts, CallFacts DEF Unhash, At, Goto, CallInv, CallOK
  <2>2. o \in Call /\ o.op = "delete" /\ o.pc = "unkey" /\ o.id = i /\ o.keyed = {}
    BY <2>1 DEF Call
  <2>. HIDE DEF o
  <2>3. CallOK(o)
    BY <2>1, <2>2 DEF CallOK
  <2>4. /\ Leaves(o, i) /\ \A j : Leaves(o, j) => j = i
        /\ (\A j : ~Carries(o, j) /\ ~Carries(calls[c], j) /\ ~Leaves(calls[c], j)) /\ ~Fills(o)
    BY <2>1, <2>2 DEF Leaves, Carries, Fills
  <2>5. cache'[i] = None /\ \A j \in Ids \ {i} : cache'[j] = cache[j]
    BY <2>1, CallFacts
  <2>6. rows' \in Table /\ cache' \in Table /\ dedupe' \in [Keys -> Ids \cup {None}] /\ complete' \in BOOLEAN
    BY <2>1, CallFacts DEF Table
  <2>7. \A j \in Present(rows') :
           \/ j \in Present(cache') \/ Carries(o, j) \/ Leaves(o, j)
           \/ /\ j \in Present(rows) /\ j \notin Present(cache) /\ ~Carries(calls[c], j) /\ ~Leaves(calls[c], j)
              /\ ~Fills(o) \/ Fills(calls[c])
    BY <2>1, <2>4, <2>5 DEF Present
  <2>8. Alone(c) => /\ \A j \in Present(cache') : cache'[j] = rows'[j] \/ Carries(o, j)
                    /\ \A j \in Ids : Leaves(o, j) => cache'[j] = None
    BY <2>1, <2>4, <2>5 DEF Alone, Present
  <2>. QED BY <1>13, <2>1, <2>2, <2>3, <2>6, <2>7, <2>8
<1>19. ASSUME NEW c \in Clients, StoreDelete(c) PROVE ScheduleInv'
  <2>. DEFINE i == calls[c].id
  <2>1. /\ calls[c].op = "delete" /\ calls[c].pc = "drop" /\ c \in Busy /\ i \in Ids
        /\ rows' = [rows EXCEPT ![i] = None] /\ calls' = [calls EXCEPT ![c] = Idle]
        /\ UNCHANGED <<durable, cache, dedupe, complete, history>>
    BY <1>19, BusyFacts, CallFacts DEF StoreDelete, At, Done, redis, CallInv, CallOK
  <2>2. /\ Leaves(calls[c], i) /\ \A j : Leaves(calls[c], j) => j = i
        /\ \A j : ~Carries(calls[c], j)
    BY <2>1 DEF Leaves, Carries
  <2>3. rows'[i] = None /\ \A j \in Ids \ {i} : rows'[j] = rows[j]
    BY <2>1, CallFacts
  <2>4. rows' \in Table /\ cache' \in Table /\ dedupe' \in [Keys -> Ids \cup {None}] /\ complete' \in BOOLEAN
    BY <2>1, CallFacts DEF Table
  <2>5. \A j \in Present(rows') :
           \/ j \in Present(cache') \/ Carries(Idle, j) \/ Leaves(Idle, j)
           \/ /\ j \in Present(rows) /\ j \notin Present(cache) /\ ~Carries(calls[c], j) /\ ~Leaves(calls[c], j)
              /\ ~Fills(Idle) \/ Fills(calls[c])
    BY <2>1, <2>2, <2>3, IdleFacts DEF Present
  <2>6. Alone(c) => \A j \in Present(cache') : cache'[j] = rows'[j]
    BY <2>1, <2>2, <2>3 DEF Alone, Present
  <2>. QED BY <1>13, <2>1, <2>4, <2>5, <2>6, RowFacts, IdleFacts
<1>20. ASSUME NEW c \in Clients, Fault(c) PROVE ScheduleInv'
  <2>1. /\ calls' = [calls EXCEPT ![c] = Idle] /\ faults' = faults + 1 /\ faults < MaxFaults
        /\ UNCHANGED <<durable, rows, cache, dedupe, complete, overlapped, made>>
    BY <1>20 DEF Fault, Done, redis
  <2>2. faults' \in 0 .. MaxFaults /\ faults' # 0
    BY <2>1, CallFacts, CacheAssumption
  <2>3. /\ rows' \in Table /\ cache' \in Table /\ dedupe' \in [Keys -> Ids \cup {None}] /\ complete' \in BOOLEAN
        /\ made' \in 0 .. MaxCalls /\ overlapped' \in BOOLEAN
    BY <2>1, CallFacts DEF Table
  <2>4. TypeOK' /\ CallInv'
    BY <2>1, <2>2, <2>3, CallNext, RowFacts
  <2>. QED BY <2>2, <2>4 DEF CoverInv, SameInv
<1>. QED BY <1>1, <1>2, <1>3, <1>4, <1>7, <1>8, <1>9, <1>10, <1>11, <1>12, <1>14, <1>15, <1>16, <1>17, <1>18, <1>19, <1>20
         DEF ScheduleStep

LEMMA ScheduleInvCorrect == Spec => []ScheduleInv
<1>1. Init => ScheduleInv
  <2>. SUFFICES ASSUME Init PROVE ScheduleInv
    OBVIOUS
  <2>1. /\ durable \in BOOLEAN /\ rows \in [Ids -> {None} \cup {Fresh(k) : k \in Keys}] /\ cache = Nothing
        /\ dedupe = [k \in Keys |-> None] /\ complete = FALSE /\ calls = [c \in Clients |-> Idle]
        /\ overlapped = FALSE /\ made = 0 /\ faults = 0
    BY DEF Init, SchedulesInit
  <2>2. {None} \cup {Fresh(k) : k \in Keys} \subseteq Row \cup {None}
    BY RowFacts
  <2>3. rows \in Table /\ cache \in Table /\ calls \in [Clients -> Call]
    BY <2>1, <2>2, RowFacts DEF Table
  <2>4. TypeOK
    <3>1. dedupe \in [Keys -> Ids \cup {None}]
      BY <2>1
    <3>2. made \in 0 .. MaxCalls /\ faults \in 0 .. MaxFaults
      BY <2>1, CacheAssumption
    <3>3. {durable, complete, overlapped} \subseteq BOOLEAN
      BY <2>1
    <3>. QED BY <2>3, <3>1, <3>2, <3>3 DEF TypeOK
  <2>5. CallInv /\ Present(cache) = {} /\ \A c \in Clients : calls[c] = Idle
    BY <2>1, RowFacts DEF CallInv
  <2>6. CoverInv /\ SameInv
    BY <2>1, <2>5, IdleFacts DEF CoverInv, SameInv, Busy
  <2>. QED BY <2>4, <2>5, <2>6 DEF ScheduleInv
<1>2. ScheduleInv /\ [Next]_vars => ScheduleInv'
  <2>1. ASSUME ScheduleInv, UNCHANGED scheduleVars PROVE ScheduleInv'
    <3>1. UNCHANGED <<durable, rows, cache, dedupe, complete, calls, overlapped, made, faults>>
      BY <2>1 DEF scheduleVars
    <3>2. TypeOK' /\ CallInv'
      BY <2>1, <3>1 DEF ScheduleInv, TypeOK, CallInv, CallOK
    <3>3. CoverInv' /\ SameInv'
      BY <2>1, <3>1 DEF ScheduleInv, CoverInv, SameInv, Busy, Carries, Leaves, Fills
    <3>. QED BY <3>2, <3>3 DEF ScheduleInv
  <2>. QED BY <2>1, ScheduleNext, ScheduleSteps
<1>. QED BY <1>1, <1>2, PTL DEF Spec

(* However calls on schedules overlap: once they have returned and none was  *)
(* cut short, a cache that says it is complete misses no schedule of the     *)
(* durable store (redisScheduleStore).                                     *)
THEOREM NothingMissingCorrect == Spec => []NothingMissing
<1>1. ScheduleInv => NothingMissing
  <2>1. ScheduleInv /\ durable /\ Quiet /\ complete => Present(rows) \subseteq Present(cache)
    BY IdleFacts DEF ScheduleInv, Quiet, Busy, CoverInv
  <2>. QED BY <2>1 DEF NothingMissing, ScheduleInv
<1>. QED BY <1>1, ScheduleInvCorrect, PTL

(* While no two calls overlap, the cache cannot be told from the store.      *)
THEOREM CurrentCorrect == Spec => []Current
<1>1. ScheduleInv => Current
  <2>. SUFFICES ASSUME ScheduleInv, Quiet, ~overlapped, durable
                PROVE  (\A i \in Present(cache) : cache[i] = rows[i]) /\ (complete => cache = rows)
    BY DEF Current
  <2>1. \A c \in Clients : \A i : ~Carries(calls[c], i) /\ ~Leaves(calls[c], i)
    BY IdleFacts DEF Quiet, Busy
  <2>2. \A i \in Present(cache) : cache[i] = rows[i]
    BY <2>1 DEF Quiet, ScheduleInv, SameInv
  <2>3. ASSUME complete PROVE cache = rows
    <3>1. Present(rows) \subseteq Present(cache)
      BY <2>1, <2>3 DEF Quiet, ScheduleInv, CoverInv
    <3>2. \A i \in Ids : cache[i] = rows[i]
      BY <2>2, <3>1 DEF Present
    <3>3. cache \in [Ids -> Row \cup {None}] /\ rows \in [Ids -> Row \cup {None}]
      BY CallFacts DEF ScheduleInv
    <3>. QED BY <3>2, <3>3
  <2>. QED BY <2>2, <2>3
<1>. QED BY <1>1, ScheduleInvCorrect, PTL

-----------------------------------------------------------------------------
(* The runs.                                                               *)
Trimming(w, i) == Check(w, i) \/ PutRun(w, i) \/ CountRuns(w, i) \/ ListOldest(w, i) \/ Evict(w, i)
RunStep ==
  \/ \E w \in Writers, i \in Runs : Report(w, i) \/ Trimming(w, i)
  \/ \E w \in Writers : Upsert(w) \/ ListRuns(w) \/ BreakWrite(w)
  \/ \E s \in Sweepers : \/ SweepStarts(s) \/ Candidates(s) \/ ReadRows(s) \/ EvictOld(s) \/ TryLock(s)
                         \/ Prune(s) \/ BreakSweep(s)
  \/ Pass

LEMMA RunSteps == [Next]_vars => RunStep \/ UNCHANGED runVars
BY DEF Next, vars, Scheduling, Running, Ruling, RunStep, Trimming

(* A row of a run is of a run that was reported, and has not ended while the *)
(* run is still queued.                                                    *)
Grounded(row, i) == row # NoRun => truth[i] # NoRun /\ (truth[i].status = "queued" => row.status = "queued")

(* What an event still tells of a run: how it stands, or once more that it   *)
(* is queued, of a run that has ended.                                     *)
Tells(row, i) ==
  /\ row \in RunRow /\ truth[i] # NoRun
  /\ row = truth[i] \/ (row.status = "queued" /\ truth[i].status = "ended")

OriginInv ==
  /\ \A i \in Runs : Grounded(table[i], i) /\ Grounded(hash[i], i)
  /\ \A w \in Writers : \A i \in Runs : Grounded(puts[w][i].row, i)

(* A row on its way to the hash is one; only an enqueue is checked first.    *)
PutInv ==
  \A w \in Writers : \A i \in Runs :
    /\ puts[w][i].pc \in {"check", "put"} => puts[w][i].row \in RunRow
    /\ puts[w][i].pc = "check" => puts[w][i].row.status = "queued"

UpsertInv ==
  /\ \A w \in Writers : upserts[w] # NoUpsert => upserts[w].run \in Runs /\ Tells(upserts[w].row, upserts[w].run)
  /\ \A w, v \in Writers :
       upserts[w] # NoUpsert /\ upserts[v] # NoUpsert /\ upserts[w].run = upserts[v].run => w = v

(* The durable store knows how each run stands, or the one event that says   *)
(* so is on its way.                                                       *)
TableInv ==
  backed => \A i \in Kept(truth) \ lost :
    \/ table[i] = truth[i] \/ Forgotten(table, i)
    \/ \E w \in Writers : upserts[w] # NoUpsert /\ upserts[w].run = i /\ upserts[w].row = truth[i]

(* No window begins later than now; and no row is later than its run was     *)
(* last touched, where that is counted.                                    *)
TimeInv ==
  /\ \A s \in Sweepers : sweeps[s].cutoff <= clock
  /\ \A i \in Runs : touched[i] <= clock
  /\ ~backed => \A i \in Runs :
       /\ hash[i] # NoRun => hash[i].at <= touched[i]
       /\ \A w \in Writers : puts[w][i].row # NoRun => puts[w][i].row.at <= touched[i]

(* A hash with too many rows is being trimmed, by a writer that has not      *)
(* counted yet or is about to take out enough.                             *)
TrimInv ==
  broken = 0 /\ Cardinality(Kept(hash)) > MaxCached => \E w \in Writers : \E i \in Runs :
    \/ puts[w][i].pc = "count"
    \/ puts[w][i].pc = "range" /\ MaxCached + puts[w][i].excess >= Cardinality(Kept(hash))
    \/ puts[w][i].pc = "evict" /\ Cardinality(Kept(hash) \ puts[w][i].ids) <= MaxCached

(* While nothing overlaps there is one write of one run, or one sweep.       *)
Apart == ~backed /\ ~mixed /\ broken = 0
ApartInv ==
  Apart =>
    /\ \A w, v \in Writers : \A i, j \in Runs : puts[w][i] # NoWrite /\ puts[v][j] # NoWrite => w = v /\ i = j
    /\ \A s, t \in Sweeping : s = t
    /\ Writing = {} \/ Sweeping = {}
    /\ \A w \in Writers : upserts[w] = NoUpsert

Later(i) == {j \in Kept(truth) \ {i} : touched[j] >= truth[i].at}
Crowded(i) == (i \in Kept(hash) => hash[i].status = "queued") /\ Cardinality(Later(i)) >= MaxCached

(* What the hash then knows, and what the steps of the one call rely on.     *)
TellsOn ==
  \A i \in Kept(truth) :
    \/ hash[i] = truth[i] \/ Forgotten(hash, i) \/ Crowded(i)
    \/ \E w \in Writers : puts[w][i].pc \in {"check", "put"} /\ puts[w][i].row = truth[i]
WritesOn ==
  \A w \in Writers : \A i \in Runs :
    /\ puts[w][i].pc \in {"check", "put"} => Tells(puts[w][i].row, i)
    /\ puts[w][i].pc = "put" /\ puts[w][i].row.status = "queued" /\ i \in Kept(hash) => hash[i].status # "ended"
    /\ puts[w][i].pc = "range" => MaxCached + puts[w][i].excess = Cardinality(Kept(hash))
    /\ puts[w][i].pc = "evict" =>
         /\ puts[w][i].ids \subseteq Kept(hash) /\ Cardinality(Kept(hash) \ puts[w][i].ids) = MaxCached
         /\ \A k \in puts[w][i].ids : \A j \in Kept(hash) \ puts[w][i].ids : hash[k].at <= hash[j].at
SweepsOn ==
  \A s \in Sweepers : sweeps[s].pc = "evict" =>
    \A i \in sweeps[s].ids \cap Kept(hash) : ShouldPrune(hash[i], sweeps[s].cutoff)
HashInv == Apart => TellsOn /\ WritesOn /\ SweepsOn

LEMMA RunFacts ==
  ASSUME RunTypeOK
  PROVE  /\ backed \in BOOLEAN /\ mixed \in BOOLEAN /\ clock \in 0 .. MaxTime /\ MaxTime \in Nat
         /\ table \in [Runs -> RunRow \cup {NoRun}] /\ hash \in [Runs -> RunRow \cup {NoRun}]
         /\ truth \in [Runs -> RunRow \cup {NoRun}] /\ touched \in [Runs -> 0 .. MaxTime]
         /\ puts \in [Writers -> [Runs -> Write]] /\ sweeps \in [Sweepers -> Sweep] /\ lock \subseteq Sweepers
         /\ upserts \in [Writers -> [run : Runs \cup {NoRun}, row : RunRow \cup {NoRun}]]
         /\ lost \subseteq Runs /\ writes \in 0 .. MaxWrites /\ broken \in 0 .. MaxBroken
         /\ \A w \in Writers : \A i \in Runs : puts[w][i] \in Write
         /\ \A s \in Sweepers : sweeps[s] \in Sweep /\ sweeps[s].cutoff \in 0 .. MaxTime /\ sweeps[s].ids \subseteq Runs
         /\ \A row \in RunRow : row.at \in 0 .. MaxTime /\ row.status \in {"queued", "executing", "ended"}
         /\ NoWrite \in Write /\ NoWrite.pc = "none" /\ NoWrite.row = NoRun
         /\ NoSweep \in Sweep /\ NoSweep.pc = "none"
         /\ \A row \in RunRow : row # NoRun
         /\ MaxCached \in Nat /\ MaxBroken \in Nat /\ MaxWrites \in Nat
<1>1. /\ backed \in BOOLEAN /\ mixed \in BOOLEAN /\ clock \in 0 .. MaxTime
      /\ table \in [Runs -> RunRow \cup {NoRun}] /\ hash \in [Runs -> RunRow \cup {NoRun}]
      /\ truth \in [Runs -> RunRow \cup {NoRun}] /\ touched \in [Runs -> 0 .. MaxTime]
      /\ puts \in [Writers -> [Runs -> Write]] /\ sweeps \in [Sweepers -> Sweep] /\ lock \subseteq Sweepers
      /\ upserts \in [Writers -> [run : Runs \cup {NoRun}, row : RunRow \cup {NoRun}]]
      /\ lost \subseteq Runs /\ writes \in 0 .. MaxWrites /\ broken \in 0 .. MaxBroken
  BY DEF RunTypeOK
<1>2. MaxTime \in Nat /\ MaxBroken \in Nat /\ MaxWrites \in Nat /\ MaxCached \in Nat /\ 0 \in 0 .. MaxTime
  BY RunCacheAssumption
<1>3. NoWrite \in Write /\ NoWrite.pc = "none" /\ NoWrite.row = NoRun /\ NoSweep \in Sweep /\ NoSweep.pc = "none"
  BY <1>2 DEF NoWrite, Write, NoSweep, Sweep
<1>4. \A s \in Sweepers : sweeps[s] \in Sweep /\ sweeps[s].cutoff \in 0 .. MaxTime /\ sweeps[s].ids \subseteq Runs
  BY <1>1 DEF Sweep
<1>5. \A row \in RunRow : row.at \in 0 .. MaxTime /\ row.status \in {"queued", "executing", "ended"}
  BY DEF RunRow
<1>. QED BY <1>1, <1>2, <1>3, <1>4, <1>5, NoRunAssumption

(* A write of a run goes on and leaves the others alone.                    *)
LEMMA PutsFacts ==
  ASSUME RunTypeOK, NEW w \in Writers, NEW i \in Runs, NEW to \in Write, puts' = [puts EXCEPT ![w][i] = to]
  PROVE  /\ puts' \in [Writers -> [Runs -> Write]] /\ puts'[w][i] = to
         /\ \A v \in Writers : \A j \in Runs : v # w \/ j # i => puts'[v][j] = puts[v][j]
BY RunFacts

LEMMA KeptFacts ==
  /\ \A kept : Kept(kept) \subseteq Runs /\ IsFiniteSet(Kept(kept)) /\ Cardinality(Kept(kept)) \in Nat
  /\ \A kept, ids : /\ Without(kept, ids) = [i \in Runs |-> IF i \in ids THEN NoRun ELSE kept[i]]
                    /\ Kept(Without(kept, ids)) = Kept(kept) \ ids
<1>1. \A kept : Kept(kept) \subseteq Runs
  BY DEF Kept
<1>2. \A kept, ids : Kept(Without(kept, ids)) = Kept(kept) \ ids
  BY DEF Kept, Without
<1>3. \A kept : IsFiniteSet(Kept(kept)) /\ Cardinality(Kept(kept)) \in Nat
  BY <1>1, FS_Subset, FS_CardinalityType, RunCacheAssumption
<1>. QED BY <1>1, <1>2, <1>3 DEF Without

(* What the steps of a write do.                                           *)
LEMMA TrimmingFacts ==
  ASSUME RunTypeOK, NEW w \in Writers, NEW i \in Runs, Trimming(w, i)
  PROVE  \E to \in Write :
           /\ puts' = [puts EXCEPT ![w][i] = to] /\ puts[w][i].pc \in {"check", "put", "count", "range", "evict"}
           /\ UNCHANGED <<backed, table, upserts, sweeps, lock, clock, truth, touched, lost, mixed, writes, broken>>
           /\ \/ puts[w][i].pc = "check" /\ to = NoWrite /\ hash' = hash /\ i \in Kept(hash) /\ hash[i].status = "ended"
              \/ /\ puts[w][i].pc = "check" /\ hash' = hash /\ ~(i \in Kept(hash) /\ hash[i].status = "ended")
                 /\ to.pc = "put" /\ to.row = puts[w][i].row
              \/ /\ puts[w][i].pc = "put" /\ hash' = [hash EXCEPT ![i] = puts[w][i].row]
                 /\ to.pc = "count" /\ to.row = NoRun
              \/ puts[w][i].pc = "count" /\ hash' = hash /\ to = NoWrite /\ Cardinality(Kept(hash)) <= MaxCached
              \/ /\ puts[w][i].pc = "count" /\ hash' = hash /\ Cardinality(Kept(hash)) > MaxCached
                 /\ to.pc = "range" /\ to.row = puts[w][i].row /\ to.excess = Cardinality(Kept(hash)) - MaxCached
              \/ /\ puts[w][i].pc = "range" /\ hash' = hash /\ to.pc = "evict" /\ to.row = NoRun
                 /\ to.ids \in Oldest(puts[w][i].excess)
              \/ puts[w][i].pc = "evict" /\ hash' = Without(hash, puts[w][i].ids) /\ to = NoWrite
<1>. DEFINE o == puts[w][i]
            Still == UNCHANGED <<backed, table, upserts, sweeps, lock, clock, truth, touched, lost, mixed, writes, broken>>
<1>0. /\ o \in Write /\ Cardinality(Kept(hash)) \in Nat /\ MaxCached \in Nat
      /\ Elsewhere => Still
  BY RunFacts, KeptFacts DEF Elsewhere, durableRuns, past
<1>1. CASE Check(w, i)
  <2>. DEFINE on == [o EXCEPT !.pc = "put"]
  <2>1. on \in Write /\ on.pc = "put" /\ on.row = o.row
    BY <1>0 DEF Write
  <2>2. o.pc = "check" /\ hash' = hash /\ Still
    BY <1>0, <1>1 DEF Check, Puts
  <2>3. CASE i \in Kept(hash) /\ hash[i].status = "ended"
    BY <1>1, <2>2, <2>3, RunFacts DEF Check, Puts
  <2>4. CASE ~(i \in Kept(hash) /\ hash[i].status = "ended")
    <3>1. puts' = [puts EXCEPT ![w][i] = on]
      BY <1>1, <2>4 DEF Check, Puts
    <3>. HIDE DEF on
    <3>. QED BY <2>1, <2>2, <2>4, <3>1
  <2>. QED BY <2>3, <2>4
<1>2. CASE PutRun(w, i)
  <2>. DEFINE on == [o EXCEPT !.pc = "count", !.row = NoRun]
  <2>1. on \in Write /\ on.pc = "count" /\ on.row = NoRun
    BY <1>0 DEF Write
  <2>2. o.pc = "put" /\ hash' = [hash EXCEPT ![i] = o.row] /\ Still /\ puts' = [puts EXCEPT ![w][i] = on]
    BY <1>0, <1>2 DEF PutRun, Puts
  <2>. HIDE DEF on
  <2>. QED BY <2>1, <2>2
<1>3. CASE CountRuns(w, i)
  <2>. DEFINE size == Cardinality(Kept(hash))
              on == [o EXCEPT !.pc = "range", !.excess = size - MaxCached]
  <2>1. o.pc = "count" /\ hash' = hash /\ Still
    BY <1>0, <1>3 DEF CountRuns, Puts
  <2>2. CASE size <= MaxCached
    BY <1>3, <2>1, <2>2, RunFacts DEF CountRuns, Puts
  <2>3. CASE ~(size <= MaxCached)
    <3>1. size - MaxCached \in Nat /\ size > MaxCached
      BY <1>0, <2>3
    <3>2. puts' = [puts EXCEPT ![w][i] = on]
      BY <1>3, <2>3 DEF CountRuns, Puts
    <3>3. on \in Write /\ on.pc = "range" /\ on.row = o.row /\ on.excess = size - MaxCached
      BY <1>0, <3>1 DEF Write
    <3>. HIDE DEF on
    <3>. QED BY <2>1, <3>1, <3>2, <3>3
  <2>. QED BY <2>2, <2>3
<1>4. CASE ListOldest(w, i)
  <2>1. PICK ids \in Oldest(o.excess) : Puts(w, i, "range", [NoWrite EXCEPT !.pc = "evict", !.ids = ids])
    BY <1>4 DEF ListOldest
  <2>. DEFINE on == [NoWrite EXCEPT !.pc = "evict", !.ids = ids]
  <2>2. o.pc = "range" /\ hash' = hash /\ Still /\ puts' = [puts EXCEPT ![w][i] = on]
    BY <1>0, <1>4, <2>1 DEF ListOldest, Puts
  <2>3. ids \subseteq Runs
    BY KeptFacts DEF Oldest
  <2>4. on \in Write /\ on.pc = "evict" /\ on.row = NoRun /\ on.ids = ids
    BY <2>3, RunFacts DEF NoWrite, Write
  <2>. HIDE DEF on
  <2>. QED BY <2>1, <2>2, <2>4
<1>5. CASE Evict(w, i)
  BY <1>0, <1>5, RunFacts DEF Evict, Puts
<1>. QED BY <1>1, <1>2, <1>3, <1>4, <1>5 DEF Trimming

(* What a report does: a new row of a run that nothing else tells of, or     *)
(* once more that it is queued.                                            *)
LEMMA ReportFacts ==
  ASSUME RunTypeOK, NEW w \in Writers, NEW i \in Runs, Report(w, i)
  PROVE  \E row \in RunRow : \E to \in Write :
           /\ row.at = clock /\ to.row = row /\ to.pc \in {"check", "put"}
           /\ (row.status = "queued" <=> to.pc = "check")
           /\ \/ /\ truth' = [truth EXCEPT ![i] = row] /\ (row.status = "queued" => truth[i] = NoRun)
              \/ truth' = truth /\ row.status = "queued" /\ truth[i] # NoRun /\ truth[i].status = "ended"
           /\ touched' = [touched EXCEPT ![i] = IF backed THEN 0 ELSE clock]
           /\ puts' = [puts EXCEPT ![w][i] = to]
           /\ upserts' = IF backed THEN [upserts EXCEPT ![w] = [run |-> i, row |-> row]] ELSE upserts
           /\ UNCHANGED <<backed, table, hash, sweeps, lock, lost, broken, clock>>
           /\ mixed' = (mixed \/ (~backed /\ Writing \cup Sweeping # {}))
           /\ writes' \in 0 .. MaxWrites /\ i \notin Reported /\ w \notin Writing
<1>. PICK status \in {"queued", "executing", "ended"} :
       LET row == [status |-> status, at |-> clock]
           again == status = "queued" /\ truth[i] # NoRun /\ truth[i].status = "ended"
       IN  /\ Follows(status, i) \/ again
           /\ truth' = [truth EXCEPT ![i] = IF again THEN @ ELSE row]
           /\ touched' = [touched EXCEPT ![i] = IF backed THEN 0 ELSE clock]
           /\ puts' = [puts EXCEPT ![w][i] =
                [NoWrite EXCEPT !.pc = IF status = "queued" THEN "check" ELSE "put", !.row = row]]
           /\ upserts' = [upserts EXCEPT ![w] = IF backed THEN [run |-> i, row |-> row] ELSE @]
  BY DEF Report
<1>. DEFINE row == [status |-> status, at |-> clock]
            to == [NoWrite EXCEPT !.pc = IF status = "queued" THEN "check" ELSE "put", !.row = row]
<1>1. row \in RunRow /\ row.at = clock /\ row.status = status
  BY RunFacts DEF RunRow
<1>2. to \in Write /\ to.row = row /\ to.pc = IF status = "queued" THEN "check" ELSE "put"
  BY <1>1 DEF NoWrite, Write
<1>3. \/ truth' = [truth EXCEPT ![i] = row] /\ (status = "queued" => truth[i] = NoRun)
      \/ truth' = truth /\ status = "queued" /\ truth[i] # NoRun /\ truth[i].status = "ended"
  BY RunFacts DEF Follows
<1>4. upserts' = IF backed THEN [upserts EXCEPT ![w] = [run |-> i, row |-> row]] ELSE upserts
  BY RunFacts
<1>5. /\ UNCHANGED <<backed, table, hash, sweeps, lock, lost, broken, clock>> /\ i \notin Reported /\ w \notin Writing
      /\ mixed' = (mixed \/ (~backed /\ Writing \cup Sweeping # {}))
      /\ writes + broken < MaxWrites /\ writes' = writes + 1
  BY DEF Report, Starts
<1>6. writes' \in 0 .. MaxWrites
  BY <1>5, RunFacts
<1>7. to.pc \in {"check", "put"} /\ (row.status = "queued" <=> to.pc = "check")
  BY <1>1, <1>2
<1>8. /\ touched' = [touched EXCEPT ![i] = IF backed THEN 0 ELSE clock] /\ puts' = [puts EXCEPT ![w][i] = to]
      /\ \/ truth' = [truth EXCEPT ![i] = row] /\ (row.status = "queued" => truth[i] = NoRun)
         \/ truth' = truth /\ row.status = "queued" /\ truth[i] # NoRun /\ truth[i].status = "ended"
  BY <1>1, <1>3
<1>. HIDE DEF row, to
<1>. QED BY <1>1, <1>2, <1>4, <1>5, <1>6, <1>7, <1>8

LEMMA ListFacts ==
  ASSUME RunTypeOK, NEW w \in Writers, ListRuns(w)
  PROVE  \E put \in [Runs -> Write] :
           /\ puts' = [puts EXCEPT ![w] = put] /\ w \notin Writing /\ backed
           /\ \A i \in Runs :
                put[i] = NoWrite \/ (put[i].pc = "put" /\ put[i].row = table[i] /\ i \in Kept(table))
           /\ UNCHANGED <<backed, table, hash, upserts, sweeps, lock, truth, touched, lost, broken, clock, mixed>>
           /\ writes' \in 0 .. MaxWrites
<1>0. PICK some \in SUBSET Kept(table) \ {{}} :
       puts' = [puts EXCEPT ![w] = [i \in Runs |->
                  IF i \in some THEN [NoWrite EXCEPT !.pc = "put", !.row = table[i]] ELSE NoWrite]]
  BY DEF ListRuns
<1>. DEFINE put == [i \in Runs |-> IF i \in some THEN [NoWrite EXCEPT !.pc = "put", !.row = table[i]] ELSE NoWrite]
<1>1. ASSUME NEW i \in Runs
      PROVE  /\ [NoWrite EXCEPT !.pc = "put", !.row = table[i]] \in Write
             /\ [NoWrite EXCEPT !.pc = "put", !.row = table[i]].pc = "put"
             /\ [NoWrite EXCEPT !.pc = "put", !.row = table[i]].row = table[i]
  BY RunFacts DEF NoWrite, Write
<1>2. /\ put \in [Runs -> Write]
      /\ \A i \in Runs : put[i] = NoWrite \/ (put[i].pc = "put" /\ put[i].row = table[i] /\ i \in Kept(table))
  BY <1>1, RunFacts
<1>3. /\ UNCHANGED <<backed, table, hash, upserts, sweeps, lock, truth, touched, lost, broken, clock>>
      /\ w \notin Writing /\ backed /\ mixed' = (mixed \/ (~backed /\ Writing \cup Sweeping # {}))
      /\ writes + broken < MaxWrites /\ writes' = writes + 1 /\ puts' = [puts EXCEPT ![w] = put]
  BY <1>0 DEF ListRuns, Starts
<1>4. writes' \in 0 .. MaxWrites
  <2>1. writes + broken < MaxWrites /\ writes' = writes + 1
    BY <1>3
  <2>2. writes \in 0 .. MaxWrites /\ broken \in 0 .. MaxBroken /\ MaxWrites \in Nat /\ MaxBroken \in Nat
    BY RunFacts
  <2>. QED BY <2>1, <2>2
<1>5. mixed' = mixed
  BY <1>3, RunFacts
<1>. HIDE DEF put
<1>. QED BY <1>2, <1>3, <1>4, <1>5

(* What the steps of a sweep do.                                           *)
SweepStep(s) == \/ SweepStarts(s) \/ Candidates(s) \/ ReadRows(s) \/ EvictOld(s) \/ TryLock(s) \/ Prune(s) \/ BreakSweep(s)

LEMMA SweepFacts ==
  ASSUME RunTypeOK, NEW s \in Sweepers, SweepStep(s)
  PROVE  \E to \in Sweep :
           /\ sweeps' = [sweeps EXCEPT ![s] = to] /\ lock' \subseteq Sweepers
           /\ UNCHANGED <<backed, puts, upserts, clock, truth, touched, lost, writes, broken>>
           /\ to.cutoff \in {0, sweeps[s].cutoff, clock}
           /\ \/ mixed' = mixed /\ sweeps[s].pc # "none"
              \/ mixed' = (mixed \/ (~backed /\ Writing \cup Sweeping # {})) /\ to.pc # "evict" /\ hash' = hash
           /\ \/ UNCHANGED hash
              \/ sweeps[s].pc = "evict" /\ hash' = Without(hash, sweeps[s].ids) /\ to.pc # "evict"
           /\ \/ UNCHANGED table
              \/ \E ids : table' = Without(table, ids) /\ \A i \in ids : i \in Kept(table) /\ ShouldPrune(table[i], sweeps[s].cutoff)
           /\ to.pc = "evict" =>
                /\ to.cutoff = sweeps[s].cutoff /\ hash' = hash
                /\ \A i \in to.ids \cap Kept(hash) : ShouldPrune(hash[i], sweeps[s].cutoff)
<1>. DEFINE o == sweeps[s]
            Still == UNCHANGED <<backed, puts, upserts, clock, truth, touched, lost, writes, broken>>
<1>0. /\ o \in Sweep /\ ThenDurable(s) \in Sweep /\ ThenDurable(s).pc \in {"lock", "none"}
      /\ ThenDurable(s).cutoff \in {0, o.cutoff} /\ NoSweep \in Sweep /\ NoSweep.pc = "none" /\ NoSweep.cutoff = 0
      /\ lock \subseteq Sweepers
  BY RunFacts DEF ThenDurable, NoSweep, Sweep
<1>1. CASE SweepStarts(s)
  <2>. DEFINE on == [NoSweep EXCEPT !.pc = "range", !.cutoff = clock]
  <2>1. on \in Sweep /\ on.pc = "range" /\ on.cutoff = clock
    BY RunFacts DEF NoSweep, Sweep
  <2>2. /\ sweeps' = [sweeps EXCEPT ![s] = on] /\ mixed' = (mixed \/ (~backed /\ Writing \cup Sweeping # {}))
        /\ Still /\ UNCHANGED <<table, hash, lock>>
    BY <1>1 DEF SweepStarts, Sweeps, Starts
  <2>. HIDE DEF on
  <2>. QED BY <1>0, <2>1, <2>2
<1>2. CASE Candidates(s)
  <2>. DEFINE ids == {i \in Kept(hash) : hash[i].at <= o.cutoff}
              on == [o EXCEPT !.pc = "rows", !.ids = ids]
  <2>1. ids \subseteq Runs
    BY KeptFacts
  <2>2. on \in Sweep /\ on.pc = "rows" /\ on.cutoff = o.cutoff
    BY <1>0, <2>1 DEF Sweep
  <2>3. /\ o.pc = "range" /\ Still /\ UNCHANGED <<table, hash, lock, mixed>>
        /\ sweeps' = [sweeps EXCEPT ![s] = ThenDurable(s)] \/ sweeps' = [sweeps EXCEPT ![s] = on]
    BY <1>2 DEF Candidates, Sweeps, redisRuns, durableRuns, past
  <2>. HIDE DEF on
  <2>. QED BY <1>0, <2>2, <2>3
<1>3. CASE ReadRows(s)
  <2>. DEFINE doomed == {i \in o.ids : i \in Kept(hash) => ShouldPrune(hash[i], o.cutoff)}
              on == [o EXCEPT !.pc = "evict", !.ids = doomed]
  <2>1. on \in Sweep /\ on.pc = "evict" /\ on.cutoff = o.cutoff /\ on.ids = doomed
    BY <1>0 DEF Sweep
  <2>2. /\ o.pc = "rows" /\ Still /\ UNCHANGED <<table, hash, lock, mixed>>
        /\ sweeps' = [sweeps EXCEPT ![s] = ThenDurable(s)] \/ sweeps' = [sweeps EXCEPT ![s] = on]
    BY <1>3 DEF ReadRows, Sweeps, redisRuns, durableRuns, past
  <2>3. \A i \in doomed \cap Kept(hash) : ShouldPrune(hash[i], o.cutoff)
    OBVIOUS
  <2>. HIDE DEF on, doomed
  <2>. QED BY <1>0, <2>1, <2>2, <2>3
<1>4. CASE EvictOld(s)
  <2>1. /\ o.pc = "evict" /\ Still /\ UNCHANGED <<table, lock, mixed>> /\ hash' = Without(hash, o.ids)
        /\ sweeps' = [sweeps EXCEPT ![s] = ThenDurable(s)]
    BY <1>4 DEF EvictOld, Sweeps, redisRuns, durableRuns, past
  <2>. QED BY <1>0, <2>1
<1>5. CASE TryLock(s)
  <2>. DEFINE on == [o EXCEPT !.pc = "delete"]
  <2>1. on \in Sweep /\ on.pc = "delete" /\ on.cutoff = o.cutoff
    BY <1>0 DEF Sweep
  <2>2. /\ o.pc = "lock" /\ Still /\ UNCHANGED <<table, hash, mixed>> /\ lock' \subseteq Sweepers
        /\ sweeps' = [sweeps EXCEPT ![s] = NoSweep] \/ sweeps' = [sweeps EXCEPT ![s] = on]
    BY <1>0, <1>5 DEF TryLock, Sweeps, redisRuns, durableRuns, past
  <2>. HIDE DEF on
  <2>. QED BY <1>0, <2>1, <2>2
<1>6. CASE Prune(s)
  <2>1. /\ o.pc = "delete" /\ Still /\ UNCHANGED <<hash, mixed>> /\ lock' \subseteq Sweepers
        /\ sweeps' = [sweeps EXCEPT ![s] = NoSweep]
    BY <1>6 DEF Prune, Sweeps, redisRuns, past
  <2>2. \E ids : table' = Without(table, ids) /\ \A i \in ids : i \in Kept(table) /\ ShouldPrune(table[i], o.cutoff)
    BY <1>6 DEF Prune
  <2>. QED BY <1>0, <2>1, <2>2
<1>7. CASE BreakSweep(s)
  <2>1. /\ o.pc # "none" /\ Still /\ UNCHANGED <<table, hash, mixed>> /\ lock' \subseteq Sweepers
        /\ sweeps' = [sweeps EXCEPT ![s] = NoSweep]
    BY <1>0, <1>7 DEF BreakSweep, redisRuns, durableRuns, past
  <2>. QED BY <1>0, <2>1
<1>. QED BY <1>1, <1>2, <1>3, <1>4, <1>5, <1>6, <1>7 DEF SweepStep

RunInv == RunTypeOK /\ OriginInv /\ PutInv /\ UpsertInv /\ TableInv /\ TimeInv /\ TrimInv /\ ApartInv /\ HashInv

LEMMA UpsertFacts ==
  ASSUME RunTypeOK, UpsertInv, NEW w \in Writers, Upsert(w)
  PROVE  /\ upserts[w] # NoUpsert /\ upserts[w].run \in Runs /\ Tells(upserts[w].row, upserts[w].run)
         /\ \/ /\ table' = table /\ upserts[w].row.status = "queued" /\ upserts[w].run \in Kept(table)
               /\ table[upserts[w].run].status = "ended"
            \/ /\ table' = [table EXCEPT ![upserts[w].run] = upserts[w].row]
               /\ ~(/\ upserts[w].row.status = "queued" /\ upserts[w].run \in Kept(table)
                    /\ table[upserts[w].run].status = "ended")
         /\ upserts' = [upserts EXCEPT ![w] = NoUpsert] /\ upserts' \in [Writers -> [run : Runs \cup {NoRun}, row : RunRow \cup {NoRun}]]
         /\ UNCHANGED <<backed, hash, puts, sweeps, lock, clock, truth, touched, lost, mixed, writes, broken>>
<1>1. /\ upserts[w] # NoUpsert /\ upserts' = [upserts EXCEPT ![w] = NoUpsert]
      /\ UNCHANGED <<backed, hash, puts, sweeps, lock, clock, truth, touched, lost, mixed, writes, broken>>
  BY DEF Upsert, redisRuns, past
<1>2. upserts[w].run \in Runs /\ Tells(upserts[w].row, upserts[w].run)
  BY <1>1 DEF UpsertInv
<1>3. \/ /\ table' = table /\ upserts[w].row.status = "queued" /\ upserts[w].run \in Kept(table)
         /\ table[upserts[w].run].status = "ended"
      \/ /\ table' = [table EXCEPT ![upserts[w].run] = upserts[w].row]
         /\ ~(/\ upserts[w].row.status = "queued" /\ upserts[w].run \in Kept(table)
              /\ table[upserts[w].run].status = "ended")
  BY DEF Upsert
<1>4. upserts' \in [Writers -> [run : Runs \cup {NoRun}, row : RunRow \cup {NoRun}]]
  BY <1>1, RunFacts DEF NoUpsert
<1>. QED BY <1>1, <1>2, <1>3, <1>4

LEMMA BreakFacts ==
  ASSUME RunTypeOK, NEW w \in Writers, BreakWrite(w)
  PROVE  /\ broken' \in 0 .. MaxBroken /\ broken' # 0
         /\ puts' = [puts EXCEPT ![w] = [i \in Runs |-> NoWrite]] /\ puts' \in [Writers -> [Runs -> Write]]
         /\ \/ UNCHANGED <<upserts, lost>>
            \/ /\ upserts[w] # NoUpsert /\ upserts' = [upserts EXCEPT ![w] = NoUpsert]
               /\ lost' = lost \cup {upserts[w].run}
         /\ upserts' \in [Writers -> [run : Runs \cup {NoRun}, row : RunRow \cup {NoRun}]]
         /\ UNCHANGED <<backed, table, hash, sweeps, lock, clock, truth, touched, mixed, writes>>
<1>1. broken < MaxBroken /\ broken' = broken + 1 /\ broken \in 0 .. MaxBroken /\ MaxBroken \in Nat
  BY RunFacts DEF BreakWrite
<1>2. broken' \in 0 .. MaxBroken /\ broken' # 0
  BY <1>1
<1>3. /\ puts' = [puts EXCEPT ![w] = [i \in Runs |-> NoWrite]]
      /\ \/ UNCHANGED <<upserts, lost>>
         \/ /\ upserts[w] # NoUpsert /\ upserts' = [upserts EXCEPT ![w] = NoUpsert]
            /\ lost' = lost \cup {upserts[w].run}
      /\ UNCHANGED <<backed, table, hash, sweeps, lock, clock, truth, touched, mixed, writes>>
  BY DEF BreakWrite
<1>4. puts' \in [Writers -> [Runs -> Write]]
  BY <1>3, RunFacts
<1>5. upserts' \in [Writers -> [run : Runs \cup {NoRun}, row : RunRow \cup {NoRun}]]
  <2>1. NoUpsert \in [run : Runs \cup {NoRun}, row : RunRow \cup {NoRun}]
    BY DEF NoUpsert
  <2>2. upserts \in [Writers -> [run : Runs \cup {NoRun}, row : RunRow \cup {NoRun}]]
    BY RunFacts
  <2>. QED BY <1>3, <2>1, <2>2
<1>. QED BY <1>2, <1>3, <1>4, <1>5

LEMMA PassFacts ==
  ASSUME RunTypeOK, Pass
  PROVE  /\ clock' \in 0 .. MaxTime /\ clock' > clock
         /\ UNCHANGED <<backed, table, hash, puts, upserts, sweeps, lock, truth, touched, lost, mixed, writes, broken>>
<1>1. /\ clock < MaxTime /\ clock' = clock + 1 /\ clock \in 0 .. MaxTime /\ MaxTime \in Nat
  BY RunFacts DEF Pass
<1>2. UNCHANGED <<backed, table, hash, puts, upserts, sweeps, lock, truth, touched, lost, mixed, writes, broken>>
  BY DEF Pass, redisRuns, durableRuns
<1>3. clock' \in 0 .. MaxTime /\ clock' > clock
  BY <1>1
<1>. QED BY <1>2, <1>3

LEMMA WithoutType ==
  ASSUME NEW kept \in [Runs -> RunRow \cup {NoRun}], NEW ids
  PROVE  Without(kept, ids) \in [Runs -> RunRow \cup {NoRun}]
BY DEF Without

(* A pending write of a run holds a row of it.                              *)
LEMMA RunTypeNext ==
  ASSUME RunTypeOK, UpsertInv, PutInv, RunStep
  PROVE  RunTypeOK'
<1>0. /\ {backed, mixed} \subseteq BOOLEAN /\ clock \in 0 .. MaxTime
      /\ {table, hash, truth} \subseteq [Runs -> RunRow \cup {NoRun}] /\ touched \in [Runs -> 0 .. MaxTime]
      /\ puts \in [Writers -> [Runs -> Write]] /\ sweeps \in [Sweepers -> Sweep] /\ lock \subseteq Sweepers
      /\ upserts \in [Writers -> [run : Runs \cup {NoRun}, row : RunRow \cup {NoRun}]]
      /\ lost \subseteq Runs /\ writes \in 0 .. MaxWrites /\ broken \in 0 .. MaxBroken
  BY DEF RunTypeOK
<1>1. ASSUME NEW w \in Writers, NEW i \in Runs, Report(w, i) PROVE RunTypeOK'
  <2>1. PICK row \in RunRow : \E to \in Write :
           /\ row.at = clock /\ to.row = row /\ to.pc \in {"check", "put"}
           /\ (row.status = "queued" <=> to.pc = "check")
           /\ \/ /\ truth' = [truth EXCEPT ![i] = row] /\ (row.status = "queued" => truth[i] = NoRun)
              \/ truth' = truth /\ row.status = "queued" /\ truth[i] # NoRun /\ truth[i].status = "ended"
           /\ touched' = [touched EXCEPT ![i] = IF backed THEN 0 ELSE clock]
           /\ puts' = [puts EXCEPT ![w][i] = to]
           /\ upserts' = IF backed THEN [upserts EXCEPT ![w] = [run |-> i, row |-> row]] ELSE upserts
           /\ UNCHANGED <<backed, table, hash, sweeps, lock, lost, broken, clock>>
           /\ mixed' = (mixed \/ (~backed /\ Writing \cup Sweeping # {}))
           /\ writes' \in 0 .. MaxWrites
    BY <1>1, ReportFacts
  <2>2. truth' \in [Runs -> RunRow \cup {NoRun}]
    <3>1. truth' = truth \/ truth' = [truth EXCEPT ![i] = row]
      BY <2>1
    <3>. QED BY <1>0, <3>1
  <2>3. touched' \in [Runs -> 0 .. MaxTime]
    <3>1. (IF backed THEN 0 ELSE clock) \in 0 .. MaxTime
      BY <1>0, RunFacts
    <3>. QED BY <1>0, <2>1, <3>1
  <2>4. puts' \in [Writers -> [Runs -> Write]]
    <3>1. PICK to \in Write : puts' = [puts EXCEPT ![w][i] = to]
      BY <2>1
    <3>. QED BY <3>1, PutsFacts
  <2>5. upserts' \in [Writers -> [run : Runs \cup {NoRun}, row : RunRow \cup {NoRun}]]
    BY <1>0, <2>1
  <2>6. mixed' \in BOOLEAN /\ writes' \in 0 .. MaxWrites /\ UNCHANGED <<backed, table, hash, sweeps, lock, lost, broken, clock>>
    BY <1>0, <2>1
  <2>. QED BY <1>0, <2>2, <2>3, <2>4, <2>5, <2>6 DEF RunTypeOK
<1>2. ASSUME NEW w \in Writers, NEW i \in Runs, Trimming(w, i) PROVE RunTypeOK'
  <2>1. PICK to \in Write :
           /\ UNCHANGED <<backed, table, upserts, sweeps, lock, clock, truth, touched, lost, mixed, writes, broken>>
           /\ puts' = [puts EXCEPT ![w][i] = to]
           /\ \/ hash' = hash
              \/ puts[w][i].pc = "put" /\ hash' = [hash EXCEPT ![i] = puts[w][i].row]
              \/ hash' = Without(hash, puts[w][i].ids)
    BY <1>2, TrimmingFacts
  <2>a. puts' \in [Writers -> [Runs -> Write]]
    <3>1. puts' = [puts EXCEPT ![w][i] = to]
      BY <2>1
    <3>. QED BY <3>1, PutsFacts
  <2>2. puts[w][i].pc = "put" => puts[w][i].row \in RunRow
    BY DEF PutInv
  <2>3. hash' \in [Runs -> RunRow \cup {NoRun}]
    <3>1. CASE puts[w][i].pc = "put" /\ hash' = [hash EXCEPT ![i] = puts[w][i].row]
      BY <1>0, <2>2, <3>1
    <3>2. CASE hash' = Without(hash, puts[w][i].ids)
      BY <1>0, <3>2, WithoutType
    <3>. QED BY <1>0, <2>1, <3>1, <3>2
  <2>. QED BY <1>0, <2>1, <2>a, <2>3 DEF RunTypeOK
<1>3. ASSUME NEW w \in Writers, Upsert(w) PROVE RunTypeOK'
  <2>1. /\ table' = table \/ table' = [table EXCEPT ![upserts[w].run] = upserts[w].row]
        /\ upserts[w].row \in RunRow
        /\ upserts' \in [Writers -> [run : Runs \cup {NoRun}, row : RunRow \cup {NoRun}]]
        /\ UNCHANGED <<backed, hash, puts, sweeps, lock, clock, truth, touched, lost, mixed, writes, broken>>
    BY <1>3, UpsertFacts DEF Tells
  <2>2. table' \in [Runs -> RunRow \cup {NoRun}]
    BY <1>0, <2>1
  <2>. QED BY <1>0, <2>1, <2>2 DEF RunTypeOK
<1>4. ASSUME NEW w \in Writers, ListRuns(w) PROVE RunTypeOK'
  <2>1. PICK put \in [Runs -> Write] :
           /\ puts' = [puts EXCEPT ![w] = put]
           /\ UNCHANGED <<backed, table, hash, upserts, sweeps, lock, truth, touched, lost, broken, clock, mixed>>
           /\ writes' \in 0 .. MaxWrites
    BY <1>4, ListFacts
  <2>2. puts' \in [Writers -> [Runs -> Write]]
    BY <1>0, <2>1
  <2>. QED BY <1>0, <2>1, <2>2 DEF RunTypeOK
<1>5. ASSUME NEW w \in Writers, BreakWrite(w) PROVE RunTypeOK'
  <2>1. lost' \subseteq Runs
    BY <1>0, <1>5, BreakFacts, SMTT(30) DEF UpsertInv
  <2>. QED BY <1>0, <1>5, <2>1, BreakFacts DEF RunTypeOK
<1>6. ASSUME NEW s \in Sweepers, SweepStep(s) PROVE RunTypeOK'
  <2>1. PICK to \in Sweep :
          /\ sweeps' = [sweeps EXCEPT ![s] = to] /\ lock' \subseteq Sweepers
          /\ UNCHANGED <<backed, puts, upserts, clock, truth, touched, lost, writes, broken>>
          /\ mixed' = mixed \/ mixed' = (mixed \/ (~backed /\ Writing \cup Sweeping # {}))
          /\ UNCHANGED hash \/ hash' = Without(hash, sweeps[s].ids)
          /\ UNCHANGED table \/ \E ids : table' = Without(table, ids)
    BY <1>6, SweepFacts
  <2>2. table' \in [Runs -> RunRow \cup {NoRun}] /\ hash' \in [Runs -> RunRow \cup {NoRun}]
    BY <1>0, <2>1, WithoutType
  <2>3. mixed' \in BOOLEAN /\ sweeps' \in [Sweepers -> Sweep]
    BY <1>0, <2>1
  <2>. QED BY <1>0, <2>1, <2>2, <2>3 DEF RunTypeOK
<1>7. ASSUME Pass PROVE RunTypeOK'
  BY <1>0, <1>7, PassFacts DEF RunTypeOK
<1>. QED BY <1>1, <1>2, <1>3, <1>4, <1>5, <1>6, <1>7 DEF RunStep, SweepStep

(* A write of a run goes on with the row it had, or with none.              *)
LEMMA PutNext ==
  ASSUME RunTypeOK, PutInv, RunStep
  PROVE  PutInv'
<1>1. ASSUME NEW w \in Writers, NEW i \in Runs, Report(w, i) PROVE PutInv'
  <2>1. PICK row \in RunRow : \E to \in Write :
           to.row = row /\ (row.status = "queued" <=> to.pc = "check") /\ puts' = [puts EXCEPT ![w][i] = to]
    BY <1>1, ReportFacts
  <2>2. PICK to \in Write :
           to.row = row /\ (row.status = "queued" <=> to.pc = "check") /\ puts' = [puts EXCEPT ![w][i] = to]
    BY <2>1
  <2>. QED BY <2>2, PutsFacts DEF PutInv
<1>2. ASSUME NEW w \in Writers, NEW i \in Runs, Trimming(w, i) PROVE PutInv'
  <2>1. PICK to \in Write :
           /\ puts' = [puts EXCEPT ![w][i] = to]
           /\ \/ to = NoWrite \/ to.pc \in {"count", "range", "evict"}
              \/ puts[w][i].pc = "check" /\ to.pc = "put" /\ to.row = puts[w][i].row
    BY <1>2, TrimmingFacts
  <2>2. (to.pc \in {"check", "put"} => to.row \in RunRow) /\ to.pc # "check"
    BY <2>1, RunFacts DEF PutInv
  <2>. QED BY <2>1, <2>2, PutsFacts DEF PutInv
<1>3. ASSUME NEW w \in Writers, ListRuns(w) PROVE PutInv'
  <2>1. PICK put \in [Runs -> Write] :
           /\ puts' = [puts EXCEPT ![w] = put]
           /\ \A i \in Runs :
                put[i] = NoWrite \/ (put[i].pc = "put" /\ put[i].row = table[i] /\ i \in Kept(table))
    BY <1>3, ListFacts
  <2>2. \A i \in Runs : (put[i].pc \in {"check", "put"} => put[i].row \in RunRow) /\ put[i].pc # "check"
    BY <2>1, RunFacts DEF Kept
  <2>3. puts'[w] = put /\ \A v \in Writers \ {w} : puts'[v] = puts[v]
    BY <2>1, RunFacts
  <2>. QED BY <2>2, <2>3 DEF PutInv
<1>4. ASSUME NEW w \in Writers, BreakWrite(w) PROVE PutInv'
  <2>1. /\ \A i \in Runs : puts'[w][i].pc = "none"
        /\ \A v \in Writers \ {w} : puts'[v] = puts[v]
    BY <1>4, BreakFacts, RunFacts
  <2>. QED BY <2>1 DEF PutInv
<1>5. ASSUME UNCHANGED puts PROVE PutInv'
  BY <1>5 DEF PutInv
<1>6. (\E w \in Writers : Upsert(w)) \/ (\E s \in Sweepers : SweepStep(s)) \/ Pass => UNCHANGED puts
  BY SweepFacts, PassFacts DEF Upsert, redisRuns
<1>. QED BY <1>1, <1>2, <1>3, <1>4, <1>5, <1>6 DEF RunStep, SweepStep

LEMMA OriginNext ==
  ASSUME RunTypeOK, UpsertInv, PutInv, OriginInv, RunStep
  PROVE  OriginInv'
<1>. DEFINE Fits(t, row, j) == row # NoRun => t[j] # NoRun /\ (t[j].status = "queued" => row.status = "queued")
<1>0. OriginInv' <=> /\ \A j \in Runs : Fits(truth', table'[j], j) /\ Fits(truth', hash'[j], j)
                     /\ \A w \in Writers : \A j \in Runs : Fits(truth', puts'[w][j].row, j)
  BY DEF OriginInv, Grounded
<1>a. /\ \A j \in Runs : Fits(truth, table[j], j) /\ Fits(truth, hash[j], j)
      /\ \A w \in Writers : \A j \in Runs : Fits(truth, puts[w][j].row, j)
  BY DEF OriginInv, Grounded
<1>1. ASSUME NEW w \in Writers, NEW i \in Runs, Report(w, i) PROVE OriginInv'
  <2>1. PICK row \in RunRow : \E to \in Write :
           /\ to.row = row
           /\ \/ /\ truth' = [truth EXCEPT ![i] = row] /\ (row.status = "queued" => truth[i] = NoRun)
              \/ truth' = truth /\ row.status = "queued" /\ truth[i] # NoRun /\ truth[i].status = "ended"
           /\ puts' = [puts EXCEPT ![w][i] = to]
           /\ UNCHANGED <<table, hash>>
    BY <1>1, ReportFacts
  <2>2. PICK to \in Write : to.row = row /\ puts' = [puts EXCEPT ![w][i] = to]
    BY <2>1
  <2>3. \A j \in Runs : \A r : Fits(truth, r, j) => Fits(truth', r, j)
    <3>1. CASE truth' = truth
      BY <3>1
    <3>2. CASE truth' = [truth EXCEPT ![i] = row] /\ (row.status = "queued" => truth[i] = NoRun)
      <4>1. truth'[i] = row /\ row # NoRun /\ \A j \in Runs \ {i} : truth'[j] = truth[j]
        BY <3>2, RunFacts
      <4>. QED BY <3>2, <4>1
    <3>. QED BY <2>1, <3>1, <3>2
  <2>4. Fits(truth', row, i)
    <3>1. CASE truth' = truth
      BY <2>1, <3>1, RunFacts
    <3>2. CASE truth' = [truth EXCEPT ![i] = row]
      BY <3>2, RunFacts
    <3>. QED BY <2>1, <3>1, <3>2
  <2>. HIDE DEF Fits
  <2>5. \A v \in Writers : \A j \in Runs : Fits(truth', puts'[v][j].row, j)
    BY <1>a, <2>2, <2>3, <2>4, PutsFacts
  <2>. QED BY <1>0, <1>a, <2>1, <2>3, <2>5
<1>2. ASSUME NEW w \in Writers, NEW i \in Runs, Trimming(w, i) PROVE OriginInv'
  <2>1. PICK to \in Write :
           /\ puts' = [puts EXCEPT ![w][i] = to] /\ UNCHANGED <<table, truth>>
           /\ to.row \in {NoRun, puts[w][i].row}
           /\ \/ hash' = hash \/ hash' = [hash EXCEPT ![i] = puts[w][i].row]
              \/ hash' = Without(hash, puts[w][i].ids)
    BY <1>2, TrimmingFacts, RunFacts
  <2>. HIDE DEF Fits
  <2>2. \A j : Fits(truth, NoRun, j)
    BY DEF Fits
  <2>3. \A v \in Writers : \A j \in Runs : Fits(truth', puts'[v][j].row, j)
    BY <1>a, <2>1, <2>2, PutsFacts
  <2>4. ASSUME NEW j \in Runs PROVE Fits(truth', hash'[j], j)
    <3>1. hash'[j] \in {NoRun, hash[j]} \/ (j = i /\ hash'[j] = puts[w][i].row)
      BY <2>1, RunFacts DEF Without
    <3>. QED BY <1>a, <2>1, <2>2, <3>1
  <2>. QED BY <1>0, <1>a, <2>1, <2>3, <2>4
<1>3. ASSUME NEW w \in Writers, Upsert(w) PROVE OriginInv'
  <2>1. /\ UNCHANGED <<hash, puts, truth>> /\ upserts[w].run \in Runs
        /\ table' = table \/ table' = [table EXCEPT ![upserts[w].run] = upserts[w].row]
        /\ Fits(truth, upserts[w].row, upserts[w].run)
    BY <1>3, UpsertFacts DEF Tells
  <2>. HIDE DEF Fits
  <2>2. \A j \in Runs : Fits(truth', table'[j], j)
    BY <1>a, <2>1, RunFacts
  <2>. QED BY <1>0, <1>a, <2>1, <2>2
<1>4. ASSUME NEW w \in Writers, ListRuns(w) PROVE OriginInv'
  <2>1. PICK put \in [Runs -> Write] :
           /\ puts' = [puts EXCEPT ![w] = put] /\ UNCHANGED <<table, hash, truth>>
           /\ \A i \in Runs :
                put[i] = NoWrite \/ (put[i].pc = "put" /\ put[i].row = table[i] /\ i \in Kept(table))
    BY <1>4, ListFacts
  <2>2. puts'[w] = put /\ \A v \in Writers \ {w} : puts'[v] = puts[v]
    BY <2>1, RunFacts
  <2>3. \A j \in Runs : Fits(truth, put[j].row, j)
    BY <1>a, <2>1, RunFacts
  <2>. HIDE DEF Fits
  <2>. QED BY <1>0, <1>a, <2>1, <2>2, <2>3
<1>5. ASSUME NEW w \in Writers, BreakWrite(w) PROVE OriginInv'
  <2>1. /\ \A i \in Runs : puts'[w][i].row = NoRun
        /\ \A v \in Writers \ {w} : puts'[v] = puts[v]
        /\ UNCHANGED <<table, hash, truth>>
    BY <1>5, BreakFacts, RunFacts
  <2>. QED BY <1>0, <1>a, <2>1
<1>6. ASSUME NEW s \in Sweepers, SweepStep(s) PROVE OriginInv'
  <2>1. /\ UNCHANGED <<puts, truth>>
        /\ UNCHANGED hash \/ hash' = Without(hash, sweeps[s].ids)
        /\ UNCHANGED table \/ \E ids : table' = Without(table, ids)
    BY <1>6, SweepFacts
  <2>2. \A j \in Runs : table'[j] \in {NoRun, table[j]} /\ hash'[j] \in {NoRun, hash[j]}
    BY <2>1 DEF Without
  <2>. QED BY <1>0, <1>a, <2>1, <2>2
<1>7. ASSUME Pass PROVE OriginInv'
  BY <1>0, <1>a, <1>7, PassFacts
<1>. QED BY <1>1, <1>2, <1>3, <1>4, <1>5, <1>6, <1>7 DEF RunStep, SweepStep

LEMMA UpsertNext ==
  ASSUME RunTypeOK, UpsertInv, RunStep
  PROVE  UpsertInv'
<1>. DEFINE Says(t, r, j) == r \in RunRow /\ t[j] # NoRun /\ (r = t[j] \/ (r.status = "queued" /\ t[j].status = "ended"))
<1>0. UpsertInv' <=>
        /\ \A w \in Writers : upserts'[w] # NoUpsert =>
             upserts'[w].run \in Runs /\ Says(truth', upserts'[w].row, upserts'[w].run)
        /\ \A w, v \in Writers :
             upserts'[w] # NoUpsert /\ upserts'[v] # NoUpsert /\ upserts'[w].run = upserts'[v].run => w = v
  BY DEF UpsertInv, Tells, NoUpsert
<1>a. /\ \A w \in Writers : upserts[w] # NoUpsert => upserts[w].run \in Runs /\ Says(truth, upserts[w].row, upserts[w].run)
      /\ \A w, v \in Writers :
           upserts[w] # NoUpsert /\ upserts[v] # NoUpsert /\ upserts[w].run = upserts[v].run => w = v
  BY DEF UpsertInv, Tells
<1>1. ASSUME NEW w \in Writers, NEW i \in Runs, Report(w, i) PROVE UpsertInv'
  <2>1. PICK row \in RunRow :
           /\ \/ /\ truth' = [truth EXCEPT ![i] = row]
              \/ truth' = truth /\ row.status = "queued" /\ truth[i] # NoRun /\ truth[i].status = "ended"
           /\ upserts' = IF backed THEN [upserts EXCEPT ![w] = [run |-> i, row |-> row]] ELSE upserts
           /\ i \notin Reported
    BY <1>1, ReportFacts
  <2>2. \A v \in Writers : upserts[v].run # i
    BY <2>1 DEF Reported
  <2>3. row # NoRun /\ truth \in [Runs -> RunRow \cup {NoRun}]
    BY RunFacts
  <2>4. \A j \in Runs \ {i} : truth'[j] = truth[j]
    BY <2>1, <2>3
  <2>5. Says(truth', row, i)
    BY <2>1, <2>3
  <2>6. \A v \in Writers : upserts'[v] = upserts[v] \/ (v = w /\ upserts'[v] = [run |-> i, row |-> row])
    BY <2>1, RunFacts
  <2>7. ASSUME NEW v \in Writers, upserts'[v] # NoUpsert
        PROVE  upserts'[v].run \in Runs /\ Says(truth', upserts'[v].row, upserts'[v].run)
    BY <1>a, <2>2, <2>4, <2>5, <2>6, <2>7
  <2>8. ASSUME NEW v \in Writers, NEW u \in Writers, upserts'[v] # NoUpsert, upserts'[u] # NoUpsert,
               upserts'[v].run = upserts'[u].run
        PROVE  v = u
    BY <1>a, <2>2, <2>6, <2>8
  <2>. HIDE DEF Says
  <2>. QED BY <1>0, <2>7, <2>8
<1>2. ASSUME UNCHANGED truth, \A v \in Writers : upserts'[v] \in {upserts[v], NoUpsert} PROVE UpsertInv'
  <2>. HIDE DEF Says
  <2>. QED BY <1>0, <1>a, <1>2
<1>3. ASSUME NEW w \in Writers, NEW i \in Runs, Trimming(w, i) PROVE UpsertInv'
  <2>1. UNCHANGED <<truth, upserts>>
    BY <1>3, TrimmingFacts
  <2>. QED BY <1>2, <2>1
<1>4. ASSUME NEW w \in Writers, Upsert(w) \/ BreakWrite(w) PROVE UpsertInv'
  <2>1. UNCHANGED truth /\ (upserts' = upserts \/ upserts' = [upserts EXCEPT ![w] = NoUpsert])
    BY <1>4, BreakFacts DEF Upsert, past
  <2>. QED BY <1>2, <2>1, RunFacts
<1>5. ASSUME NEW w \in Writers, ListRuns(w) PROVE UpsertInv'
  <2>1. UNCHANGED <<truth, upserts>>
    BY <1>5 DEF ListRuns
  <2>. QED BY <1>2, <2>1
<1>6. ASSUME NEW s \in Sweepers, SweepStep(s) PROVE UpsertInv'
  <2>1. UNCHANGED <<truth, upserts>>
    BY <1>6, SweepFacts
  <2>. QED BY <1>2, <2>1
<1>7. ASSUME Pass PROVE UpsertInv'
  BY <1>2, <1>7, PassFacts
<1>. QED BY <1>1, <1>3, <1>4, <1>5, <1>6, <1>7 DEF RunStep, SweepStep

LEMMA TimeNext ==
  ASSUME RunTypeOK, UpsertInv, TimeInv, RunStep
  PROVE  TimeInv'
<1>. DEFINE Before(row, n) == row # NoRun => row.at <= n
<1>0. TimeInv' <=> /\ \A s \in Sweepers : sweeps'[s].cutoff <= clock'
                   /\ \A j \in Runs : touched'[j] <= clock'
                   /\ ~backed' => \A j \in Runs : /\ Before(hash'[j], touched'[j])
                                                  /\ \A w \in Writers : Before(puts'[w][j].row, touched'[j])
  BY DEF TimeInv
<1>a. /\ \A s \in Sweepers : sweeps[s].cutoff <= clock
      /\ \A j \in Runs : touched[j] <= clock
      /\ ~backed => \A j \in Runs : /\ Before(hash[j], touched[j])
                                    /\ \A w \in Writers : Before(puts[w][j].row, touched[j])
  BY DEF TimeInv
<1>b. \A n : Before(NoRun, n)
  OBVIOUS
<1>1. ASSUME NEW w \in Writers, NEW i \in Runs, Report(w, i) PROVE TimeInv'
  <2>1. PICK row \in RunRow : \E to \in Write :
           /\ row.at = clock /\ to.row = row /\ puts' = [puts EXCEPT ![w][i] = to]
           /\ touched' = [touched EXCEPT ![i] = IF backed THEN 0 ELSE clock]
           /\ UNCHANGED <<backed, hash, sweeps, clock>>
    BY <1>1, ReportFacts
  <2>2. PICK to \in Write : to.row = row /\ puts' = [puts EXCEPT ![w][i] = to]
    BY <2>1
  <2>3. touched'[i] = (IF backed THEN 0 ELSE clock) /\ \A j \in Runs \ {i} : touched'[j] = touched[j]
    BY <2>1, RunFacts
  <2>4. clock \in Nat /\ \A j \in Runs : touched[j] \in Nat
    BY RunFacts
  <2>5. \A j \in Runs : touched'[j] <= clock /\ (~backed => touched[j] <= touched'[j]) /\ touched'[j] \in Nat
    BY <1>a, <2>3, <2>4
  <2>6. \A j \in Runs : hash[j] # NoRun => hash[j].at \in Nat
    BY RunFacts
  <2>7. ASSUME ~backed, NEW j \in Runs PROVE Before(hash[j], touched'[j])
    BY <1>a, <2>4, <2>5, <2>6, <2>7
  <2>8. ASSUME ~backed, NEW v \in Writers, NEW j \in Runs PROVE Before(puts'[v][j].row, touched'[j])
    <3>1. CASE v = w /\ j = i
      <4>1. puts'[v][j].row = row /\ touched'[j] = clock
        BY <2>2, <2>3, <2>8, <3>1, PutsFacts
      <4>. QED BY <2>1, <2>4, <4>1
    <3>2. CASE v # w \/ j # i
      <4>1. puts'[v][j].row = puts[v][j].row /\ puts[v][j].row \in RunRow \cup {NoRun}
        BY <2>2, <3>2, PutsFacts, RunFacts DEF Write
      <4>2. puts[v][j].row # NoRun => puts[v][j].row.at \in Nat
        BY <4>1, RunFacts
      <4>. QED BY <1>a, <2>4, <2>5, <2>8, <4>1, <4>2
    <3>. QED BY <3>1, <3>2
  <2>. HIDE DEF Before
  <2>. QED BY <1>0, <1>a, <2>1, <2>5, <2>7, <2>8
<1>2. ASSUME NEW w \in Writers, NEW i \in Runs, Trimming(w, i) PROVE TimeInv'
  <2>1. PICK to \in Write :
           /\ puts' = [puts EXCEPT ![w][i] = to] /\ UNCHANGED <<backed, sweeps, clock, touched>>
           /\ to = NoWrite \/ to.row \in {NoRun, puts[w][i].row}
           /\ \/ hash' = hash \/ hash' = [hash EXCEPT ![i] = puts[w][i].row]
              \/ hash' = Without(hash, puts[w][i].ids)
    BY <1>2, TrimmingFacts
  <2>. HIDE DEF Before
  <2>2. \A j \in Runs : hash'[j] \in {NoRun, hash[j]} \/ (j = i /\ hash'[j] = puts[w][i].row)
    BY <2>1, RunFacts DEF Without
  <2>3. \A v \in Writers : \A j \in Runs : puts'[v][j].row \in {NoRun, puts[v][j].row}
    BY <2>1, PutsFacts, RunFacts
  <2>4. ~backed => \A j \in Runs : /\ Before(hash'[j], touched[j])
                                   /\ \A v \in Writers : Before(puts'[v][j].row, touched[j])
    BY <1>a, <1>b, <2>2, <2>3
  <2>. QED BY <1>0, <1>a, <2>1, <2>4
<1>3. ASSUME NEW w \in Writers, Upsert(w) PROVE TimeInv'
  BY <1>0, <1>a, <1>3, UpsertFacts
<1>4. ASSUME NEW w \in Writers, ListRuns(w) PROVE TimeInv'
  <2>1. backed' /\ UNCHANGED <<sweeps, clock, touched>>
    BY <1>4, ListFacts
  <2>. QED BY <1>0, <1>a, <2>1
<1>5. ASSUME NEW w \in Writers, BreakWrite(w) PROVE TimeInv'
  <2>1. /\ \A i \in Runs : puts'[w][i].row = NoRun
        /\ \A v \in Writers \ {w} : puts'[v] = puts[v]
        /\ UNCHANGED <<backed, hash, sweeps, clock, touched>>
    BY <1>5, BreakFacts, RunFacts
  <2>. HIDE DEF Before
  <2>. QED BY <1>0, <1>a, <1>b, <2>1
<1>6. ASSUME NEW s \in Sweepers, SweepStep(s) PROVE TimeInv'
  <2>1. PICK to \in Sweep :
          /\ sweeps' = [sweeps EXCEPT ![s] = to] /\ to.cutoff \in {0, sweeps[s].cutoff, clock}
          /\ UNCHANGED <<backed, puts, clock, touched>>
          /\ UNCHANGED hash \/ hash' = Without(hash, sweeps[s].ids)
    BY <1>6, SweepFacts
  <2>2. sweeps'[s] = to /\ (\A r \in Sweepers \ {s} : sweeps'[r] = sweeps[r]) /\ clock \in Nat
    BY <2>1, RunFacts
  <2>3. to.cutoff <= clock
    BY <1>a, <2>1, <2>2
  <2>4. \A j \in Runs : hash'[j] \in {NoRun, hash[j]}
    BY <2>1 DEF Without
  <2>. HIDE DEF Before
  <2>5. \A r \in Sweepers : sweeps'[r].cutoff <= clock'
    BY <1>a, <2>1, <2>2, <2>3
  <2>. QED BY <1>0, <1>a, <1>b, <2>1, <2>4, <2>5
<1>7. ASSUME Pass PROVE TimeInv'
  <2>1. clock' > clock /\ clock \in Nat /\ clock' \in Nat /\ UNCHANGED <<backed, hash, puts, sweeps, touched>>
    BY <1>7, PassFacts, RunFacts
  <2>2. \A s \in Sweepers : sweeps[s].cutoff \in Nat
    BY RunFacts
  <2>3. \A j \in Runs : touched[j] \in Nat
    BY RunFacts
  <2>4. (\A s \in Sweepers : sweeps[s].cutoff <= clock') /\ \A j \in Runs : touched[j] <= clock'
    BY <1>a, <2>1, <2>2, <2>3
  <2>. HIDE DEF Before
  <2>. QED BY <1>0, <1>a, <2>1, <2>4
<1>. QED BY <1>1, <1>2, <1>3, <1>4, <1>5, <1>6, <1>7 DEF RunStep, SweepStep

(* What a row of a run may say once the run is forgotten stays so.          *)
LEMMA TableNext ==
  ASSUME RunTypeOK, UpsertInv, OriginInv, TimeInv, TableInv, RunStep
  PROVE  TableInv'
<1>. DEFINE Gone(kept, t, n, j) == t[j].status = "ended" /\ t[j].at < n /\ (j \in Kept(kept) => kept[j].status = "queued")
            Comes(u, t, j) == \E w \in Writers : u[w] # NoUpsert /\ u[w].run = j /\ u[w].row = t[j]
<1>0. TableInv' <=> (backed' => \A j \in Kept(truth') \ lost' :
                       table'[j] = truth'[j] \/ Gone(table', truth', clock', j) \/ Comes(upserts', truth', j))
  BY DEF TableInv, Forgotten, NoUpsert
<1>a. backed => \A j \in Kept(truth) \ lost :
        table[j] = truth[j] \/ Gone(table, truth, clock, j) \/ Comes(upserts, truth, j)
  BY DEF TableInv, Forgotten
<1>b. \A j : j \in Kept(truth) <=> j \in Runs /\ truth[j] # NoRun
  BY DEF Kept
<1>1. ASSUME NEW w \in Writers, NEW i \in Runs, Report(w, i) PROVE TableInv'
  <2>1. PICK row \in RunRow :
           /\ \/ truth' = [truth EXCEPT ![i] = row]
              \/ truth' = truth /\ row.status = "queued" /\ truth[i] # NoRun /\ truth[i].status = "ended"
           /\ upserts' = IF backed THEN [upserts EXCEPT ![w] = [run |-> i, row |-> row]] ELSE upserts
           /\ UNCHANGED <<backed, table, lost, clock>>
           /\ i \notin Reported /\ w \notin Writing
    BY <1>1, ReportFacts
  <2>. SUFFICES ASSUME backed, NEW j \in Kept(truth') \ lost
                PROVE  table[j] = truth'[j] \/ Gone(table, truth', clock, j) \/ Comes(upserts', truth', j)
    BY <1>0, <2>1
  <2>2. upserts[w] = NoUpsert /\ \A v \in Writers : upserts[v].run # i
    BY <2>1 DEF Writing, Reported
  <2>3. upserts'[w] = [run |-> i, row |-> row] /\ (\A v \in Writers \ {w} : upserts'[v] = upserts[v])
        /\ row # NoRun
    BY <2>1, RunFacts
  <2>4. upserts'[w] # NoUpsert
    BY <2>3 DEF NoUpsert
  <2>5. CASE truth'[j] = truth[j]
    <3>1. j \in Kept(truth) \ lost
      BY <2>5 DEF Kept
    <3>2. CASE Comes(upserts, truth, j)
      <4>1. PICK v \in Writers : upserts[v] # NoUpsert /\ upserts[v].run = j /\ upserts[v].row = truth[j]
        BY <3>2
      <4>2. upserts'[v] = upserts[v]
        BY <2>2, <2>3, <4>1
      <4>. QED BY <2>5, <4>1, <4>2
    <3>. HIDE DEF Comes
    <3>3. Gone(table, truth, clock, j) => Gone(table, truth', clock, j)
      BY <2>5
    <3>. HIDE DEF Gone
    <3>. QED BY <1>a, <2>5, <3>1, <3>2, <3>3
  <2>6. CASE truth'[j] # truth[j]
    <3>1. j = i /\ truth'[i] = row
      BY <2>1, <2>6, RunFacts DEF Kept
    <3>2. upserts'[w] # NoUpsert /\ upserts'[w].run = j /\ upserts'[w].row = truth'[j]
      BY <2>3, <2>4, <3>1
    <3>. QED BY <3>2
  <2>. QED BY <2>5, <2>6
<1>2. ASSUME NEW w \in Writers, NEW i \in Runs, Trimming(w, i) PROVE TableInv'
  <2>1. UNCHANGED <<backed, table, upserts, clock, truth, lost>>
    BY <1>2, TrimmingFacts
  <2>. QED BY <1>0, <1>a, <2>1
<1>3. ASSUME NEW w \in Writers, Upsert(w) PROVE TableInv'
  <2>. DEFINE r == upserts[w].run
              row == upserts[w].row
  <2>1. /\ upserts[w] # NoUpsert /\ r \in Runs /\ Tells(row, r)
        /\ \/ table' = table /\ row.status = "queued" /\ r \in Kept(table) /\ table[r].status = "ended"
           \/ /\ table' = [table EXCEPT ![r] = row]
              /\ ~(row.status = "queued" /\ r \in Kept(table) /\ table[r].status = "ended")
        /\ upserts' = [upserts EXCEPT ![w] = NoUpsert] /\ UNCHANGED <<backed, clock, truth, lost>>
    BY <1>3, UpsertFacts
  <2>2. \A v \in Writers \ {w} : upserts'[v] = upserts[v]
    BY <2>1, RunFacts
  <2>. SUFFICES ASSUME backed, NEW j \in Kept(truth) \ lost
                PROVE  table'[j] = truth[j] \/ Gone(table', truth, clock, j) \/ Comes(upserts', truth, j)
    BY <1>0, <2>1
  <2>3. CASE j # r
    <3>1. table'[j] = table[j] /\ (j \in Kept(table') <=> j \in Kept(table))
      BY <2>1, <2>3, RunFacts DEF Kept
    <3>2. Comes(upserts, truth, j) => Comes(upserts', truth, j)
      BY <2>2, <2>3
    <3>3. Gone(table, truth, clock, j) => Gone(table', truth, clock, j)
      BY <3>1
    <3>. HIDE DEF Comes, Gone
    <3>. QED BY <1>a, <3>1, <3>2, <3>3
  <2>4. CASE j = r /\ row = truth[r]
    <3>1. CASE table' = [table EXCEPT ![r] = row]
      BY <2>1, <2>4, <3>1, RunFacts
    <3>2. CASE table' = table /\ row.status = "queued" /\ r \in Kept(table) /\ table[r].status = "ended"
      <4>1. table[r] # NoRun /\ table[r].status = "queued"
        BY <2>1, <2>4, <3>2 DEF OriginInv, Grounded, Kept, Tells
      <4>. QED BY <3>2, <4>1
    <3>. QED BY <2>1, <3>1, <3>2
  <2>5. CASE j = r /\ row # truth[r]
    <3>1. row.status = "queued" /\ truth[r].status = "ended" /\ row \in RunRow
      BY <2>1, <2>5 DEF Tells
    <3>2. ~Comes(upserts, truth, r)
      BY <2>1, <2>5 DEF UpsertInv
    <3>3. table[r] = truth[r] \/ Gone(table, truth, clock, r)
      BY <1>a, <2>5, <3>2
    <3>4. CASE table' = table
      BY <2>5, <3>3, <3>4
    <3>5. CASE table' = [table EXCEPT ![r] = row] /\ ~(row.status = "queued" /\ r \in Kept(table) /\ table[r].status = "ended")
      <4>1. Gone(table, truth, clock, r)
        BY <1>b, <2>5, <3>1, <3>3, <3>5 DEF Kept
      <4>2. table'[r] = row
        BY <2>1, <3>5, RunFacts
      <4>. QED BY <2>5, <3>1, <4>1, <4>2
    <3>. QED BY <2>1, <3>4, <3>5
  <2>. QED BY <2>3, <2>4, <2>5
<1>4. ASSUME NEW w \in Writers, ListRuns(w) PROVE TableInv'
  <2>1. UNCHANGED <<backed, table, upserts, clock, truth, lost>>
    BY <1>4, ListFacts
  <2>. QED BY <1>0, <1>a, <2>1
<1>5. ASSUME NEW w \in Writers, BreakWrite(w) PROVE TableInv'
  <2>1. /\ UNCHANGED <<backed, table, clock, truth>>
        /\ \/ UNCHANGED <<upserts, lost>>
           \/ upserts' = [upserts EXCEPT ![w] = NoUpsert] /\ lost' = lost \cup {upserts[w].run}
    BY <1>5, BreakFacts
  <2>2. \A j \in Kept(truth) \ lost' : j \in Kept(truth) \ lost /\ (Comes(upserts, truth, j) => Comes(upserts', truth, j))
    BY <2>1, RunFacts
  <2>. HIDE DEF Comes
  <2>. QED BY <1>0, <1>a, <2>1, <2>2
<1>6. ASSUME NEW s \in Sweepers, SweepStep(s) PROVE TableInv'
  <2>1. /\ UNCHANGED <<backed, upserts, clock, truth, lost>>
        /\ \/ UNCHANGED table
           \/ \E ids : table' = Without(table, ids) /\ \A i \in ids : i \in Kept(table) /\ ShouldPrune(table[i], sweeps[s].cutoff)
    BY <1>6, SweepFacts
  <2>2. CASE UNCHANGED table
    BY <1>0, <1>a, <2>1, <2>2
  <2>3. ASSUME NEW ids, table' = Without(table, ids), \A i \in ids : i \in Kept(table) /\ ShouldPrune(table[i], sweeps[s].cutoff)
        PROVE  TableInv'
    <3>. HIDE DEF Comes
    <3>. SUFFICES ASSUME backed, NEW j \in Kept(truth) \ lost
                  PROVE  table'[j] = truth[j] \/ Gone(table', truth, clock, j) \/ Comes(upserts, truth, j)
      BY <1>0, <2>1
    <3>1. CASE j \notin ids
      <4>1. table'[j] = table[j] /\ (j \in Kept(table') <=> j \in Kept(table))
        BY <1>b, <2>3, <3>1 DEF Without, Kept
      <4>. QED BY <1>a, <4>1
    <3>2. CASE j \in ids
      <4>1. j \notin Kept(table') /\ table[j] # NoRun /\ j \in Kept(table) /\ j \in Runs
        BY <2>3, <3>2 DEF Without, Kept
      <4>2. table[j].status = "ended" /\ table[j].at < sweeps[s].cutoff
        BY <2>3, <3>2 DEF ShouldPrune
      <4>3. table[j].at \in Nat /\ sweeps[s].cutoff \in Nat /\ clock \in Nat /\ sweeps[s].cutoff <= clock
        BY <4>1, RunFacts DEF TimeInv
      <4>4. table[j].at < clock
        BY <4>2, <4>3
      <4>5. CASE table[j] = truth[j]
        BY <4>1, <4>2, <4>4, <4>5
      <4>6. CASE Gone(table, truth, clock, j)
        BY <4>1, <4>2, <4>6
      <4>. QED BY <1>a, <4>5, <4>6
    <3>. QED BY <3>1, <3>2
  <2>. QED BY <2>1, <2>2, <2>3
<1>7. ASSUME Pass PROVE TableInv'
  <2>1. clock' > clock /\ clock \in Nat /\ clock' \in Nat /\ UNCHANGED <<backed, table, upserts, truth, lost>>
    BY <1>7, PassFacts, RunFacts
  <2>2. \A j \in Kept(truth) : truth[j].at \in Nat
    BY <1>b, RunFacts
  <2>3. \A j \in Kept(truth) : Gone(table, truth, clock, j) => Gone(table, truth, clock', j)
    BY <2>1, <2>2
  <2>. HIDE DEF Gone, Comes
  <2>. QED BY <1>0, <1>a, <2>1, <2>3
<1>. QED BY <1>1, <1>2, <1>3, <1>4, <1>5, <1>6, <1>7 DEF RunStep, SweepStep

(* How many rows the hash has, when rows are taken out of it.                *)
LEMMA SizeFacts ==
  /\ \A kept : Cardinality(Kept(kept)) \in Nat
  /\ \A kept, ids : Cardinality(Kept(kept) \ ids) \in Nat /\ Cardinality(Kept(kept) \ ids) <= Cardinality(Kept(kept))
  /\ \A kept, more : Kept(more) \subseteq Kept(kept) =>
       /\ Cardinality(Kept(more)) <= Cardinality(Kept(kept))
       /\ \A ids : Cardinality(Kept(more) \ ids) <= Cardinality(Kept(kept) \ ids)
  /\ \A kept : \A ids \in SUBSET Kept(kept) :
       /\ Cardinality(ids) \in Nat
       /\ Cardinality(Kept(kept) \ ids) = Cardinality(Kept(kept)) - Cardinality(ids)
<1>1. \A kept : IsFiniteSet(Kept(kept)) /\ Cardinality(Kept(kept)) \in Nat
  BY KeptFacts
<1>2. \A kept, ids : IsFiniteSet(Kept(kept) \ ids) /\ Cardinality(Kept(kept) \ ids) \in Nat
                     /\ Cardinality(Kept(kept) \ ids) <= Cardinality(Kept(kept))
  <2>. TAKE kept, ids
  <2>1. Kept(kept) \ ids \subseteq Kept(kept)
    OBVIOUS
  <2>. QED BY <1>1, <2>1, FS_Subset, FS_CardinalityType
<1>3. ASSUME NEW kept, NEW more, Kept(more) \subseteq Kept(kept)
      PROVE  /\ Cardinality(Kept(more)) <= Cardinality(Kept(kept))
             /\ \A ids : Cardinality(Kept(more) \ ids) <= Cardinality(Kept(kept) \ ids)
  <2>1. \A ids : Kept(more) \ ids \subseteq Kept(kept) \ ids
    BY <1>3
  <2>. QED BY <1>1, <1>2, <1>3, <2>1, FS_Subset
<1>4. ASSUME NEW kept, NEW ids \in SUBSET Kept(kept)
      PROVE  /\ Cardinality(ids) \in Nat
             /\ Cardinality(Kept(kept) \ ids) = Cardinality(Kept(kept)) - Cardinality(ids)
  <2>1. Kept(kept) \cap ids = ids
    BY <1>4
  <2>2. Cardinality(Kept(kept) \ ids) = Cardinality(Kept(kept)) - Cardinality(Kept(kept) \cap ids)
    BY <1>1, FS_Difference
  <2>3. IsFiniteSet(ids)
    BY <1>1, FS_Subset
  <2>. QED BY <2>1, <2>2, <2>3, FS_CardinalityType
<1>. QED BY <1>1, <1>2, <1>3, <1>4

(* What ListOldest takes out is as much as it was to.                       *)
LEMMA OldestFacts ==
  ASSUME RunTypeOK, NEW n \in Nat, NEW ids \in Oldest(n)
  PROVE  /\ ids \subseteq Kept(hash)
         /\ \A k \in ids : \A j \in Kept(hash) \ ids : hash[k].at <= hash[j].at
         /\ MaxCached + n >= Cardinality(Kept(hash)) => Cardinality(Kept(hash) \ ids) <= MaxCached
         /\ MaxCached + n = Cardinality(Kept(hash)) => Cardinality(Kept(hash) \ ids) = MaxCached
<1>1. /\ ids \in SUBSET Kept(hash)
      /\ Cardinality(ids) = IF n <= Cardinality(Kept(hash)) THEN n ELSE Cardinality(Kept(hash))
      /\ \A k \in ids : \A j \in Kept(hash) \ ids : hash[k].at <= hash[j].at
  BY DEF Oldest
<1>2. /\ Cardinality(Kept(hash)) \in Nat /\ MaxCached \in Nat
      /\ Cardinality(Kept(hash) \ ids) = Cardinality(Kept(hash)) - Cardinality(ids)
  BY <1>1, SizeFacts, RunCacheAssumption
<1>. QED BY <1>1, <1>2

LEMMA TrimNext ==
  ASSUME RunTypeOK, TrimInv, RunStep
  PROVE  TrimInv'
<1>. DEFINE Trims(h, o) == \/ o.pc = "count"
                           \/ o.pc = "range" /\ MaxCached + o.excess >= Cardinality(Kept(h))
                           \/ o.pc = "evict" /\ Cardinality(Kept(h) \ o.ids) <= MaxCached
<1>0. TrimInv' <=> (broken' = 0 /\ Cardinality(Kept(hash')) > MaxCached =>
                      \E w \in Writers : \E i \in Runs : Trims(hash', puts'[w][i]))
  BY DEF TrimInv
<1>a. broken = 0 /\ Cardinality(Kept(hash)) > MaxCached => \E w \in Writers : \E i \in Runs : Trims(hash, puts[w][i])
  BY DEF TrimInv
<1>b. ASSUME Kept(hash') \subseteq Kept(hash)
      PROVE  /\ Cardinality(Kept(hash')) > MaxCached => Cardinality(Kept(hash)) > MaxCached
             /\ \A w \in Writers : \A i \in Runs : Trims(hash, puts[w][i]) => Trims(hash', puts[w][i])
  <2>1. /\ Cardinality(Kept(hash')) <= Cardinality(Kept(hash)) /\ Cardinality(Kept(hash')) \in Nat
        /\ Cardinality(Kept(hash)) \in Nat /\ MaxCached \in Nat
        /\ \A ids : /\ Cardinality(Kept(hash') \ ids) <= Cardinality(Kept(hash) \ ids)
                    /\ Cardinality(Kept(hash') \ ids) \in Nat /\ Cardinality(Kept(hash) \ ids) \in Nat
    BY <1>b, SizeFacts, RunCacheAssumption
  <2>2. \A w \in Writers : \A i \in Runs : puts[w][i].excess \in Nat
    BY RunFacts DEF Write
  <2>3. ASSUME NEW w \in Writers, NEW i \in Runs, Trims(hash, puts[w][i]) PROVE Trims(hash', puts[w][i])
    <3>1. CASE puts[w][i].pc = "count"
      BY <3>1
    <3>2. CASE puts[w][i].pc = "range" /\ MaxCached + puts[w][i].excess >= Cardinality(Kept(hash))
      BY <2>1, <2>2, <3>2
    <3>3. CASE puts[w][i].pc = "evict" /\ Cardinality(Kept(hash) \ puts[w][i].ids) <= MaxCached
      <4>. DEFINE left == Cardinality(Kept(hash') \ puts[w][i].ids)
                  all == Cardinality(Kept(hash) \ puts[w][i].ids)
      <4>1. left <= all /\ left \in Nat /\ all \in Nat /\ all <= MaxCached /\ MaxCached \in Nat
        BY <2>1, <3>3
      <4>. HIDE DEF left, all
      <4>2. left <= MaxCached
        BY <4>1
      <4>. QED BY <3>3, <4>2 DEF left
    <3>. QED BY <2>3, <3>1, <3>2, <3>3
  <2>. QED BY <2>1, <2>3
(* A step that takes no write that trims away, and puts no row.              *)
<1>1. ASSUME Kept(hash') \subseteq Kept(hash), broken' = 0 => broken = 0,
             \A w \in Writers : \A i \in Runs : puts[w][i].pc = "none" \/ puts'[w][i] = puts[w][i]
      PROVE  TrimInv'
  <2>. SUFFICES ASSUME broken' = 0, Cardinality(Kept(hash')) > MaxCached
                PROVE  \E w \in Writers : \E i \in Runs : Trims(hash', puts'[w][i])
    BY <1>0
  <2>1. Cardinality(Kept(hash)) > MaxCached
    BY <1>1, <1>b
  <2>2. PICK w \in Writers, i \in Runs : Trims(hash, puts[w][i])
    BY <1>1, <1>a, <2>1
  <2>3. puts'[w][i] = puts[w][i]
    BY <1>1, <2>2
  <2>4. Trims(hash', puts[w][i])
    BY <1>1, <1>b, <2>2
  <2>. QED BY <2>3, <2>4
<1>2. ASSUME NEW w \in Writers, NEW i \in Runs, Report(w, i) PROVE TrimInv'
  <2>1. PICK row \in RunRow : \E to \in Write :
           /\ puts' = [puts EXCEPT ![w][i] = to] /\ UNCHANGED <<hash, broken>> /\ w \notin Writing
    BY <1>2, ReportFacts
  <2>2. \A v \in Writers : \A j \in Runs : puts[v][j].pc = "none" \/ puts'[v][j] = puts[v][j]
    BY <2>1, PutsFacts, RunFacts DEF Writing
  <2>. QED BY <1>1, <2>1, <2>2
<1>3. ASSUME NEW w \in Writers, NEW i \in Runs, Trimming(w, i) PROVE TrimInv'
  <2>. DEFINE o == puts[w][i]
  <2>1. PICK to \in Write :
           /\ puts' = [puts EXCEPT ![w][i] = to] /\ UNCHANGED broken
           /\ \/ o.pc = "check" /\ hash' = hash
              \/ o.pc = "put" /\ to.pc = "count"
              \/ o.pc = "count" /\ hash' = hash /\ to = NoWrite /\ Cardinality(Kept(hash)) <= MaxCached
              \/ /\ o.pc = "count" /\ hash' = hash
                 /\ to.pc = "range" /\ to.excess = Cardinality(Kept(hash)) - MaxCached
              \/ o.pc = "range" /\ hash' = hash /\ to.pc = "evict" /\ to.ids \in Oldest(o.excess)
              \/ o.pc = "evict" /\ hash' = Without(hash, o.ids)
    <3>. HIDE DEF o, Trims
    <3>. QED BY <1>3, TrimmingFacts DEF o
  <2>2. puts'[w][i] = to /\ \A v \in Writers : \A j \in Runs : v # w \/ j # i => puts'[v][j] = puts[v][j]
    <3>. HIDE DEF o, Trims
    <3>1. puts' = [puts EXCEPT ![w][i] = to]
      BY <2>1
    <3>. QED BY <3>1, PutsFacts, ZenonT(40)
  <2>3. Cardinality(Kept(hash)) \in Nat /\ MaxCached \in Nat /\ o.excess \in Nat
    BY SizeFacts, RunCacheAssumption, RunFacts DEF Write
  <2>4. CASE to.pc = "count"
    BY <1>0, <2>2, <2>4
  <2>5. CASE Kept(hash') \subseteq Kept(hash) /\ Cardinality(Kept(hash')) <= MaxCached
    BY <1>0, <2>5, SizeFacts, RunCacheAssumption
(* Who trims is another one, or goes on to.                                 *)
  <2>6. ASSUME Kept(hash') \subseteq Kept(hash), Trims(hash, o) => Trims(hash', to)
        PROVE  TrimInv'
    <3>. SUFFICES ASSUME broken' = 0, Cardinality(Kept(hash')) > MaxCached
                  PROVE  \E v \in Writers : \E j \in Runs : Trims(hash', puts'[v][j])
      BY <1>0
    <3>1. PICK v \in Writers, j \in Runs : Trims(hash, puts[v][j])
      BY <1>a, <1>b, <2>1, <2>6
    <3>2. CASE v = w /\ j = i
      <4>1. Trims(hash', puts'[w][i])
        BY <2>2, <2>6, <3>1, <3>2
      <4>. QED BY <4>1
    <3>3. CASE v # w \/ j # i
      <4>1. Trims(hash', puts[v][j]) /\ puts'[v][j] = puts[v][j]
        BY <1>b, <2>2, <2>6, <3>1, <3>3
      <4>. QED BY <4>1
    <3>. QED BY <3>2, <3>3
  <2>7. CASE o.pc = "check" /\ hash' = hash
    BY <2>6, <2>7
  <2>8. CASE o.pc = "count" /\ hash' = hash /\ to = NoWrite /\ Cardinality(Kept(hash)) <= MaxCached
    BY <2>5, <2>8
  <2>9. CASE /\ o.pc = "count" /\ hash' = hash
             /\ to.pc = "range" /\ to.excess = Cardinality(Kept(hash)) - MaxCached
    <3>1. MaxCached + to.excess >= Cardinality(Kept(hash))
      BY <2>3, <2>9
    <3>. QED BY <2>6, <2>9, <3>1
  <2>10. CASE o.pc = "range" /\ hash' = hash /\ to.pc = "evict" /\ to.ids \in Oldest(o.excess)
    <3>1. MaxCached + o.excess >= Cardinality(Kept(hash)) => Cardinality(Kept(hash) \ to.ids) <= MaxCached
      BY <2>3, <2>10, OldestFacts
    <3>. QED BY <2>6, <2>10, <3>1
  <2>11. CASE o.pc = "evict" /\ hash' = Without(hash, o.ids)
    <3>1. Kept(hash') = Kept(hash) \ o.ids
      BY <2>11, KeptFacts
    <3>2. CASE Cardinality(Kept(hash')) <= MaxCached
      BY <2>5, <3>1, <3>2
    <3>3. CASE ~(Cardinality(Kept(hash')) <= MaxCached)
      BY <2>6, <2>11, <3>1, <3>3
    <3>. QED BY <3>2, <3>3
  <2>. QED BY <2>1, <2>4, <2>7, <2>8, <2>9, <2>10, <2>11
<1>4. ASSUME NEW w \in Writers, Upsert(w) PROVE TrimInv'
  <2>1. UNCHANGED <<hash, puts, broken>>
    BY <1>4 DEF Upsert, redisRuns, past
  <2>. QED BY <1>1, <2>1
<1>5. ASSUME NEW w \in Writers, ListRuns(w) PROVE TrimInv'
  <2>1. PICK put \in [Runs -> Write] : puts' = [puts EXCEPT ![w] = put] /\ UNCHANGED <<hash, broken>> /\ w \notin Writing
    BY <1>5, ListFacts
  <2>2. \A v \in Writers : \A j \in Runs : puts[v][j].pc = "none" \/ puts'[v][j] = puts[v][j]
    BY <2>1, RunFacts DEF Writing
  <2>. QED BY <1>1, <2>1, <2>2
<1>6. ASSUME NEW w \in Writers, BreakWrite(w) PROVE TrimInv'
  BY <1>0, <1>6, BreakFacts
<1>7. ASSUME NEW s \in Sweepers, SweepStep(s) PROVE TrimInv'
  <2>1. UNCHANGED <<puts, broken>> /\ (UNCHANGED hash \/ hash' = Without(hash, sweeps[s].ids))
    BY <1>7, SweepFacts
  <2>2. Kept(hash') \subseteq Kept(hash)
    BY <2>1, KeptFacts
  <2>. QED BY <1>1, <2>1, <2>2
<1>8. ASSUME Pass PROVE TrimInv'
  BY <1>1, <1>8, PassFacts
<1>. QED BY <1>2, <1>3, <1>4, <1>5, <1>6, <1>7, <1>8 DEF RunStep, SweepStep

LEMMA ApartNext ==
  ASSUME RunTypeOK, ApartInv, RunStep, ~backed', ~mixed', broken' = 0
  PROVE  /\ Apart
         /\ \A w \in Writers : \A i \in Runs : Report(w, i) => Writing = {} /\ Sweeping = {}
         /\ \A s \in Sweepers : SweepStep(s) => Writing = {}
         /\ ~\E w \in Writers : Upsert(w) \/ ListRuns(w) \/ BreakWrite(w)
         /\ ApartInv'
<1>0. /\ Apart' => ~backed' /\ ~mixed' /\ broken' = 0
      /\ ApartInv' <=> (Apart' =>
           /\ \A w, v \in Writers : \A i, j \in Runs : puts'[w][i] # NoWrite /\ puts'[v][j] # NoWrite => w = v /\ i = j
           /\ \A s, t \in Sweepers : sweeps'[s] # NoSweep /\ sweeps'[t] # NoSweep => s = t
           /\ (\A w \in Writers : upserts'[w] = NoUpsert /\ \A i \in Runs : puts'[w][i] = NoWrite)
                \/ \A s \in Sweepers : sweeps'[s] = NoSweep
           /\ \A w \in Writers : upserts'[w] = NoUpsert)
  BY SMTT(30) DEF ApartInv, Apart, Writing, Sweeping, NoWrite, NoUpsert, NoSweep
<1>a. Apart =>
        /\ \A w, v \in Writers : \A i, j \in Runs : puts[w][i] # NoWrite /\ puts[v][j] # NoWrite => w = v /\ i = j
        /\ \A s, t \in Sweepers : sweeps[s] # NoSweep /\ sweeps[t] # NoSweep => s = t
        /\ (\A w \in Writers : \A i \in Runs : puts[w][i] = NoWrite) \/ \A s \in Sweepers : sweeps[s] = NoSweep
        /\ \A w \in Writers : upserts[w] = NoUpsert
  BY DEF ApartInv, Writing, Sweeping
<1>b. /\ Writing = {} <=> \A w \in Writers : upserts[w] = NoUpsert /\ \A i \in Runs : puts[w][i] = NoWrite
      /\ Sweeping = {} <=> \A s \in Sweepers : sweeps[s] = NoSweep
  BY DEF Writing, Sweeping
<1>1. ASSUME NEW w \in Writers, NEW i \in Runs, Report(w, i)
      PROVE  Apart /\ Writing = {} /\ Sweeping = {} /\ ApartInv'
  <2>1. PICK row \in RunRow : \E to \in Write :
           /\ puts' = [puts EXCEPT ![w][i] = to]
           /\ upserts' = IF backed THEN [upserts EXCEPT ![w] = [run |-> i, row |-> row]] ELSE upserts
           /\ UNCHANGED <<backed, sweeps, broken>>
           /\ mixed' = (mixed \/ (~backed /\ Writing \cup Sweeping # {}))
    BY <1>1, ReportFacts
  <2>2. PICK to \in Write : puts' = [puts EXCEPT ![w][i] = to]
    BY <2>1
  <2>3. Apart /\ Writing = {} /\ Sweeping = {}
    <3>1. UNCHANGED <<backed, broken>> /\ mixed' = (mixed \/ (~backed /\ Writing \cup Sweeping # {}))
      BY <2>1
    <3>2. ~backed /\ broken = 0
      BY <3>1
    <3>3. ~mixed /\ Writing \cup Sweeping = {}
      BY <3>1, <3>2
    <3>. QED BY <3>2, <3>3 DEF Apart
  <2>4. \A v \in Writers : \A j \in Runs : puts'[v][j] = NoWrite \/ (v = w /\ j = i)
    BY <1>b, <2>2, <2>3, PutsFacts
  <2>. QED BY <1>0, <1>b, <2>1, <2>3, <2>4
<1>2. ASSUME NEW w \in Writers, NEW i \in Runs, Trimming(w, i)
      PROVE  Apart /\ ApartInv'
  <2>1. PICK to \in Write :
           /\ puts' = [puts EXCEPT ![w][i] = to] /\ puts[w][i].pc \in {"check", "put", "count", "range", "evict"}
           /\ UNCHANGED <<backed, upserts, sweeps, mixed, broken>>
    BY <1>2, TrimmingFacts
  <2>2. Apart /\ puts[w][i] # NoWrite
    BY <2>1, RunFacts DEF Apart
  <2>3. \A v \in Writers : \A j \in Runs : puts'[v][j] = puts[v][j] \/ (v = w /\ j = i)
    <3>1. puts' = [puts EXCEPT ![w][i] = to]
      BY <2>1
    <3>. QED BY <3>1, PutsFacts
  <2>4. \A s \in Sweepers : sweeps[s] = NoSweep
    BY <1>a, <2>2
  <2>. QED BY <1>0, <1>a, <2>1, <2>2, <2>3, <2>4
<1>3. ASSUME NEW w \in Writers, Upsert(w) \/ ListRuns(w) \/ BreakWrite(w) PROVE FALSE
  <2>1. ~ListRuns(w) /\ ~BreakWrite(w)
    BY ListFacts, BreakFacts
  <2>2. Upsert(w) /\ upserts[w] # NoUpsert /\ UNCHANGED <<backed, mixed, broken>>
    BY <1>3, <2>1 DEF Upsert, past
  <2>. QED BY <1>a, <2>2 DEF Apart
<1>4. ASSUME NEW s \in Sweepers, SweepStep(s)
      PROVE  Apart /\ Writing = {} /\ ApartInv'
  <2>1. PICK to \in Sweep :
          /\ sweeps' = [sweeps EXCEPT ![s] = to]
          /\ UNCHANGED <<backed, puts, upserts, broken>>
          /\ \/ mixed' = mixed /\ sweeps[s].pc # "none"
             \/ mixed' = (mixed \/ (~backed /\ Writing \cup Sweeping # {}))
    BY <1>4, SweepFacts
  <2>2. Apart /\ (sweeps[s] # NoSweep \/ Writing \cup Sweeping = {})
    <3>1. /\ UNCHANGED <<backed, broken>>
          /\ (mixed' = mixed /\ sweeps[s].pc # "none") \/ mixed' = (mixed \/ (~backed /\ Writing \cup Sweeping # {}))
      BY <2>1
    <3>2. ~backed /\ broken = 0
      BY <3>1
    <3>3. ~mixed /\ (sweeps[s].pc # "none" \/ Writing \cup Sweeping = {})
      <4>1. CASE mixed' = mixed /\ sweeps[s].pc # "none"
        <5>1. ~mixed
          BY <4>1
        <5>. QED BY <4>1, <5>1
      <4>2. CASE mixed' = (mixed \/ (~backed /\ Writing \cup Sweeping # {}))
        BY <3>2, <4>2
      <4>. QED BY <3>1, <4>1, <4>2
    <3>4. sweeps[s].pc # "none" => sweeps[s] # NoSweep
      BY RunFacts
    <3>. QED BY <3>2, <3>3, <3>4 DEF Apart
  <2>3. \A t \in Sweepers \ {s} : sweeps'[t] = NoSweep
    BY <1>a, <1>b, <2>1, <2>2, RunFacts
  <2>4. Writing = {}
    BY <1>a, <1>b, <2>2
  <2>. QED BY <1>0, <1>b, <2>1, <2>2, <2>3, <2>4
<1>5. ASSUME Pass PROVE Apart /\ ApartInv'
  BY <1>0, <1>a, <1>5, PassFacts DEF Apart
<1>. QED BY <1>1, <1>2, <1>3, <1>4, <1>5 DEF RunStep, SweepStep

LEMMA SubsetSize ==
  ASSUME NEW S \in SUBSET Runs, NEW T \in SUBSET Runs, S \subseteq T
  PROVE  Cardinality(S) \in Nat /\ Cardinality(T) \in Nat /\ Cardinality(S) <= Cardinality(T)
<1>1. IsFiniteSet(S) /\ IsFiniteSet(T)
  BY FS_Subset, RunCacheAssumption
<1>. QED BY <1>1, FS_Subset, FS_CardinalityType

(* A hash that is trimmed keeps what has been touched later; nothing else    *)
(* that a step does makes it know less.                                    *)
LEMMA HashNext ==
  ASSUME RunInv, RunStep
  PROVE  HashInv'
<1>. SUFFICES ASSUME Apart' PROVE HashInv'
  BY DEF HashInv
<1>. DEFINE Gone(h, t, n, j) == t[j].status = "ended" /\ t[j].at < n /\ (j \in Kept(h) => h[j].status = "queued")
            Newer(t, tc, j) == {k \in Kept(t) \ {j} : tc[k] >= t[j].at}
            Full(h, t, tc, j) == (j \in Kept(h) => h[j].status = "queued") /\ Cardinality(Newer(t, tc, j)) >= MaxCached
            Knows(h, t, tc, n, j) == h[j] = t[j] \/ Gone(h, t, n, j) \/ Full(h, t, tc, j)
            Comes(p, t, j) == \E w \in Writers : p[w][j].pc \in {"check", "put"} /\ p[w][j].row = t[j]
            Says(t, r, j) == r \in RunRow /\ t[j] # NoRun /\ (r = t[j] \/ (r.status = "queued" /\ t[j].status = "ended"))
            WriteOK(h, t, o, j) ==
              /\ o.pc \in {"check", "put"} => Says(t, o.row, j)
              /\ o.pc = "put" /\ o.row.status = "queued" /\ j \in Kept(h) => h[j].status # "ended"
              /\ o.pc = "range" => MaxCached + o.excess = Cardinality(Kept(h))
              /\ o.pc = "evict" =>
                   /\ o.ids \subseteq Kept(h) /\ Cardinality(Kept(h) \ o.ids) = MaxCached
                   /\ \A k \in o.ids : \A j2 \in Kept(h) \ o.ids : h[k].at <= h[j2].at
            SweepOK(h, u) == u.pc = "evict" =>
              \A i \in u.ids \cap Kept(h) : h[i].status = "ended" /\ h[i].at < u.cutoff
<1>T. RunTypeOK /\ ApartInv /\ OriginInv /\ PutInv /\ TimeInv
  BY DEF RunInv
<1>A. ~backed' /\ ~mixed' /\ broken' = 0
  BY DEF Apart
<1>B. /\ Apart
      /\ \A w \in Writers : \A i \in Runs : Report(w, i) => Writing = {} /\ Sweeping = {}
      /\ \A s \in Sweepers : SweepStep(s) => Writing = {}
      /\ ~\E w \in Writers : Upsert(w) \/ ListRuns(w) \/ BreakWrite(w)
  BY <1>T, <1>A, ApartNext
<1>C. ~backed
  BY <1>B DEF Apart
<1>0. ASSUME \A j \in Kept(truth') : Knows(hash', truth', touched', clock', j) \/ Comes(puts', truth', j),
             \A w \in Writers : \A j \in Runs : WriteOK(hash', truth', puts'[w][j], j),
             \A s \in Sweepers : SweepOK(hash', sweeps'[s])
      PROVE  HashInv'
  BY <1>0 DEF HashInv, TellsOn, WritesOn, SweepsOn, Forgotten, Crowded, Later, Tells, ShouldPrune
<1>a. /\ \A j \in Kept(truth) : Knows(hash, truth, touched, clock, j) \/ Comes(puts, truth, j)
      /\ \A w \in Writers : \A j \in Runs : WriteOK(hash, truth, puts[w][j], j)
      /\ \A s \in Sweepers : SweepOK(hash, sweeps[s])
  BY <1>B DEF RunInv, HashInv, TellsOn, WritesOn, SweepsOn, Forgotten, Crowded, Later, Tells, ShouldPrune
<1>b. \A kept, j : j \in Kept(kept) <=> j \in Runs /\ kept[j] # NoRun
  BY DEF Kept
<1>c. \A p, t, j : (\A w \in Writers : p[w][j].pc \notin {"check", "put"}) => ~Comes(p, t, j)
  OBVIOUS
<1>h. ASSUME NEW j \in Runs, \A w \in Writers : \A k \in Runs : puts[w][k] = NoWrite
      PROVE  ~Comes(puts, truth, j)
  <2>1. \A w \in Writers : puts[w][j].pc \notin {"check", "put"}
    BY <1>h DEF NoWrite
  <2>. QED BY <1>c, <2>1
<1>d. \A h, t, j : WriteOK(h, t, NoWrite, j)
  BY DEF NoWrite
<1>e. \A h : SweepOK(h, NoSweep)
  BY DEF NoSweep
(* What is later than a run only grows.                                     *)
<1>f. ASSUME NEW t, NEW tc, NEW j
      PROVE  Newer(t, tc, j) \in SUBSET Runs
  BY DEF Kept
<1>g. ASSUME NEW j \in Runs, NEW t, NEW tc, t[j] = truth[j], Kept(truth) \subseteq Kept(t),
             \A k \in Kept(truth) : tc[k] \in Nat /\ touched[k] <= tc[k], truth[j] # NoRun
      PROVE  Cardinality(Newer(truth, touched, j)) >= MaxCached => Cardinality(Newer(t, tc, j)) >= MaxCached
  <2>1. \A k \in Kept(truth) : touched[k] \in Nat
    BY <1>T, <1>b, RunFacts
  <2>2. truth[j].at \in Nat
    BY <1>T, <1>g, RunFacts
  <2>3. Newer(truth, touched, j) \subseteq Newer(t, tc, j)
    BY <1>g, <2>1, <2>2
  <2>. HIDE DEF Newer
  <2>4. /\ Cardinality(Newer(truth, touched, j)) <= Cardinality(Newer(t, tc, j))
        /\ Cardinality(Newer(truth, touched, j)) \in Nat /\ Cardinality(Newer(t, tc, j)) \in Nat
    BY <1>f, <2>3, SubsetSize
  <2>5. MaxCached \in Nat
    BY RunCacheAssumption
  <2>. QED BY <2>4, <2>5
<1>1. ASSUME NEW w \in Writers, NEW i \in Runs, Report(w, i) PROVE HashInv'
  <2>1. PICK row \in RunRow : \E to \in Write :
           /\ row.at = clock /\ to.row = row /\ to.pc \in {"check", "put"}
           /\ (row.status = "queued" <=> to.pc = "check")
           /\ \/ /\ truth' = [truth EXCEPT ![i] = row] /\ (row.status = "queued" => truth[i] = NoRun)
              \/ truth' = truth /\ row.status = "queued" /\ truth[i] # NoRun /\ truth[i].status = "ended"
           /\ touched' = [touched EXCEPT ![i] = IF backed THEN 0 ELSE clock]
           /\ puts' = [puts EXCEPT ![w][i] = to]
           /\ UNCHANGED <<hash, sweeps, clock>>
    BY <1>1, <1>T, ReportFacts
  <2>2. PICK to \in Write :
           /\ to.row = row /\ to.pc \in {"check", "put"} /\ (row.status = "queued" <=> to.pc = "check")
           /\ puts' = [puts EXCEPT ![w][i] = to]
    BY <2>1
  <2>3. /\ \A v \in Writers : \A j \in Runs : puts[v][j] = NoWrite
        /\ \A s \in Sweepers : sweeps[s] = NoSweep
    BY <1>1, <1>B DEF Writing, Sweeping
  <2>4. /\ puts'[w][i] = to
        /\ \A v \in Writers : \A j \in Runs : v # w \/ j # i => puts'[v][j] = NoWrite
    <3>1. RunTypeOK /\ puts' = [puts EXCEPT ![w][i] = to]
      BY <1>T, <2>2
    <3>2. puts'[w][i] = to /\ \A v \in Writers : \A j \in Runs : v # w \/ j # i => puts'[v][j] = puts[v][j]
      BY <3>1, PutsFacts, ZenonT(40)
    <3>. QED BY <2>3, <3>2
  <2>5. Says(truth', row, i)
    <3>1. CASE truth' = truth /\ row.status = "queued" /\ truth[i] # NoRun /\ truth[i].status = "ended"
      BY <3>1
    <3>2. CASE truth' = [truth EXCEPT ![i] = row]
      BY <1>T, <3>2, RunFacts
    <3>. QED BY <2>1, <3>1, <3>2
  <2>6. \A v \in Writers : \A j \in Runs : WriteOK(hash', truth', puts'[v][j], j)
    <3>1. WriteOK(hash', truth', to, i)
      BY <2>2, <2>5
    <3>. HIDE DEF WriteOK
    <3>. QED BY <1>d, <2>4, <3>1
  <2>7. \A s \in Sweepers : SweepOK(hash', sweeps'[s])
    BY <1>e, <2>1, <2>3
  <2>8. ASSUME NEW j \in Kept(truth'), truth'[j] = truth[j] PROVE Knows(hash', truth', touched', clock', j)
    <3>1. j \in Runs /\ j \in Kept(truth) /\ truth[j] # NoRun
      BY <1>b, <2>8
    <3>2. Knows(hash, truth, touched, clock, j)
      <4>1. ~Comes(puts, truth, j)
        BY <1>h, <2>3, <3>1
      <4>. HIDE DEF Knows, Comes
      <4>. QED BY <1>a, <3>1, <4>1
    <3>3. \A k \in Kept(truth) : touched'[k] \in Nat /\ touched[k] <= touched'[k]
      <4>1. ASSUME NEW k \in Kept(truth) PROVE touched'[k] \in Nat /\ touched[k] <= touched'[k]
        <5>1. k \in Runs /\ touched[k] \in Nat /\ touched[k] <= clock /\ clock \in Nat
          BY <1>T, <1>b, RunFacts DEF TimeInv
        <5>2. touched'[k] = touched[k] \/ touched'[k] = clock
          BY <1>C, <1>T, <2>1, <5>1, RunFacts
        <5>. QED BY <5>1, <5>2
      <4>. QED BY <4>1
    <3>4. Kept(truth) \subseteq Kept(truth')
      BY <1>T, <1>b, <2>1, RunFacts
    <3>5. Cardinality(Newer(truth, touched, j)) >= MaxCached => Cardinality(Newer(truth', touched', j)) >= MaxCached
      <4>. HIDE DEF Newer
      <4>. QED BY <1>g, <2>8, <3>1, <3>3, <3>4
    <3>. HIDE DEF Newer
    <3>. QED BY <2>1, <2>8, <3>2, <3>5
  <2>9. ASSUME NEW j \in Kept(truth'), truth'[j] # truth[j] PROVE Comes(puts', truth', j)
    <3>1. j = i /\ truth'[i] = row
      BY <1>T, <1>b, <2>1, <2>9, RunFacts
    <3>. QED BY <2>2, <2>4, <3>1
  <2>. HIDE DEF Knows, Comes, WriteOK, SweepOK
  <2>. QED BY <1>0, <2>6, <2>7, <2>8, <2>9
<1>2. ASSUME NEW w \in Writers, NEW i \in Runs, Trimming(w, i) PROVE HashInv'
  <2>. DEFINE o == puts[w][i]
  <2>1. PICK to \in Write :
           /\ puts' = [puts EXCEPT ![w][i] = to] /\ o.pc \in {"check", "put", "count", "range", "evict"}
           /\ UNCHANGED <<sweeps, clock, truth, touched>>
           /\ \/ o.pc = "check" /\ to = NoWrite /\ hash' = hash /\ i \in Kept(hash) /\ hash[i].status = "ended"
              \/ /\ o.pc = "check" /\ hash' = hash /\ ~(i \in Kept(hash) /\ hash[i].status = "ended")
                 /\ to.pc = "put" /\ to.row = o.row
              \/ o.pc = "put" /\ hash' = [hash EXCEPT ![i] = o.row] /\ to.pc = "count"
              \/ o.pc = "count" /\ hash' = hash /\ to = NoWrite
              \/ /\ o.pc = "count" /\ hash' = hash /\ Cardinality(Kept(hash)) > MaxCached
                 /\ to.pc = "range" /\ to.excess = Cardinality(Kept(hash)) - MaxCached
              \/ o.pc = "range" /\ hash' = hash /\ to.pc = "evict" /\ to.ids \in Oldest(o.excess)
              \/ o.pc = "evict" /\ hash' = Without(hash, o.ids) /\ to = NoWrite
    <3>. HIDE DEF o
    <3>. QED BY <1>2, <1>T, TrimmingFacts DEF o
  <2>2. o # NoWrite /\ o \in Write
    BY <1>T, <2>1, RunFacts
  <2>3. /\ puts'[w][i] = to
        /\ \A v \in Writers : \A j \in Runs : v # w \/ j # i => puts'[v][j] = puts[v][j]
    <3>1. RunTypeOK /\ puts' = [puts EXCEPT ![w][i] = to]
      BY <1>T, <2>1
    <3>. QED BY <3>1, PutsFacts, ZenonT(40)
  <2>4. \A v \in Writers : \A j \in Runs : v # w \/ j # i => puts[v][j] = NoWrite
    BY <1>B, <1>T, <2>2 DEF ApartInv
  <2>5. \A s \in Sweepers : sweeps[s] = NoSweep
    BY <1>B, <1>T, <2>2 DEF ApartInv, Writing, Sweeping
  <2>6. \A s \in Sweepers : SweepOK(hash', sweeps'[s])
    BY <1>e, <2>1, <2>5
  <2>7. WriteOK(hash', truth', to, i) => \A v \in Writers : \A j \in Runs : WriteOK(hash', truth', puts'[v][j], j)
    <3>. HIDE DEF WriteOK
    <3>. QED BY <1>d, <2>3, <2>4
(* What the write tells of its run, and of no other.                        *)
  <2>8. \A j \in Kept(truth) : Comes(puts, truth, j) => j = i /\ o.pc \in {"check", "put"} /\ o.row = truth[i]
    <3>1. ASSUME NEW j \in Kept(truth), Comes(puts, truth, j)
          PROVE  j = i /\ o.pc \in {"check", "put"} /\ o.row = truth[i]
      <4>1. PICK v \in Writers : puts[v][j].pc \in {"check", "put"} /\ puts[v][j].row = truth[j]
        BY <3>1
      <4>2. j \in Runs /\ puts[v][j] # NoWrite
        BY <1>b, <4>1 DEF NoWrite
      <4>3. v = w /\ j = i
        BY <2>4, <4>2
      <4>. QED BY <4>1, <4>3
    <3>. HIDE DEF Comes
    <3>. QED BY <3>1
  <2>9. WriteOK(hash, truth, o, i)
    <3>. HIDE DEF WriteOK
    <3>. QED BY <1>a
  <2>10. ASSUME WriteOK(hash', truth, to, i),
                \A j \in Kept(truth) : Knows(hash', truth, touched, clock, j) \/ Comes(puts', truth, j)
         PROVE  HashInv'
    <3>. HIDE DEF Knows, Comes, WriteOK, SweepOK
    <3>. QED BY <1>0, <2>1, <2>6, <2>7, <2>10
  <2>11. ASSUME o.pc \notin {"check", "put"}, NEW j \in Kept(truth) PROVE Knows(hash, truth, touched, clock, j)
    <3>. HIDE DEF Knows, Comes
    <3>. QED BY <1>a, <2>8, <2>11
  <2>12. CASE o.pc = "check" /\ to = NoWrite /\ hash' = hash /\ i \in Kept(hash) /\ hash[i].status = "ended"
    <3>1. i \in Kept(truth) => o.row # truth[i]
      <4>1. o.row.status = "queued"
        BY <1>T, <2>12 DEF PutInv
      <4>2. i \in Kept(truth) => truth[i].status # "queued"
        BY <1>T, <1>b, <2>12 DEF OriginInv, Grounded
      <4>. QED BY <4>1, <4>2
    <3>2. \A j \in Kept(truth) : Knows(hash, truth, touched, clock, j)
      <4>. HIDE DEF Knows, Comes
      <4>. QED BY <1>a, <2>8, <3>1
    <3>. HIDE DEF Knows, Comes, WriteOK
    <3>. QED BY <1>d, <2>10, <2>12, <3>2
  <2>13. CASE /\ o.pc = "check" /\ hash' = hash /\ ~(i \in Kept(hash) /\ hash[i].status = "ended")
              /\ to.pc = "put" /\ to.row = o.row
    <3>1. WriteOK(hash, truth, to, i)
      BY <2>9, <2>13
    <3>2. \A j \in Kept(truth) : Comes(puts, truth, j) => Comes(puts', truth, j)
      <4>1. ASSUME NEW j \in Kept(truth), Comes(puts, truth, j) PROVE Comes(puts', truth, j)
        <5>1. j = i /\ puts'[w][j].pc = "put" /\ puts'[w][j].row = truth[j]
          <6>. HIDE DEF Comes
          <6>. QED BY <2>3, <2>8, <2>13, <4>1
        <5>. QED BY <5>1
      <4>. HIDE DEF Comes
      <4>. QED BY <4>1
    <3>. HIDE DEF Knows, Comes, WriteOK
    <3>. QED BY <1>a, <2>10, <2>13, <3>1, <3>2
  <2>14. CASE o.pc = "put" /\ hash' = [hash EXCEPT ![i] = o.row] /\ to.pc = "count"
    <3>1. Says(truth, o.row, i) /\ (o.row.status = "queued" /\ i \in Kept(hash) => hash[i].status # "ended")
      BY <2>9, <2>14
    <3>2. hash'[i] = o.row /\ \A j \in Runs \ {i} : hash'[j] = hash[j]
      BY <1>T, <2>14, RunFacts
    <3>3. WriteOK(hash', truth, to, i)
      BY <2>14
    <3>4. ASSUME NEW j \in Kept(truth) PROVE Knows(hash', truth, touched, clock, j)
      <4>. HIDE DEF Newer
      <4>1. CASE j # i
        <5>1. j \in Runs /\ Knows(hash, truth, touched, clock, j)
          <6>. HIDE DEF Knows, Comes
          <6>. QED BY <1>a, <1>b, <2>8, <4>1
        <5>2. hash'[j] = hash[j] /\ (j \in Kept(hash') <=> j \in Kept(hash))
          BY <1>b, <3>2, <4>1, <5>1
        <5>. QED BY <5>1, <5>2
      <4>2. CASE j = i /\ o.row = truth[i]
        BY <3>2, <4>2
      <4>3. CASE j = i /\ o.row # truth[i]
        <5>1. o.row.status = "queued" /\ truth[i].status = "ended" /\ hash[i] # truth[i]
          BY <1>b, <3>1, <4>3
        <5>2. Knows(hash, truth, touched, clock, i)
          <6>. HIDE DEF Knows, Comes
          <6>. QED BY <1>a, <2>8, <4>3
        <5>. QED BY <3>2, <4>3, <5>1, <5>2
      <4>. QED BY <4>1, <4>2, <4>3
    <3>. HIDE DEF Knows, Comes, WriteOK
    <3>. QED BY <2>10, <3>3, <3>4
  <2>15. CASE o.pc = "count" /\ hash' = hash /\ to = NoWrite
    <3>. HIDE DEF Knows, Comes, WriteOK
    <3>. QED BY <1>d, <2>10, <2>11, <2>15
  <2>16. CASE /\ o.pc = "count" /\ hash' = hash /\ Cardinality(Kept(hash)) > MaxCached
              /\ to.pc = "range" /\ to.excess = Cardinality(Kept(hash)) - MaxCached
    <3>1. MaxCached + to.excess = Cardinality(Kept(hash))
      BY <2>16, SizeFacts, RunCacheAssumption
    <3>2. WriteOK(hash', truth, to, i)
      BY <2>16, <3>1
    <3>. HIDE DEF Knows, Comes, WriteOK
    <3>. QED BY <2>10, <2>11, <2>16, <3>2
  <2>17. CASE o.pc = "range" /\ hash' = hash /\ to.pc = "evict" /\ to.ids \in Oldest(o.excess)
    <3>1. o.excess \in Nat /\ MaxCached + o.excess = Cardinality(Kept(hash))
      BY <2>2, <2>9, <2>17 DEF Write
    <3>2. /\ to.ids \subseteq Kept(hash) /\ Cardinality(Kept(hash) \ to.ids) = MaxCached
          /\ \A k \in to.ids : \A j \in Kept(hash) \ to.ids : hash[k].at <= hash[j].at
      BY <1>T, <2>17, <3>1, OldestFacts
    <3>3. WriteOK(hash', truth, to, i)
      BY <2>17, <3>2
    <3>. HIDE DEF Knows, Comes, WriteOK
    <3>. QED BY <2>10, <2>11, <2>17, <3>3
  <2>18. CASE o.pc = "evict" /\ hash' = Without(hash, o.ids) /\ to = NoWrite
    <3>1. /\ o.ids \subseteq Kept(hash) /\ Cardinality(Kept(hash) \ o.ids) = MaxCached
          /\ \A k \in o.ids : \A j \in Kept(hash) \ o.ids : hash[k].at <= hash[j].at
      BY <2>9, <2>18
    <3>2. ASSUME NEW j \in Kept(truth) PROVE Knows(hash', truth, touched, clock, j)
      <4>1. j \in Runs /\ Knows(hash, truth, touched, clock, j)
        <5>. HIDE DEF Knows
        <5>. QED BY <1>b, <2>11, <2>18
      <4>2. CASE j \notin o.ids
        <5>. HIDE DEF Newer
        <5>1. hash'[j] = hash[j] /\ (j \in Kept(hash') <=> j \in Kept(hash))
          BY <1>b, <2>18, <4>1, <4>2 DEF Without
        <5>. QED BY <4>1, <5>1
      <4>3. CASE j \in o.ids
        <5>1. j \notin Kept(hash') /\ hash[j] # NoRun
          BY <1>b, <2>18, <3>1, <4>3 DEF Without
        <5>2. CASE hash[j] = truth[j]
          <6>1. ASSUME NEW k \in Kept(hash) \ o.ids PROVE k \in Newer(truth, touched, j)
            <7>1. k \in Runs /\ hash[k] # NoRun /\ k # j
              BY <1>b, <4>3, <6>1
            <7>2. k \in Kept(truth)
              BY <1>T, <1>b, <7>1 DEF OriginInv, Grounded
            <7>3. hash[j].at <= hash[k].at /\ hash[k].at <= touched[k]
              BY <1>T, <1>C, <3>1, <4>3, <6>1, <7>1 DEF TimeInv
            <7>4. hash[j].at \in Nat /\ hash[k].at \in Nat /\ touched[k] \in Nat
              BY <1>T, <4>1, <5>1, <7>1, RunFacts
            <7>5. touched[k] >= truth[j].at
              BY <5>2, <7>3, <7>4
            <7>. QED BY <7>1, <7>2, <7>5
          <6>2. Kept(hash) \ o.ids \in SUBSET Runs /\ Newer(truth, touched, j) \in SUBSET Runs
            BY <1>b
          <6>. HIDE DEF Newer
          <6>3. Kept(hash) \ o.ids \subseteq Newer(truth, touched, j)
            BY <6>1
          <6>4. Cardinality(Newer(truth, touched, j)) >= MaxCached
            BY <3>1, <6>2, <6>3, SubsetSize, RunCacheAssumption
          <6>. QED BY <5>1, <6>4
        <5>3. CASE hash[j] # truth[j]
          <6>. HIDE DEF Newer
          <6>. QED BY <4>1, <5>1, <5>3
        <5>. QED BY <5>2, <5>3
      <4>. QED BY <4>2, <4>3
    <3>. HIDE DEF Knows, Comes, WriteOK
    <3>. QED BY <1>d, <2>10, <2>18, <3>2
  <2>. HIDE DEF o
  <2>. QED BY <2>1, <2>12, <2>13, <2>14, <2>15, <2>16, <2>17, <2>18
<1>3. ASSUME NEW s \in Sweepers, SweepStep(s) PROVE HashInv'
  <2>1. PICK to \in Sweep :
          /\ sweeps' = [sweeps EXCEPT ![s] = to]
          /\ UNCHANGED <<puts, clock, truth, touched>>
          /\ \/ UNCHANGED hash
             \/ sweeps[s].pc = "evict" /\ hash' = Without(hash, sweeps[s].ids) /\ to.pc # "evict"
          /\ to.pc = "evict" =>
                /\ to.cutoff = sweeps[s].cutoff /\ hash' = hash
                /\ \A i \in to.ids \cap Kept(hash) : ShouldPrune(hash[i], sweeps[s].cutoff)
    BY <1>3, <1>T, SweepFacts
  <2>2. sweeps'[s] = to /\ \A r \in Sweepers \ {s} : sweeps'[r] = sweeps[r]
    BY <1>T, <2>1, RunFacts
  <2>3. \A v \in Writers : \A j \in Runs : puts'[v][j] = NoWrite
    BY <1>3, <1>B, <2>1 DEF Writing
  <2>4. /\ \A j \in Kept(hash') : j \in Kept(hash) /\ hash'[j] = hash[j]
        /\ \A j \in Runs : hash'[j] # hash[j] => /\ sweeps[s].pc = "evict" /\ j \in sweeps[s].ids /\ j \in Kept(hash)
                                                /\ j \notin Kept(hash')
    BY <1>b, <2>1 DEF Without
  <2>5. \A v \in Writers : \A j \in Runs : WriteOK(hash', truth', puts'[v][j], j)
    <3>. HIDE DEF WriteOK
    <3>. QED BY <1>d, <2>3
  <2>6. \A r \in Sweepers : SweepOK(hash', sweeps'[r])
    <3>1. SweepOK(hash', to)
      BY <2>1, <2>2 DEF ShouldPrune
    <3>2. \A r \in Sweepers : SweepOK(hash, sweeps[r]) => SweepOK(hash', sweeps[r])
      BY <2>4
    <3>. HIDE DEF SweepOK
    <3>. QED BY <1>a, <2>2, <3>1, <3>2
  <2>7. ASSUME NEW j \in Kept(truth) PROVE Knows(hash', truth, touched, clock, j)
    <3>0. ~Comes(puts, truth, j) /\ j \in Runs
      BY <1>b, <1>h, <2>1, <2>3
    <3>1. j \in Runs /\ Knows(hash, truth, touched, clock, j)
      <4>. HIDE DEF Knows, Comes
      <4>. QED BY <1>a, <3>0
    <3>. HIDE DEF Newer
    <3>2. CASE hash'[j] = hash[j]
      BY <2>4, <3>1, <3>2
    <3>3. CASE hash'[j] # hash[j]
      <4>1. hash[j].status = "ended" /\ hash[j].at < sweeps[s].cutoff /\ j \notin Kept(hash')
        BY <1>a, <2>4, <3>1, <3>3
      <4>2. hash[j].at \in Nat /\ sweeps[s].cutoff \in Nat /\ clock \in Nat /\ sweeps[s].cutoff <= clock
        BY <1>T, <1>b, <2>4, <3>1, <3>3, RunFacts DEF TimeInv
      <4>3. hash[j].at < clock
        BY <4>1, <4>2
      <4>. QED BY <3>1, <4>1, <4>3
    <3>. QED BY <3>2, <3>3
  <2>. HIDE DEF Knows, Comes, WriteOK, SweepOK
  <2>. QED BY <1>0, <2>1, <2>5, <2>6, <2>7
<1>4. ASSUME Pass PROVE HashInv'
  <2>1. /\ clock' > clock /\ clock \in Nat /\ clock' \in Nat /\ UNCHANGED <<hash, puts, sweeps, truth, touched>>
    BY <1>4, <1>T, PassFacts, RunFacts
  <2>2. \A j \in Kept(truth) : truth[j].at \in Nat
    BY <1>T, <1>b, RunFacts
  <2>. HIDE DEF Newer
  <2>3. \A j \in Kept(truth) : Gone(hash, truth, clock, j) => Gone(hash, truth, clock', j)
    BY <2>1, <2>2
  <2>. HIDE DEF Gone
  <2>4. \A j \in Kept(truth) : Knows(hash, truth, touched, clock, j) => Knows(hash, truth, touched, clock', j)
    BY <2>3
  <2>. HIDE DEF Knows, Comes, WriteOK, SweepOK
  <2>. QED BY <1>0, <1>a, <2>1, <2>4
<1>. QED BY <1>1, <1>2, <1>3, <1>4, <1>B DEF RunStep, SweepStep

LEMMA RunInvNext ==
  ASSUME RunInv, RunStep
  PROVE  RunInv'
<1>1. /\ RunTypeOK /\ OriginInv /\ PutInv /\ UpsertInv /\ TableInv /\ TimeInv /\ TrimInv /\ ApartInv /\ HashInv
  BY DEF RunInv
<1>2. ApartInv'
  <2>1. CASE ~backed' /\ ~mixed' /\ broken' = 0
    BY <1>1, <2>1, ApartNext
  <2>2. CASE ~(~backed' /\ ~mixed' /\ broken' = 0)
    BY <2>2 DEF ApartInv, Apart
  <2>. QED BY <2>1, <2>2
<1>. QED BY <1>1, <1>2, RunTypeNext, OriginNext, PutNext, UpsertNext, TableNext, TimeNext, TrimNext, HashNext
         DEF RunInv

(* The runs, and what their steps rely on; the steps of the other parts      *)
(* leave both alone.                                                       *)
THEOREM RunInvCorrect == Spec => []RunInv
<1>1. Init => RunInv
  <2>. SUFFICES ASSUME RunCacheInit PROVE RunInv
    BY DEF Init
  <2>1. /\ truth \in [Runs -> {NoRun, [status |-> "ended", at |-> 0]}] /\ Cardinality(Kept(truth)) <= MaxCached
        /\ table = [i \in Runs |-> IF backed THEN truth[i] ELSE NoRun]
        /\ hash = [i \in Runs |-> IF backed THEN NoRun ELSE truth[i]]
        /\ puts = [w \in Writers |-> [i \in Runs |-> NoWrite]] /\ upserts = [w \in Writers |-> NoUpsert]
        /\ sweeps = [s \in Sweepers |-> NoSweep] /\ lock = {} /\ touched = [i \in Runs |-> 0]
        /\ clock = 0 /\ lost = {} /\ writes = 0 /\ broken = 0 /\ backed \in BOOLEAN /\ mixed \in BOOLEAN
    BY DEF RunCacheInit
  <2>2. /\ MaxTime \in Nat /\ MaxWrites \in Nat /\ MaxBroken \in Nat /\ MaxCached \in Nat
        /\ [status |-> "ended", at |-> 0] \in RunRow
    BY RunCacheAssumption DEF RunRow
  <2>3. NoWrite \in Write /\ NoSweep \in Sweep /\ NoUpsert \in [run : Runs \cup {NoRun}, row : RunRow \cup {NoRun}]
    BY <2>2 DEF NoWrite, Write, NoSweep, Sweep, NoUpsert
  <2>4. RunTypeOK
    <3>1. table \in [Runs -> RunRow \cup {NoRun}] /\ hash \in [Runs -> RunRow \cup {NoRun}]
          /\ truth \in [Runs -> RunRow \cup {NoRun}]
      BY <2>1, <2>2
    <3>2. touched \in [Runs -> 0 .. MaxTime] /\ clock \in 0 .. MaxTime /\ writes \in 0 .. MaxWrites
          /\ broken \in 0 .. MaxBroken
      BY <2>1, <2>2
    <3>. QED BY <2>1, <2>3, <3>1, <3>2 DEF RunTypeOK
  <2>5. OriginInv
    BY <2>1 DEF OriginInv, Grounded, NoWrite
  <2>6. PutInv
    BY <2>1 DEF PutInv, NoWrite
  <2>7. UpsertInv
    BY <2>1 DEF UpsertInv
  <2>8. TableInv
    BY <2>1 DEF TableInv, Kept
  <2>9. TimeInv
    <3>1. (\A s \in Sweepers : sweeps[s].cutoff = 0) /\ \A w \in Writers : \A i \in Runs : puts[w][i].row = NoRun
      BY <2>1 DEF NoSweep, NoWrite
    <3>2. ASSUME ~backed, NEW i \in Runs, hash[i] # NoRun PROVE hash[i].at = 0
      BY <2>1, <3>2
    <3>. QED BY <2>1, <3>1, <3>2 DEF TimeInv
  <2>10. TrimInv
    <3>1. Kept(hash) \subseteq Kept(truth)
      BY <2>1 DEF Kept
    <3>2. /\ Cardinality(Kept(hash)) <= Cardinality(Kept(truth)) /\ Cardinality(Kept(truth)) <= MaxCached
          /\ Cardinality(Kept(hash)) \in Nat /\ Cardinality(Kept(truth)) \in Nat
      BY <2>1, <3>1, SizeFacts
    <3>3. Cardinality(Kept(hash)) <= MaxCached
      BY <2>2, <3>2
    <3>4. ~(Cardinality(Kept(hash)) > MaxCached)
      BY <2>2, <3>2
    <3>. QED BY <3>4 DEF TrimInv
  <2>11. ApartInv
    BY <2>1 DEF ApartInv, Sweeping
  <2>12. HashInv
    <3>1. Apart => \A i \in Kept(truth) : hash[i] = truth[i]
      BY <2>1 DEF Apart, Kept
    <3>2. (\A w \in Writers : \A i \in Runs : puts[w][i].pc = "none") /\ \A s \in Sweepers : sweeps[s].pc = "none"
      BY <2>1 DEF NoWrite, NoSweep
    <3>. QED BY <3>1, <3>2 DEF HashInv, TellsOn, WritesOn, SweepsOn
  <2>. QED BY <2>4, <2>5, <2>6, <2>7, <2>8, <2>9, <2>10, <2>11, <2>12 DEF RunInv
<1>2. RunInv /\ [Next]_vars => RunInv'
  <2>. SUFFICES ASSUME RunInv, [Next]_vars PROVE RunInv'
    OBVIOUS
  <2>1. CASE RunStep
    BY <2>1, RunInvNext
  <2>2. CASE UNCHANGED runVars
    <3>1. UNCHANGED <<backed, table, hash, puts, upserts, sweeps, lock, clock, truth, touched, lost, mixed, writes, broken>>
      BY <2>2 DEF runVars
    <3>2. RunTypeOK' /\ OriginInv' /\ PutInv' /\ TimeInv'
      BY <3>1 DEF RunInv, RunTypeOK, OriginInv, Grounded, PutInv, TimeInv
    <3>3. UpsertInv' /\ TableInv'
      BY <3>1 DEF RunInv, UpsertInv, Tells, NoUpsert, TableInv, Forgotten, Kept
    <3>4. TrimInv'
      BY <3>1 DEF RunInv, TrimInv, Kept
    <3>5. ApartInv'
      <4>1. (Apart' <=> Apart) /\ Writing' = Writing /\ Sweeping' = Sweeping
        BY <3>1 DEF Apart, Writing, Sweeping, NoWrite, NoUpsert, NoSweep
      <4>2. ApartInv
        BY DEF RunInv
      <4>3. CASE ~Apart
        BY <4>1, <4>3 DEF ApartInv
      <4>4. CASE Apart
        <5>1. /\ \A w, v \in Writers : \A i, j \in Runs : puts[w][i] # NoWrite /\ puts[v][j] # NoWrite => w = v /\ i = j
              /\ \A s, t \in Sweeping : s = t
              /\ Writing = {} \/ Sweeping = {}
              /\ \A w \in Writers : upserts[w] = NoUpsert
          BY <4>2, <4>4 DEF ApartInv
        <5>2. \A w, v \in Writers : \A i, j \in Runs : puts'[w][i] # NoWrite /\ puts'[v][j] # NoWrite => w = v /\ i = j
          BY <3>1, <5>1
        <5>3. \A s, t \in Sweeping' : s = t
          BY <4>1, <5>1
        <5>4. Writing' = {} \/ Sweeping' = {}
          BY <4>1, <5>1
        <5>5. \A w \in Writers : upserts'[w] = NoUpsert
          BY <3>1, <5>1
        <5>. QED BY <5>2, <5>3, <5>4, <5>5 DEF ApartInv, NoWrite, NoUpsert
      <4>. QED BY <4>3, <4>4
    <3>6. HashInv'
      <4>1. Apart' <=> Apart
        BY <3>1 DEF Apart
      <4>2. TellsOn => TellsOn'
        BY <3>1 DEF TellsOn, Crowded, Later, Forgotten, Kept
      <4>3. WritesOn => WritesOn'
        BY <3>1, ZenonT(40) DEF WritesOn, Tells, Kept
      <4>4. SweepsOn => SweepsOn'
        BY <3>1 DEF SweepsOn, ShouldPrune, Kept
      <4>. QED BY <4>1, <4>2, <4>3, <4>4 DEF RunInv, HashInv
    <3>. QED BY <3>2, <3>3, <3>4, <3>5, <3>6 DEF RunInv
  <2>. QED BY <2>1, <2>2, RunSteps
<1>. QED BY <1>1, <1>2, PTL DEF Spec

(* Runs that never finished are never pruned (retention.ts:5).  However      *)
(* events, lists and sweeps overlap, the durable store knows how each run    *)
(* stands whose events reached it, and so does a hash of its own where       *)
(* nothing overlaps; the hash has its size when everything has returned.    *)
THEOREM RunsKeptCorrect == Spec => []RunsKept
<1>1. RunInv => RunsKept
  <2>. SUFFICES ASSUME RunInv PROVE RunsKept
    OBVIOUS
  <2>1. /\ RunTypeOK /\ TableInv /\ TrimInv /\ HashInv
    BY DEF RunInv
  <2>2. DurableKeeps
    <3>. SUFFICES ASSUME backed, NEW i \in Kept(truth) \ (Reported \cup lost)
                  PROVE  table[i] = truth[i] \/ Forgotten(table, i)
      BY DEF DurableKeeps
    <3>1. \A w \in Writers : upserts[w].run # i
      BY DEF Reported
    <3>. QED BY <2>1, <3>1 DEF TableInv
  <2>3. HashKeeps
    <3>. SUFFICES ASSUME Rested
                  PROVE  /\ Cardinality(Kept(hash)) <= MaxCached
                         /\ ~backed /\ ~mixed => \A i \in Kept(truth) :
                              hash[i] = truth[i] \/ Forgotten(hash, i) \/ Crowded(i)
      BY DEF HashKeeps, Crowded, Later
    <3>1. broken = 0 /\ \A w \in Writers : \A i \in Runs : puts[w][i].pc = "none"
      BY DEF Rested, Writing, NoWrite
    <3>2. Cardinality(Kept(hash)) <= MaxCached
      <4>1. ~(Cardinality(Kept(hash)) > MaxCached)
        BY <2>1, <3>1 DEF TrimInv
      <4>. QED BY <4>1, SizeFacts, RunCacheAssumption
    <3>3. ~backed /\ ~mixed => \A i \in Kept(truth) : hash[i] = truth[i] \/ Forgotten(hash, i) \/ Crowded(i)
      <4>1. ASSUME ~backed, ~mixed, NEW i \in Kept(truth)
            PROVE  hash[i] = truth[i] \/ Forgotten(hash, i) \/ Crowded(i)
        <5>1. i \in Runs /\ \A w \in Writers : puts[w][i].pc \notin {"check", "put"}
          BY <3>1 DEF Kept
        <5>. QED BY <2>1, <3>1, <4>1, <5>1 DEF HashInv, TellsOn, Apart
      <4>. QED BY <4>1
    <3>. QED BY <3>2, <3>3
  <2>. QED BY <2>1, <2>2, <2>3 DEF RunsKept
<1>. QED BY <1>1, RunInvCorrect, PTL

=============================================================================
