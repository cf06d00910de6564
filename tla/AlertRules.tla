------------------------------ MODULE AlertRules ------------------------------
(***************************************************************************)
(* The alert store of the BullMQ world (redisAlertStore in world-bullmq/   *)
(* src/state.ts): a Redis hash of rules, alone or as a cache in front of   *)
(* the durable table (postgresAlertStore in core/src/drizzle.ts).  Unlike  *)
(* that of the schedules this cache has no flag that says it is complete:  *)
(* it is taken for the whole as soon as it holds anything.  Contact points *)
(* are kept in the same way, by the same code with other names.            *)
(***************************************************************************)
EXTENDS Naturals, FiniteSets

CONSTANTS
  Admins,    \* those who call the store
  Rules,     \* ids, of rules that were or will be created
  NoRule,    \* no row, no rule
  MaxEdits,  \* bound: calls
  MaxBreaks  \* bound: calls cut short by an error or a crash

ASSUME AlertRulesAssumption == MaxEdits \in Nat /\ MaxBreaks \in Nat

VARIABLES
  persisted, \* whether there is a durable table
  ruleTable, \* its rows
  ruleHash,  \* the hash `alerts:rules`
  edits,     \* edits[a]: the call a is in
  used,      \* the ids that were given out
  cold,      \* history: Redis started empty in front of rules
  crossed, edited, breaks \* history: two calls at once; calls; those cut short

ruleVars == <<persisted, ruleTable, ruleHash, edits, used, cold, crossed, edited, breaks>>

(* A rule is its version: 0 when created, then the number of the call that   *)
(* changed it.                                                             *)
RuleRow == 0 .. MaxEdits
RuleRows == [Rules -> RuleRow \cup {NoRule}]
Known(table) == {r \in Rules : table[r] # NoRule}

Edit == [pc : {"none", "insert", "update", "read", "all", "one", "write", "delete"},
         rule : Rules \cup {NoRule}, to : RuleRow \cup {NoRule}, put : RuleRows]
NoRows == [r \in Rules |-> NoRule]
NoEdit == [pc |-> "none", rule |-> NoRule, to |-> NoRule, put |-> NoRows]

RulesInit ==
  /\ persisted \in BOOLEAN
  /\ ruleTable \in [Rules -> {NoRule, 0}] /\ (~persisted => ruleTable = NoRows)
  /\ ruleHash = NoRows /\ used = Known(ruleTable)
  /\ edits = [a \in Admins |-> NoEdit]
  /\ cold = (used # {})
  /\ crossed = FALSE /\ edited = 0 /\ breaks = 0

Editing == {a \in Admins : edits[a] # NoEdit}
Ask(a, edit) ==
  /\ a \notin Editing /\ edited < MaxEdits
  /\ edits' = [edits EXCEPT ![a] = edit]
  /\ edited' = edited + 1 /\ crossed' = (crossed \/ Editing # {})
  /\ UNCHANGED <<persisted, ruleTable, cold, breaks>>

Stands(a, pc) == edits[a].pc = pc /\ UNCHANGED <<persisted, used, cold, crossed, edited, breaks>>
Becomes(a, edit) == edits' = [edits EXCEPT ![a] = edit]
Writes(a, rows) == Becomes(a, IF rows = NoRows THEN NoEdit ELSE [NoEdit EXCEPT !.pc = "write", !.put = rows])
Only(r, row) == [NoRows EXCEPT ![r] = row]

-----------------------------------------------------------------------------
(* createRule: a new id, in the table and then in the hash.                 *)
CreateRule(a, r) ==
  /\ r \notin used /\ used' = used \cup {r}
  /\ Ask(a, IF persisted THEN [NoEdit EXCEPT !.pc = "insert", !.rule = r]
            ELSE [NoEdit EXCEPT !.pc = "write", !.put = Only(r, 0)])
  /\ UNCHANGED ruleHash

InsertRule(a) ==
  LET r == edits[a].rule
  IN  /\ Stands(a, "insert")
      /\ ruleTable' = [ruleTable EXCEPT ![r] = 0]
      /\ Writes(a, Only(r, 0)) /\ UNCHANGED ruleHash

(* updateRule: the row that one UPDATE returns; or, if there is no table, no *)
(* such row or nothing to set, the one of the hash, read and merged here.   *)
UpdateRule(a, r) ==
  /\ \E to \in {edited + 1, NoRule} :
       Ask(a, [NoEdit EXCEPT !.pc = IF persisted THEN "update" ELSE "read", !.rule = r, !.to = to])
  /\ UNCHANGED <<ruleHash, used>>

(* Mutant: what the table returns is not written to the hash.               *)
SetRowOnly(a) ==
  LET e == edits[a]
  IN  /\ Stands(a, "update")
      /\ IF e.rule \in Known(ruleTable) /\ e.to # NoRule
           THEN ruleTable' = [ruleTable EXCEPT ![e.rule] = e.to] /\ Becomes(a, NoEdit)
           ELSE Becomes(a, [e EXCEPT !.pc = "read"]) /\ UNCHANGED ruleTable
      /\ UNCHANGED ruleHash

SetRow(a) ==
  LET e == edits[a]
  IN  /\ Stands(a, "update")
      /\ IF e.rule \in Known(ruleTable) /\ e.to # NoRule
           THEN ruleTable' = [ruleTable EXCEPT ![e.rule] = e.to] /\ Writes(a, Only(e.rule, e.to))
           ELSE Becomes(a, [e EXCEPT !.pc = "read"]) /\ UNCHANGED ruleTable
      /\ UNCHANGED ruleHash

MergeRow(a) ==
  LET e == edits[a]
      row == ruleHash[e.rule]
  IN  /\ Stands(a, "read")
      /\ Writes(a, Only(e.rule, IF row = NoRule \/ e.to = NoRule THEN row ELSE e.to))
      /\ UNCHANGED <<ruleTable, ruleHash>>

(* deleteRule: out of the hash, then out of the table.                      *)
DeleteRule(a, r) ==
  /\ Ask(a, IF persisted THEN [NoEdit EXCEPT !.pc = "delete", !.rule = r] ELSE NoEdit)
  /\ ruleHash' = [ruleHash EXCEPT ![r] = NoRule] /\ UNCHANGED used

DropRow(a) ==
  /\ Stands(a, "delete")
  /\ ruleTable' = [ruleTable EXCEPT ![edits[a].rule] = NoRule]
  /\ Becomes(a, NoEdit) /\ UNCHANGED ruleHash

-----------------------------------------------------------------------------
(* getRules, of a hash that holds nothing, and getRule, of a rule it does    *)
(* not hold: the table is asked, and what it answers written to the hash.   *)
GetRules(a) ==
  /\ persisted /\ Known(ruleHash) = {}
  /\ Ask(a, [NoEdit EXCEPT !.pc = "all"]) /\ UNCHANGED <<ruleHash, used>>

GetRule(a, r) ==
  /\ persisted /\ r \notin Known(ruleHash)
  /\ Ask(a, [NoEdit EXCEPT !.pc = "one", !.rule = r]) /\ UNCHANGED <<ruleHash, used>>

ReadTable(a) ==
  /\ \/ Stands(a, "all") /\ Writes(a, ruleTable)
     \/ Stands(a, "one") /\ Writes(a, Only(edits[a].rule, ruleTable[edits[a].rule]))
  /\ UNCHANGED <<ruleTable, ruleHash>>

(* writeRule, of each row, side by side.                                    *)
WriteRule(a, r) ==
  /\ Stands(a, "write") /\ r \in Known(edits[a].put)
  /\ ruleHash' = [ruleHash EXCEPT ![r] = edits[a].put[r]]
  /\ Writes(a, [edits[a].put EXCEPT ![r] = NoRule]) /\ UNCHANGED ruleTable

(* A call is cut short: what it has done so far stays.                      *)
Break(a) ==
  /\ a \in Editing /\ breaks < MaxBreaks /\ breaks' = breaks + 1
  /\ Becomes(a, NoEdit)
  /\ UNCHANGED <<persisted, ruleTable, ruleHash, used, cold, crossed, edited>>

-----------------------------------------------------------------------------
(* Properties.                                                             *)
RulesTypeOK ==
  /\ {ruleTable, ruleHash} \subseteq RuleRows /\ edits \in [Admins -> Edit]
  /\ used \subseteq Rules /\ {persisted, cold, crossed} \subseteq BOOLEAN
  /\ edited \in 0 .. MaxEdits /\ breaks \in 0 .. MaxBreaks

AtRest == persisted /\ Editing = {} /\ breaks = 0

(* While calls do not overlap, a rule that the hash shows is the one in the  *)
(* table; and however they overlap, a hash that has cached the table since   *)
(* it was empty hides no rule when it is taken for the whole.               *)
RulesTrue ==
  /\ RulesTypeOK
  /\ AtRest /\ ~crossed => \A r \in Known(ruleHash) : ruleHash[r] = ruleTable[r]
  /\ AtRest /\ ~cold /\ Known(ruleHash) # {} => Known(ruleTable) \subseteq Known(ruleHash)

(* Of durable alert configuration "Workbench reads all of it when present":  *)
(* no rule of the table is hidden from getRules.                           *)
NoneHidden ==
  AtRest /\ Known(ruleHash) # {} => Known(ruleTable) \subseteq Known(ruleHash)
==============================================================================
