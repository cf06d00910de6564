----------------------------- MODULE RedisState -----------------------------
(***************************************************************************)
(* The state that the BullMQ world keeps in Redis (world-bullmq/src/       *)
(* state.ts): its schedules, its runs and its alert rules.  They share no  *)
(* key, so that their interleavings show nothing that each does not show   *)
(* alone: a behaviour is one of the three, with the others at rest.        *)
(***************************************************************************)
EXTENDS ScheduleCache, RunCache, AlertRules

VARIABLE part

vars == <<part, scheduleVars, runVars, ruleVars>>

Init ==
  /\ part \in {"schedules", "runs", "rules"}
  /\ SchedulesInit /\ (part # "schedules" => rows = Nothing)
  /\ RunCacheInit /\ (part # "runs" => Kept(truth) = {})
  /\ RulesInit /\ (part # "rules" => used = {})
  /\ durable = backed /\ durable = persisted

Scheduling(A) == part = "schedules" /\ A /\ UNCHANGED <<part, runVars, ruleVars>>
Running(A) == part = "runs" /\ A /\ UNCHANGED <<part, scheduleVars, ruleVars>>
Ruling(A) == part = "rules" /\ A /\ UNCHANGED <<part, scheduleVars, runVars>>

Next ==
  \/ \E c \in Clients, i \in Ids :
       \/ \E k \in Keys \cup {None} : Scheduling(Create(c, i, k))
       \/ \E p \in Patches : Scheduling(Change(c, i, p))
       \/ Scheduling(Retrieve(c, i))
       \/ Scheduling(Delete(c, i))
       \/ Scheduling(WriteRow(c, i))
       \/ Scheduling(WriteKey(c, i))
  \/ \E c \in Clients :
       \/ \E full \in BOOLEAN : Scheduling(List(c, full))
       \/ Scheduling(StoreCreate(c))
       \/ Scheduling(FindByKey(c))
       \/ Scheduling(StorePatch(c))
       \/ Scheduling(ReadRow(c))
       \/ Scheduling(StoreRetrieve(c))
       \/ Scheduling(StoreList(c))
       \/ Scheduling(Filled(c))
       \/ Scheduling(ReadKey(c))
       \/ Scheduling(Unhash(c))
       \/ Scheduling(Unkey(c))
       \/ Scheduling(StoreDelete(c))
       \/ Scheduling(Fault(c))
  \/ \E w \in Writers, i \in Runs :
       \/ Running(Report(w, i))
       \/ Running(Check(w, i))
       \/ Running(PutRun(w, i))
       \/ Running(CountRuns(w, i))
       \/ Running(ListOldest(w, i))
       \/ Running(Evict(w, i))
  \/ \E w \in Writers :
       \/ Running(Upsert(w))
       \/ Running(ListRuns(w))
       \/ Running(BreakWrite(w))
  \/ \E s \in Sweepers :
       \/ Running(SweepStarts(s))
       \/ Running(Candidates(s))
       \/ Running(ReadRows(s))
       \/ Running(EvictOld(s))
       \/ Running(TryLock(s))
       \/ Running(Prune(s))
       \/ Running(BreakSweep(s))
  \/ Running(Pass)
  \/ \E a \in Admins, r \in Rules :
       \/ Ruling(CreateRule(a, r))
       \/ Ruling(UpdateRule(a, r))
       \/ Ruling(DeleteRule(a, r))
       \/ Ruling(GetRule(a, r))
       \/ Ruling(WriteRule(a, r))
  \/ \E a \in Admins :
       \/ Ruling(InsertRule(a))
       \/ Ruling(SetRow(a))
       \/ Ruling(MergeRow(a))
       \/ Ruling(DropRow(a))
       \/ Ruling(GetRules(a))
       \/ Ruling(ReadTable(a))
       \/ Ruling(Break(a))

Spec == Init /\ [][Next]_vars

=============================================================================
