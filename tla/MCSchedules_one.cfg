CONSTANTS
  p1 = p1
  p2 = p2
  Procs = {p1}
  Crons = {"each", "other"}
  Times <- MCTimes
  Revives = TRUE
  Attempts = 2
  MaxStalled = 1
  KeepsFailed = TRUE
  MaxTime = 2
  MaxCalls = 3
  MaxBusy = 1
  MaxThrows = 1
  MaxCrashes = 2
SPECIFICATION FairSpec
INVARIANT ScheduleKept
INVARIANT TriggeredOnce
PROPERTY OnCron
PROPERTY Rearms
PROPERTY Moves
CHECK_DEADLOCK FALSE
