CONSTANTS
  p1 = p1
  p2 = p2
  Procs = {p1, p2}
  Crons = {"each"}
  Times <- MCTimes
  Revives = TRUE
  Attempts = 2
  MaxStalled = 1
  KeepsFailed = TRUE
  MaxTime = 2
  MaxCalls = 2
  MaxBusy = 2
  MaxThrows = 0
  MaxCrashes = 0
SPECIFICATION Spec
INVARIANT Armed
CHECK_DEADLOCK FALSE
