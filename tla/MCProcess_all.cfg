CONSTANTS
  p1 = p1
  p2 = p2
  p3 = p3
  a1 = a1
  a2 = a2
  a3 = a3
  Workers = {p1, p2, p3}
  Build <- MCBuild
  Tasks <- MCTasks
  Appliers = {p1, p2}
  MaxStarts = 3
  MaxClock = 1
  MaxFaults = 1
  Attempts = {a1, a2, a3}
  Chatty = {a1}
  MaxActive = 1
  MaxRows = 2
  MaxLines = 1
  MaxLosses = 1
  MaxEdits = 3
  MaxWorkers = 5
SPECIFICATION FairSpec
INVARIANTS Migrated CommonArmed Counted Settled Supervised
PROPERTIES Served Exits
CHECK_DEADLOCK FALSE
