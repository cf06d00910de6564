CONSTANTS
  None = None
  NoRun = NoRun
  NoRule = NoRule
  c1 = c1
  c2 = c2
  i1 = i1
  i2 = i2
  k1 = k1
  k2 = k2
  Clients = {c1, c2}
  Ids = {i1, i2}
  Keys = {k1, k2}
  MaxCalls = 3
  MaxFaults = 1
  Writers = {c1, c2}
  Sweepers = {k1, k2}
  Runs = {i1, i2}
  MaxCached = 2
  MaxPruned = 1
  MaxTime = 1
  MaxWrites = 2
  MaxBroken = 1
  Admins = {c1, c2}
  Rules = {i1, i2}
  MaxEdits = 3
  MaxBreaks = 1
SPECIFICATION Spec
SYMMETRY Sym
CHECK_DEADLOCK FALSE
\* One at a time: INVARIANT UnfinishedKept or NoneHidden, PROPERTY PatchesItsKey.
INVARIANT UnfinishedKept
