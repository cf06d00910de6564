CONSTANTS
  j1 = j1
  j2 = j2
  c1 = c1
  c2 = c2
  Jobs = {j1}
  Consumers = {c1, c2}
  Attempts = 2
  MaxStalled = 1
  Concurrency = 2
  Batch = 1
  Rank <- EqualRank
  MaxEnqueues = 1
  MaxFaults = 1
SPECIFICATION Spec
INVARIANT FenceInv
INVARIANT ClaimsPaid
INVARIANT SingleOwner
PROPERTY LeaseProtects
PROPERTY Delivers
SYMMETRY ConsumerSymmetry
