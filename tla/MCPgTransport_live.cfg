CONSTANTS
  j1 = j1
  j2 = j2
  c1 = c1
  c2 = c2
  Jobs = {j1}
  Consumers = {c1, c2}
  Attempts = 2
  MaxStalled = 0
  Concurrency = 1
  Batch = 1
  Rank <- EqualRank
  MaxEnqueues = 1
  MaxFaults = 1
SPECIFICATION FairSpec
PROPERTY EveryJobEnds
PROPERTY CloseEnds
PROPERTY VerdictsDelivered
