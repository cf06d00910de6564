CONSTANTS
  j0 = j0
  j1 = j1
  j2 = j2
  q1 = q1
  q2 = q2
  c1 = c1
  c2 = c2
  c3 = c3
  Jobs = {j0, j1, j2}
  Queues = {q1}
  QueueOf <- OneQueue
  Consumers = {c1, c2}
  ServedBy <- AllServeOne
  Concurrency = 1
  Attempts = 1
  Rank <- EqualRank
  Delayed = {j0}
  Children <- Pair
  OnFailure <- Goes
  Handles = {}
  MaxEnqueues = 1
SPECIFICATION FairSpec
PROPERTY EveryJobEnds
PROPERTY ClosesEnd
CHECK_DEADLOCK FALSE
