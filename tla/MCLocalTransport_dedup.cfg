CONSTANTS
  j0 = j0
  j1 = j1
  j2 = j2
  q1 = q1
  q2 = q2
  c1 = c1
  c2 = c2
  c3 = c3
  Jobs = {j0, j1}
  Queues = {q1}
  QueueOf <- OneQueue
  Consumers = {c1}
  ServedBy <- AllServeOne
  Concurrency = 1
  Attempts = 1
  Rank <- EqualRank
  Delayed = {}
  Children <- Only
  OnFailure <- Goes
  Handles = {}
  MaxEnqueues = 1
SPECIFICATION FairSpec
PROPERTY ParentsEnd
CHECK_DEADLOCK FALSE
