CONSTANTS
  j0 = j0
  j1 = j1
  j2 = j2
  q1 = q1
  c1 = c1
  c2 = c2
  h1 = h1
  h2 = h2
  Jobs = {j0, j1}
  Queues = {q1}
  QueueOf <- OneQueue
  Consumers = {c1, c2}
  ServedBy <- AllServeOne
  Concurrency = 1
  Attempts = 2
  Rank <- EqualRank
  Delayed = {j0}
  Children <- Pair
  OnFailure <- Mixed
  Handles = {h1, h2}
  Clients = {h1, h2}
  Registered <- RootOnly
  MaxCalls = 3
  MaxEnqueues = 3
SPECIFICATION WorldSpec
INVARIANT OnItsWay
CHECK_DEADLOCK FALSE
