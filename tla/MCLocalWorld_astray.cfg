CONSTANTS
  j0 = j0
  j1 = j1
  j2 = j2
  q1 = q1
  c1 = c1
  c2 = c2
  h1 = h1
  h2 = h2
  Jobs = {j0, j1}
  Queues = {q1}
  QueueOf <- OneQueue
  Consumers = {c1}
  ServedBy <- AllServeOne
  Concurrency = 1
  Attempts = 1
  Rank <- EqualRank
  Delayed = {}
  Children <- Pair
  OnFailure <- Blocks
  Handles = {h1}
  Clients = {h1}
  Registered <- AllKnown
  MaxCalls = 2
  MaxEnqueues = 2
SPECIFICATION WorldSpec
INVARIANT NothingAstray
CHECK_DEADLOCK FALSE
