CONSTANTS
  j0 = j0
  j1 = j1
  j2 = j2
  q1 = q1
  q2 = q2
  c1 = c1
  c2 = c2
  c3 = c3
  Jobs = {j0, j1, j2}
  Queues = {q1, q2}
  QueueOf <- TwoQueues
  Consumers = {c1, c2}
  ServedBy <- LastServesTwo
  Concurrency = 1
  Attempts = 2
  Rank <- EqualRank
  Delayed = {}
  Children <- Pair
  OnFailure <- Mixed
  Handles = {h1}
  MaxEnqueues = 1
SPECIFICATION Spec
INVARIANT NoIdleSlot
INVARIANT NothingForgotten
INVARIANT ParentWaits
PROPERTY Delivers
CHECK_DEADLOCK FALSE
