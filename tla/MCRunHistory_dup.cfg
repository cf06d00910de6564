CONSTANTS
  c1 = c1
  c2 = c2
  c3 = c3
  w1 = w1
  w2 = w2
  w3 = w3
  Clients = {c1, c2}
  Slots = {w1, w2, w3}
  Handlers = {w1, w2}
  Attempts = 3
  MaxStalled = 1
  Atomic = TRUE
  Retains = TRUE
  Prompt = TRUE
  MaxEnqueues = 4
  MaxCancels = 0
  MaxThrows = 0
  MaxExpiries = 0
  MaxCrashes = 0
SPECIFICATION FairSpec
INVARIANT Recorded
INVARIANT Truth
PROPERTY CompletedStays
PROPERTY Ends
CHECK_DEADLOCK FALSE
