CONSTANTS
  c1 = c1
  c2 = c2
  c3 = c3
  w1 = w1
  w2 = w2
  w3 = w3
  Clients = {c1, c2}
  Slots = {w1, w2}
  Handlers = {w1, w2}
  Attempts = 1
  MaxStalled = 0
  Atomic = TRUE
  Retains = FALSE
  Prompt = TRUE
  MaxEnqueues = 1
  MaxCancels = 1
  MaxThrows = 0
  MaxExpiries = 0
  MaxCrashes = 0
SPECIFICATION Spec
PROPERTY CompletedStays
CHECK_DEADLOCK FALSE
