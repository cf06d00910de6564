CONSTANTS
  c1 = c1
  c2 = c2
  c3 = c3
  w1 = w1
  w2 = w2
  w3 = w3
  Clients = {c1, c2}
  Slots = {w1, w2, w3}
  Handlers = {w1, w2}
  Attempts = 2
  MaxStalled = 1
  Atomic = FALSE
  Retains = FALSE
  Prompt = FALSE
  MaxEnqueues = 2
  MaxCancels = 1
  MaxThrows = 1
  MaxExpiries = 2
  MaxCrashes = 1
SYMMETRY Sym
SPECIFICATION Spec
INVARIANT EndsTrue
CHECK_DEADLOCK FALSE
