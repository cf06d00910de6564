CONSTANTS
  None = None
  NoAlert = NoAlert
  q1 = q1
  r1 = r1
  r2 = r2
  c1 = c1
  h1 = h1
  h2 = h2
  e1 = e1
  f1 = f1
  b1 = b1
  Queues = {q1}
  Readers = {r1, r2}
  Callers = {c1}
  MaxChanges = 2
  Watched = {q1}
  Checks = {h1, h2}
  Handlers = {e1}
  HealthRules = {b1}
  EventRules = {f1}
  Cooldown = 2
  Cap = 1
  Runs = 4
  Lists = 3
  MinFetch = 1
  Batch = 1
  Limit = 1
  Ended = 3
  Kinds <- TwoNames
  Errors = {b1, f1}
  NoError = None
  NoReport = NoAlert
  Instants = {5, 6}
  Hour = 2
  Hours = 2
  Day = 2
  Cut = 2
  Top = 2
SPECIFICATION Spec
SYMMETRY Sym
CHECK_DEADLOCK FALSE
INVARIANTS Accurate CooldownsTrue ViewsRight
PROPERTY Spaced
