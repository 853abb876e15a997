SPECIFICATION Spec
CONSTANTS
  IOThreads = {io}
  Workers = {w}
  GameThreads = {game}
  Deferred = deferred
  Graphs = {a}
  None = None
  Capacity = 2
  RegistersInRender = FALSE
  MaxRegistrations = 2
INVARIANTS
  NoStrandedRender
CHECK_DEADLOCK FALSE
