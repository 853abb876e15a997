SPECIFICATION Spec
CONSTANTS
  IOThreads = {io}
  Workers = {w}
  GameThreads = {game}
  Deferred = deferred
  Graphs = {a}
  None = None
  Capacity = 2
  RegistersInRender = TRUE
  MaxRegistrations = 2
INVARIANTS
  NoLockCycle
CHECK_DEADLOCK FALSE
