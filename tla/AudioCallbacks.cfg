SPECIFICATION Spec
CONSTANTS
  IOThreads = {io}
  Workers = {w}
  GameThreads = {game}
  Deferred = deferred
  Graphs = {a}
  None = None
  Capacity = 2
  RegistersInRender = FALSE
  MaxRegistrations = 3
INVARIANTS
  NoLockCycle
  
  StackJobsAwaited
PROPERTIES
  RetiredIsSilent
CHECK_DEADLOCK FALSE
