SPECIFICATION FairSpec
CONSTANTS
  Threads = {t1}
  Addresses = {a1, a2, a3}
  Callbacks = {c1}
  Nodes = {n}
  Connections = {k}
  None = None
  Capacity = 1
  Target = 1
  Relearn = 2
  Modes = {"deferred"}
  Persists = TRUE
  MaxGraphs = 2
  MaxReturns = 1
  MaxQueue = 2
INVARIANTS
  CallsInOrder
CHECK_DEADLOCK FALSE
