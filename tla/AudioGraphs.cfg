SPECIFICATION FairSpec
CONSTANTS
  Threads = {t1}
  Addresses = {a1, a2, a3}
  Callbacks = {c1}
  Nodes = {n}
  Connections = {k}
  None = None
  Capacity = 1
  Target = 1
  Relearn = 2
  Modes = {"deferred", "workerless", "synchronous", "quarantine"}
  Persists = FALSE
  MaxGraphs = 2
  MaxReturns = 1
  MaxQueue = 1
INVARIANTS
  TypeOK
  CallsInOrder
  StoppedIsSilent
  PoolSound
PROPERTIES
  DrainReturns
CHECK_DEADLOCK FALSE
