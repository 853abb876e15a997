SPECIFICATION FairSpec
CONSTANTS
  Threads = {t1, t2, t3}
  Capacity = 3
  GenerationModulus = 16
  Maxima = {2}
  MaxCreates = 3
INVARIANTS
  NoStaleSleeper
  NoLostWakeup
  StaleHandleRejected
  TableExact
PROPERTIES
  ImplementsPromise
  DeletedWaiterReturns
