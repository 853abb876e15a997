SPECIFICATION FairSpec
CONSTANTS
  Threads = {t1, t2, t3}
  None = None
  First = t1
  Slots = 2
  MaxDepth = 2
  LockEnabled = TRUE
  MaxCalls = 6
INVARIANTS
  GuestIntervalsSerialized
  StacksDisjoint
PROPERTIES
  GuestRuns
  TrapReportHonest
CHECK_DEADLOCK FALSE
