SPECIFICATION Spec
CONSTANTS
  Threads = {t1, t2}
  None = None
  Capacity = 2
  Generations = 3
  MaxFiles = 5
  ClosesStandard = TRUE
INVARIANTS
  NoUseAfterClose
CHECK_DEADLOCK FALSE
