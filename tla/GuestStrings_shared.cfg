SPECIFICATION StringsSpec
CONSTANTS
  StringThreads = {1, 2}
  OwnerOf <- MCOwnerOf
  Reps = {1, 2, 3}
  Null = Null
  MaxCount = 3
INVARIANTS
  StringsStayAlive
CHECK_DEADLOCK FALSE
