SPECIFICATION Spec
CONSTANTS
  Threads = {t1, t2, t3}
  None = None
  Conds = {c1, c2}
  Mutexes = {m1}
  Hosts = 3
  Titles = {TRUE, FALSE}
  Deadlines = {FALSE}
  MaxRenewals = 1
SYMMETRY Symmetry
INVARIANTS
  TypeOK
  WaitersExact
  WakeNotLost
  RegistrySound
  LockHolderRuns
