SPECIFICATION CSpec
CONSTANTS
  Threads = {t1, t2}
  Waiter = t1
  Waker = t2
  None = None
  Conds = {c1}
  Cond = c1
  Mutexes = {m1}
  Mutex = m1
  Hosts = 1
  Titles = {TRUE, FALSE}
  Deadlines = {TRUE}
  MaxRenewals = 6
  Threshold = 1
  Caps = {0, 3}
  Detected = {TRUE, FALSE}
PROPERTIES
  TaskIsTaken
  ReleaseReturns
CHECK_DEADLOCK FALSE
