SPECIFICATION OrderedSpec
CONSTANTS
  t0 = t0  t1 = t1  t2 = t2  t3 = t3  m1 = m1  m2 = m2
  NULL = NULL
  Thread <- FourThreads
  DefaultThread = t0
  DefaultPriority = 3
  Mutex = {m1, m2}
  UserQueue = {}
  OS_PRIORITY_MAX = 3
  Priorities = {0, 1, 2, 3}
  Detached = {TRUE}
  MaxSuspend = 1
  MaxLock = 1
  Calls <- InheritanceCalls
  HandlerCalls = {}
PROPERTY UrgentWaiterServed
CHECK_DEADLOCK FALSE
