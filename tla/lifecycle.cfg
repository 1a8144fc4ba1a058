SPECIFICATION Spec
CONSTANTS
  t0 = t0  t1 = t1  t2 = t2  t3 = t3  m1 = m1  m2 = m2
  NULL = NULL
  Thread <- MCThreads
  DefaultThread = t0
  DefaultPriority = 1
  Mutex = {}
  UserQueue = {u1}
  OS_PRIORITY_MAX = 2
  Priorities = {0, 1}
  Detached = {FALSE}
  MaxSuspend = 1
  MaxLock = 1
  Calls <- LifecycleCalls
  HandlerCalls <- Handlers
SYMMETRY ThreadSymmetry
INVARIANTS RunQueueExact WaitQueueExact HighestPriorityRuns
PROPERTY DeadStaysDead
CHECK_DEADLOCK FALSE
