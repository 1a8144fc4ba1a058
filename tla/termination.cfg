SPECIFICATION Spec
CONSTANTS
  t0 = t0  t1 = t1  t2 = t2  t3 = t3  m1 = m1  m2 = m2
  NULL = NULL
  Thread <- MCThreads
  DefaultThread = t0
  DefaultPriority = 1
  Mutex = {m1, m2}
  UserQueue = {}
  OS_PRIORITY_MAX = 2
  Priorities = {0, 1}
  Detached = {FALSE}
  MaxSuspend = 1
  MaxLock = 2
  Calls <- TerminationCalls
  HandlerCalls <- Handlers
SYMMETRY ThreadSymmetry
INVARIANTS TypeOK OwnershipExact WaitersHaveOwner TerminationFollowsThrough
PROPERTY ImplementsMutexService
CHECK_DEADLOCK FALSE
