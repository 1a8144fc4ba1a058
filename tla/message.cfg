SPECIFICATION MessageSpec
CONSTANTS
  t0 = t0  t1 = t1  t2 = t2
  NULL = NULL
  sendQueue = sendQueue  recvQueue = recvQueue
  Thread <- MCThreads
  DefaultThread = t0
  DefaultPriority = 1
  Mutex = {}
  UserQueue = {sendQueue, recvQueue}
  OS_PRIORITY_MAX = 2
  Priorities = {0, 1}
  Detached = {TRUE}
  MaxSuspend = 1
  MaxLock = 1
  Message = {a, b}
  Capacity = 2
  Calls <- MessageCalls
  HandlerCalls <- SendingHandlers
SYMMETRY ThreadSymmetry
INVARIANT SleepersMustWait
PROPERTY ImplementsChannel
CHECK_DEADLOCK FALSE
