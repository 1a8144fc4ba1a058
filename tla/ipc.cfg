SPECIFICATION FairSpec
CONSTANTS
  r1 = r1  r2 = r2  r3 = r3  r4 = r4
  NULL = NULL
  Req <- Requests4
  AsyncReq <- Async2
  SyncReq <- Sync2
  RebootReq <- Reboot2
  Capacity = 2
  Width = 8
  MaxQueued = 5
INVARIANTS RequestsOwned CreditExact
PROPERTIES MailboxHandshake StallsOnlyAfterFailedRelaunch ImplementsIPCService AcceptedCompletes
CHECK_DEADLOCK FALSE
