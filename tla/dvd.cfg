SPECIFICATION FairSpec
CONSTANTS
  b1 = b1  b2 = b2  i1 = i1  game = game  other = other
  NULL = NULL
  Block = {b1, b2, i1}
  InquiryBlock = {i1}
  SyncBlock = {b1}
  Prio = {0}
  Lengths <- MCLengths
  SlowDisc = TRUE
  PollCancel = FALSE
  ContextMax = 4
  MaxIssued = 2
  Disc = {game, other}
  GameDisc = game
  Faults = {"readFail", "seekFail", "TIME"}
  MaxFaults = 2
  MaxSwaps = 2
  MaxTrouble = 3
INVARIANT DriverExact
PROPERTIES ImplementsDVDService CommandsServed CallsReturn ResetEnds
CHECK_DEADLOCK FALSE
