SPECIFICATION FairSpec
CONSTANTS
  NumThreads = 1
  Jobs = {j1}
  Clients = {c1, c2}
  Waiters = {c1, c2}
  MaxPause = 0
  MaxFail = 0
  OtherPool = FALSE
  None = None
PROPERTY WaitReturns
CHECK_DEADLOCK FALSE
