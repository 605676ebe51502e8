SPECIFICATION Spec
CONSTANTS
  NumThreads = 2
  Jobs = {j1}
  Clients = {c1}
  Waiters = {c1}
  MaxPause = 1
  MaxFail = 1
  OtherPool = TRUE
  None = None
INVARIANT Inv
PROPERTY ImplementsSafely
CHECK_DEADLOCK FALSE
