SPECIFICATION FairSpec
CONSTANTS
  NumThreads = 2
  Jobs = {j1, j2}
  Clients = {c1, c2}
  Waiters = {c1}
  MaxPause = 0
  MaxFail = 0
  OtherPool = FALSE
  None = None
INVARIANTS WaitSound NoLostWakeup FreeAfterLastExit
PROPERTIES WaitReturns DestroyReturns ImplementsJobPool
