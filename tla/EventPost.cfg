CONSTANTS
  t1 = t1
  t2 = t2
  e1 = e1
  e2 = e2
  e3 = e3
  e4 = e4
  Threads = {t1, t2}
  Loop = L
  None = None
  Events = {e1, e2, e3, e4}
  Calls <- PostAndControl
  Follow <- FollowOne
  StopsLoop = {e3}
  EarlyStop = FALSE
  MaxRuns = 1
SPECIFICATION FairSpec
INVARIANTS TokensExact CalledInOrder
PROPERTIES PostedIsCalled 
