CONSTANTS
  Parts = {"framing", "registry", "vrfs", "kernel", "message", "watchers", "timeouts", "cron", "dates"}
  Base = 4
  Uses <- MCUses
  ReadBufsize = 4
  MoveMin = 2
  MaxVarint = 2
  NULL = NULL
  Vrf = {1, 2, 3}
  Ifp = {1, 2}
  Id = {id0, id1}
  Default = id0
  VrfName = {name0, red}
  DefaultName = name0
  MoreIds = {id0, id1, id2}
  MoreNames = {name0, red, blue}
  FewIfps = {1}
  IfName = {eth0, eth1}
  Index = {x1, x2}
  MaxRequests = 2
  MaxNotices = 2
  Type = {1, 2}
  MaxType = 1
  Lengths = {5}
  maxlen = 42
  Start = 17
  MaxDepth = 2
  MaxFd = 1
  Watcher = {"epoll", "poll", "select"}
  MaxReady = 2
  Limits = {4}
  Coarse = 4
  Grain = 2
  MaxSet = 2
  MaxTime = 8
  MINUTE = 2
  HOUR = 4
  DAY = 8
  WEEK = 16
  Months <- MCMonths
  MaxLate = 9
  Starts <- MCStarts
  Spans = {0, 1, 29, 31, 365, 1461}
  MaxMoves = 3
INIT NetworkInit
NEXT NetworkNext
INVARIANTS    AttributesRead  HandledAsReported SilenceEnds  DatesExact
CHECK_DEADLOCK FALSE
