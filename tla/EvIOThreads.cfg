CONSTANTS
  MaxConns = 2
  Sizes = {1, 2}
  MaxCalls = 2
  MaxBufsize = 2
  Racing = TRUE
SPECIFICATION Spec
INVARIANTS OwnBytes
