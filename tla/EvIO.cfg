CONSTANTS
  MaxConns = 2
  Sizes = {0, 2}
  MaxCalls = 3
  MaxBufsize = 2
  Racing = FALSE
SPECIFICATION FairSpec
INVARIANTS WireInOrder DrainedBeforeClose QueueWatched ClosedForCause
PROPERTIES CauseCloses
