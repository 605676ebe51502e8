SPECIFICATION Spec
CONSTANTS
  Boxes = {"queue", "ring", "array", "heap", "hash", "map", "list", "tree", "skip", "vector", "buffer"}
  Value = {z, u}
  Zero = z
  QueueInitSize = 3
  QueueSizes = {0, 1, 2}
  MaxQueue = 5
  n_a = n_a
  n_b = n_b
  Buf = {n_a, n_b}
  Byte = {0, 1}
  ZeroByte = 0
  RingSize <- RingSizes
  MaxRingArg = 3
  ArrayInitSize = 3
  ArraySizes = {0, 1, 2}
  MaxArray = 5
  NULL = NULL
  Node = {n1, n2, n3, n4, n5, n6}
  Key = {1, 2}
  n_c = n_c
  n_d = n_d
  HashName = {n_a, n_b, n_c}
  HashKey <- ChainKeys
  HashInitSize = 1
  HashMaxSizes = {0, 1}
  ValueOf <- Values
  MapName = {n_a, n_b, n_c, n_d}
  HashOf <- ProbeHashes
  MinCap = 4
  GrowAt = 60
  ShrinkAt = 25
  Factors = {95}
  Powers = {2}
  ListNode = {n1, n2, n3}
  ListData = {1, 2}
  TreeNode = {1, 2, 3, 4, 5, 6, 7, 8, 9}
  TreeKey <- TreeKeys
  SkipNode = {1, 2, 3, 4}
  SkipKey <- SkipKeys
  SkipLevel = 2
  Header = Header
  VectorValue = {u, w}
  VectorSizes = {0, 2}
  MaxSlot = 3
  ChunkSize = 2
  MaxChunks = 2
  MaxFlush = 3
  MaxPut = 2
  MaxBytes = 5
INVARIANTS  SearchesFind BufferStream
PROPERTIES ImplementsFifo ImplementsByteStream TablesAreMaps ListsAreSequences VectorSmallest
