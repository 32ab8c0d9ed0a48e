SPECIFICATION HeapSpec
CONSTANTS
  Ctx = {c1}
  HDR = 1
  MIN_ALLOC_SIZE = 2
  size_classes <- MCClasses
  REFILL = 6
  HEAP_SIZE = 14
  SIZE_MOD = 64
  Requests = {1, 4, 5, 63}
  LIMIT = 14
INVARIANTS BlocksExclusive NoChunkLost ChunksDisjoint BlockFits
PROPERTIES CallsReturn
CHECK_DEADLOCK FALSE
