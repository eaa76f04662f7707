SPECIFICATION SegregatedSpec
CONSTANTS
  MinBlock = 3
  Chunk = 4
  BigSize = 4
  HeapMax = 24
  Request = {0, 16, 32}
INVARIANTS TypeOK BlocksTile FreeListsComplete LiveBlocksIntact
PROPERTIES GrowsOnlyWithoutFit ImplementsRanges
CHECK_DEADLOCK FALSE
