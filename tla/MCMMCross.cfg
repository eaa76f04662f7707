SPECIFICATION Spec
CONSTANTS
  MinBlock = 3
  Chunk = 4
  BigSize = 4
  HeapMax = 24
  Request = {0, 16, 32}
INVARIANTS FreeListsComplete
CHECK_DEADLOCK FALSE
