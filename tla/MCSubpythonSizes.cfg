SPECIFICATION CarefulSpec
CONSTANTS
  Name = {"x", "y", "k"}
  Source <- AllocatingSource
  InitialSize = 4
  IntLimit = 2
INVARIANTS SizesReadable
CHECK_DEADLOCK FALSE
