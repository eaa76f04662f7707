SPECIFICATION CarefulSpec
CONSTANTS
  Name = {"x", "y", "k"}
  Source <- AllocatingSource
  InitialSize = 4
  IntLimit = 2
INVARIANTS TableCoversRefs
CHECK_DEADLOCK FALSE
