SPECIFICATION CarefulSpec
CONSTANTS
  Name = {"x", "y", "k"}
  Source <- MainSource
  InitialSize = 4
  IntLimit = 1
INVARIANTS TypeOK PoolSound StructuresSound ComparisonsAgree CollectionInvisible GarbageReclaimed
CHECK_DEADLOCK FALSE
