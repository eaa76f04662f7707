SPECIFICATION Spec
CONSTANTS
  File <- MCFile
  Options <- MCOptions
  Address <- MCAddress
  ALIGNMENT = 2
  HeapLimit = 10
  CounterWord = 4
  RecordThresh = 1
  kbest = 2
  maxsamples = 3
  EpsilonNum = 1
  EpsilonDen = 4
  RunTime = {4, 5}
  Ticks = {0, 1}
  Events <- MCEvents
  CounterStart = {15}
INVARIANTS TypeOK NoFalseAlarm RangesAreLive UtilizationExact ScoreIsEarned KBest
PROPERTIES OverlapsSurface DriverEnds
CHECK_DEADLOCK FALSE
