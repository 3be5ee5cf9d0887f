SPECIFICATION FairSpec
CONSTANTS
  Partition <- MCPartition
  MaxLen = 3
  Size <- MCSize
  BatchSize = 2
  Runners = 3
  Attempt <- Claimed
  Overlap = FALSE
  RowLock = TRUE
  RetryAttempts = 2
  MaxFailures = 2
  NULL = NULL
CHECK_DEADLOCK FALSE
INVARIANTS
  TypeOK
  CountedOnce
  DoneIsDrained
PROPERTIES
  ExactlyOnceSpec
  StreamDrains
