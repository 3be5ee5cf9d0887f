SPECIFICATION Spec
CONSTANTS
  Partition <- MCPartition
  MaxLen = 3
  Size <- MCSize
  BatchSize = 2
  Runners = 3
  Attempt <- Shared
  Overlap = TRUE
  RowLock = FALSE
  RetryAttempts = 2
  MaxFailures = 0
  NULL = NULL
CHECK_DEADLOCK FALSE
INVARIANT
  NoLoss
