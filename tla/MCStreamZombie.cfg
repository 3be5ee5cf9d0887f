SPECIFICATION Spec
CONSTANTS
  Partition <- MCPartition
  MaxLen = 3
  Size <- MCSize
  BatchSize = 2
  Runners = 2
  Attempt <- Claimed
  Overlap = TRUE
  RowLock = TRUE
  RetryAttempts = 2
  MaxFailures = 0
  NULL = NULL
CHECK_DEADLOCK FALSE
PROPERTY
  WholeBatchReplays
