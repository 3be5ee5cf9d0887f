SPECIFICATION EventSpec
CONSTANTS
  Partition <- MCPartition
  MaxLen = 5
  Size <- MCSize
  BatchSize = 2
  Runners = 2
  Attempt <- Claimed
  Overlap = FALSE
  RowLock = TRUE
  RetryAttempts = 2
  MaxFailures = 1
  NULL = NULL
  Time <- MCTime
  WindowSize = 2
  OutOfOrder = 1
  AllowedLateness = 2
  IdleTimeout = 1
  OnLate = "side_output"
CHECK_DEADLOCK FALSE
PROPERTY
  NotLateByItself
