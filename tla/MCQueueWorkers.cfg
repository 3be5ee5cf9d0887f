SPECIFICATION FairSpec
CONSTANTS
  Run = {r1}
  Worker = {w1, w2}
  NULL = NULL
  MaxAttempts = 2
  LeaseTicks = 1
  StaleTicks = 2
  Unfenced = {}
  SkipLocked = TRUE
  SweepOnStart = TRUE
  MaxCrashes = 1
  MaxFaults = 1
INVARIANTS
  TypeOK
  CompletedHonest
PROPERTIES
  LifecycleSpec
  QueuedRunsSettle
