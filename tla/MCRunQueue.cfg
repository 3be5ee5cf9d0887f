SPECIFICATION QueueSpec
CONSTANTS
  Run = {r1, r2}
  Worker = {w1, w2}
  NULL = NULL
  MaxAttempts = 3
  LeaseTicks = 2
  StaleTicks = 3
  Unfenced = {"cancelled"}
  SkipLocked = FALSE
SYMMETRY Symmetry
INVARIANTS
  QueueTypeOK
  TokenUnique
  FencedOut
  DeadLetterEarned
PROPERTY
  LiveLeaseKept
