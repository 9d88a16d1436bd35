SPECIFICATION Spec
CONSTANTS
  Transaction <- MCTransaction
  Capacity = 2
  SnapshotEvery = 2
  MaxFaults = 3
  CrashAt <- Anywhere
  MaxRequest = 3
  CompletionBound = 2
  RetryableBound = 1
INVARIANT RepliedIsDurable
CHECK_DEADLOCK FALSE
