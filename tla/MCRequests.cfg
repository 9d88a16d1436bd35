SPECIFICATION Spec
CONSTANTS
  Transaction <- MCTransaction
  Capacity = 2
  SnapshotEvery = 2
  MaxFaults = 3
  CrashAt <- NotBeforeTrim
  MaxRequest = 3
  CompletionBound = 2
  RetryableBound = 1
INVARIANTS ExactlyOnce RepliedIsDurable AwaitedNeverRefused MemoryIsDurable
PROPERTIES DbIsAJournal EveryRequestAnswered
CHECK_DEADLOCK FALSE
