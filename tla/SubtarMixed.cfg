CONSTANTS
  None = None
  NumRows = 2
  Workers = 1
  RunOptions <- MixedRetries
  MaxRuns = 4
SPECIFICATION Spec
INVARIANTS CacheAgrees
PROPERTIES ImplementsResult
CHECK_DEADLOCK FALSE
