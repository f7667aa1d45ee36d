CONSTANTS
  None = None
  NumRows = 1
  Workers = 1
  RunOptions <- SomeForced
  MaxRuns = 3
SPECIFICATION Spec
INVARIANT MarkerMeansAgreement
CHECK_DEADLOCK FALSE
