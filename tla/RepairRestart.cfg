CONSTANTS
  None = None
  NumRows = 2
  RepairOptions <- AllRows
  MaxRuns = 3
SPECIFICATION FairSpec
INVARIANTS TypeOK RepairAgrees MismatchHealable
PROPERTIES OthersKept EventuallyRepaired
CHECK_DEADLOCK FALSE
