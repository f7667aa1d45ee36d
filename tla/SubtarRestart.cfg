CONSTANTS
  None = None
  NumRows = 2
  Workers = 2
  RunOptions <- TwoRetries
  MaxRuns = 3
SPECIFICATION FairSpec
INVARIANTS TypeOK DoneAgrees NothingMissing HistoryAccounts FetchesBounded
PROPERTIES FinalNotRefetched PublishedUnchanged EventuallyDone
CHECK_DEADLOCK FALSE
