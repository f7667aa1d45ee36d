CONSTANTS
  None = None
  Total = 4
  Limit = 2
  PageLimits <- OneOrAll
  MaxKills = 2
SPECIFICATION FairSpec
INVARIANTS TypeOK PagesContiguous CompleteMeansAll
PROPERTIES PagesRetained EventuallyComplete
CHECK_DEADLOCK FALSE
