CONSTANTS
  None = None
  Total = 2
  Limit = 1
  PageLimits <- OneOrAll
  MaxKills = 1
SPECIFICATION Spec
INVARIANT Resumable
CHECK_DEADLOCK FALSE
