CONSTANTS
  None = None
  Process = {p1, p2}
  Lane = {a, b}
  Interval = 2
  MaxRequests = 1
  MaxKills = 2
SPECIFICATION FairSpec
INVARIANTS TypeOK
PROPERTIES GrantsSpaced AllGranted
CHECK_DEADLOCK FALSE
