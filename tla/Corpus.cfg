CONSTANTS
  None = None
  NumShards = 2
  NumSubs = 2
  MaxFaults = 2
  Replan = FALSE
  RepairAgain = FALSE
  RepairSome = FALSE
  WaitRepair = {TRUE, FALSE}
  Leftover = {TRUE}
SPECIFICATION FairSpec
INVARIANTS
  TypeOK
  ShardDoneMeansAll
  AggregatedSound
PROPERTIES
  EventuallyAggregated
CHECK_DEADLOCK FALSE
