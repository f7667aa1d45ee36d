CONSTANTS
  None = None
  NumShards = 2
  NumSubs = 1
  MaxFaults = 1
  Replan = FALSE
  RepairAgain = FALSE
  RepairSome = FALSE
  WaitRepair = {TRUE, FALSE}
  Leftover = {FALSE}
SPECIFICATION FairSpec
PROPERTIES
  EventuallyPostprocessed
CHECK_DEADLOCK FALSE
