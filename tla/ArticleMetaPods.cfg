CONSTANTS
  None = None
  Key = {1, 2}
  Part = {"part-00", "part-01"}
  Base = shard
  SubShard <- EachItsPart
  Submitted = {shard, "part-00"}
  SingleShard = FALSE
  Pod = {p1, p2}
  MaxRuns = 4
  MaxKills = 1
  MaxExtra = 1
SPECIFICATION FairSpec
INVARIANTS TypeOK OutputComplete
PROPERTIES RowsRetained EventuallyPublished
CHECK_DEADLOCK FALSE
