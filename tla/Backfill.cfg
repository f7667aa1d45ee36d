CONSTANTS
  None = None
  Root <- Ids
  Tar <- Paths
  Manifests <- Versions
  Corpora <- SomeCorpora
  MaxFaults = 2
SPECIFICATION FairSpec
INVARIANTS
  TypeOK
  SummaryMeansBackfilled
  OnlyExactPackages
PROPERTIES
  EventuallySummarised
CHECK_DEADLOCK FALSE
