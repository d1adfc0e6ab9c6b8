SPECIFICATION FairSpec
CONSTANTS
  CommitOrder <- TwoCommits
  HeadOf <- ThreeTags
  Tree <- Trees
  Touched <- Intermediate
  TagOf <- Tags
  TargetLists <- AllReleases
  DeleteChunk = 2
  MaxCrashes = 2
INVARIANTS
  FinishedIsWhole
  RollbackRestores
PROPERTIES
  FinishedIsKept
  AllIngested
