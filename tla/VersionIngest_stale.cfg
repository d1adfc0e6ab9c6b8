SPECIFICATION Spec
CONSTANTS
  CommitOrder <- TwoCommits
  HeadOf <- TwoTags
  Tree <- SmallTrees
  Touched <- NoIntermediate
  TagOf <- SmallTags
  TargetLists <- AnyOrder
  DeleteChunk = 5
  MaxCrashes = 1
PROPERTIES
  FinishedIsKept
