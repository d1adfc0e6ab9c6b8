SPECIFICATION FairSpec
CONSTANTS
    History <- Timeline
    Tags <- Releases
    ReleaseLists <- Lists
    RepairLists <- RepairStarts
    BranchLists <- Branches
    Legacy <- SomeLegacy
    MaxLaunches = 3
    MaxStops = 2
INVARIANTS
    RepairAligns
PROPERTIES
    FinishedStaysFinished
    ReleasesFinish
