SPECIFICATION FairSyncSpec
CONSTANTS
    MaxGen = 1
    MaxFaults = 1
    Company = {{"data"}, {"other"}}
INVARIANTS
    CatalogAsNewAsLabel
PROPERTIES
    SharedTokenIsFresh
    PageCatchesUp
