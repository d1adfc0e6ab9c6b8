SPECIFICATION FairSpec
CONSTANTS
    Requests = {r1, r2, r3, r4}
    Size = 2
    MaxRetries = 2
    MaxDrops = 2
INVARIANTS
    CountsConnections
    NoLostWakeup
    NoPoolStranded
PROPERTY EveryRequestEnds
