\* An update stops when it is done.
CHECK_DEADLOCK FALSE
SPECIFICATION Spec
CONSTANTS
    File <- Paths
    Plain <- PlainPaths
    Elsewhere <- Outside
    Versions <- AllVersions
    MaxEpochs = 2
    MayExpire = TRUE
INVARIANTS
    NoStaleAnswer
    StubsAreForced
    NothingForgotten
    EvacuatedWhole
PROPERTIES
    ComesToEnd
