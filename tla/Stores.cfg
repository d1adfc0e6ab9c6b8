SPECIFICATION StoresSpec
CONSTANTS
    Keys = {"a", "b", "c", "d"}
    Steps = 2
    LruSize = 1
    Unpicklable = {"b"}
    Contents = {x1, x2}
    Versions = {y1, y2, y3}
    MaxId = 3
    MaxFailures = 2
    MaxCrashes = 2
    Windows = {x1, x2}
    Sessions = {y1, y2, y3}
    Names = {n1}
    Copies = 2
    MaxActs = 5
    None = None
INVARIANTS
    CarriedMirrorsDatabase
    StoredKeepsItsId
    OneHolder
    NeverLostWhenSettled
PROPERTIES
    ImplementsDictionary
SYMMETRY Symmetric
CHECK_DEADLOCK FALSE
