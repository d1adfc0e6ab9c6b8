SPECIFICATION Spec
CONSTANTS
    Trees <- AllTrees
    MaxLines = 2
INVARIANTS
    SavedIsFixedPoint
    DefconfigRestores
    AcceptedTakesEffect
