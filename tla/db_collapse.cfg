\* The root collapses, and grows again.
CONSTANTS
    Keys = {1, 2, 3, 4, 5, 6, 7, 8, 9, 10, 11}
    Values = {1}
    Order = 4
    KeyMod = 64
    Callers <- Collapsing
SPECIFICATION Spec
INVARIANTS
    FindsStored
