\* All calls in a small tree, and either end removed from a tall one.
CONSTANTS
    Keys = {1, 2, 3, 4, 5, 6, 7, 8, 9, 10, 11, 12, 13, 14, 15, 16, 17}
    Values = {1, 2}
    Order = 4
    KeyMod = 64
    Callers <- AllCallers
SPECIFICATION Spec
INVARIANTS
    TypeOK
    FindsStored
    ChainIsMap
    TreeIsChain
    Occupied
    ParentLinks
    RangeIsPrefix
PROPERTIES
    CallsEnd
