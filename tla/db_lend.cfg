\* Internal nodes of six entries lend to each other.
CONSTANTS
    Keys = {1, 2, 3, 4, 5, 6, 7, 8, 9, 10, 11, 12, 13, 14, 15, 16, 17, 18, 19, 20, 21, 22, 23, 24, 25, 26, 27, 28, 29, 30}
    Values = {1}
    Order = 6
    KeyMod = 64
    Callers <- Lending
SPECIFICATION Spec
INVARIANTS
    FindsStored
