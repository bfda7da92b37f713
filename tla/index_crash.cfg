\* Deaths at every step, the replacement window included.
CONSTANTS
    Words = {1, 2}
    Docs = {1, 2}
    Contents <- MCContents
    BatchSize = 2
    IdBytes = 1
    PosBytes = 1
    OffMod = 1024
    CrashPoints <- AllCrashPoints
    FaultPoints <- AllFaultPoints
    MaxAdds = 3
    MaxTroubles = 2
SPECIFICATION LiveSpec
INVARIANTS
    TypeOK
    PostingsSorted
    MainTiled
    ServedTiled
    DocCountExact
    NoFault
PROPERTIES
    UntornServes
CHECK_DEADLOCK FALSE
