\* Where the merge puts position lists, against the header comment.
CONSTANTS
    Words = {1, 2}
    Docs = {1, 2}
    Contents <- MCContents
    BatchSize = 2
    IdBytes = 1
    PosBytes = 1
    OffMod = 1024
    CrashPoints = {}
    FaultPoints = {}
    MaxAdds = 3
    MaxTroubles = 0
SPECIFICATION Spec
INVARIANTS
    OffsetsAddressLists
CHECK_DEADLOCK FALSE
