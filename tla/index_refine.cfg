\* Deaths outside the replacement window and failed opens of the temp files:
\* what callers are promised, and that it happens.
CONSTANTS
    Words = {1, 2}
    Docs = {1, 2}
    Contents <- MCContents
    BatchSize = 2
    IdBytes = 1
    PosBytes = 1
    OffMod = 1024
    CrashPoints <- SafeCrashPoints
    FaultPoints = {"save_open", "save_words"}
    MaxAdds = 4
    MaxTroubles = 1
SPECIFICATION LiveSpec
PROPERTIES
    ImplementsInvertedIndex
    EventuallyIndexed
CHECK_DEADLOCK FALSE
