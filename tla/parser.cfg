\* Two calls over files that change in between.
CONSTANTS
    BlockBytes = 8
    WordBytes = 2
    ByteMod = 8
    WordMod = 64
    Paths <- MCPaths
    Contents <- MCContents
    HashBytes = 20
    ReadBytes = 5
    Segment <- MCSegment
    DocCode <- MCDocCode
    WordCode <- MCWordCode
    Absent = Absent
    Unreadable = Unreadable
    NULL = NULL
    MaxCalls = 2
    MaxEdits = 1
SPECIFICATION Spec
INVARIANTS
    TypeOK
    IdIsDigest
    PositionsAscend
    PositionsPoint
    TotalsAgree
    BlocksEntered
    UncutWordsEntered
PROPERTIES
    CallsEnd
CHECK_DEADLOCK FALSE
