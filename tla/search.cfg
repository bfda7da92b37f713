\* Questions over everything saves, merges, deaths and restarts leave.
CONSTANTS
    Words = {1, 2}
    Docs = {1, 2}
    Contents <- MCContents
    BatchSize = 2
    IdBytes = 1
    PosBytes = 1
    OffMod = 1024
    CrashPoints <- AllCrashPoints
    FaultPoints <- AllFaultPoints
    MaxAdds = 3
    MaxTroubles = 2
    Questions <- MCQuestions
SPECIFICATION SearchSpec
INVARIANTS
    SearchTypeOK
    AnswersSound
    AnswersComplete
    IdfDefined
    CosinesComparable
