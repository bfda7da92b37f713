\* The word count of a document, against the comment of its function.
CONSTANTS
    Words = {1, 2}
    Docs = {1, 2}
    Contents <- MCContents
    BatchSize = 2
    IdBytes = 1
    PosBytes = 1
    OffMod = 1024
    CrashPoints = {}
    FaultPoints = {}
    MaxAdds = 2
    MaxTroubles = 0
    Questions <- MCQuestions
SPECIFICATION SearchSpec
INVARIANTS
    CountsAreTheDocuments
