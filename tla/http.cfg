\* Two clients, two calls of stop_server.
CONSTANTS
    Clients = {c1, c2}
    Questions <- MCQuestions
    Reply <- MCReply
    NULL = NULL
    NoSearch = NoSearch
    MaxStops = 2
    MaxFailures = 1
SPECIFICATION Spec
INVARIANTS
    TypeOK
    AnswersBelong
    CutOnlyByOthers
PROPERTIES
    EveryoneServed
CHECK_DEADLOCK FALSE
