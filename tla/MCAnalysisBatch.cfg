SPECIFICATION FairSpec
CONSTANTS
    Request <- MCRequest
    Domain <- MCDomain
    Gamme <- MCGamme
    Concurrency = 3
    None = None
INVARIANTS
    StreamAddsUp
    AnswerInOrder
PROPERTIES
    ImplementsPool
    EveryBatchEnds
CHECK_DEADLOCK FALSE
