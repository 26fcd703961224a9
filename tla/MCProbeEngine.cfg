SPECIFICATION FairSpec
CONSTANTS
    Calls <- MCCalls
    Key <- MCKey
    MaxActive = 1
    CacheMax <- MCCacheMax
    SuccessTtl = 1
    FailureTtl = 0
    MaxTime = 2
    None = None
INVARIANTS
    OneRequestPerKey
    BilledIffSent
    NoIdlePlace
PROPERTIES
    GateSpec
    FreshAnswers
    EvictsOldestLast
    EveryCallAnswered
CHECK_DEADLOCK FALSE
