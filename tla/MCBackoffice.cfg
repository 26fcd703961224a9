SPECIFICATION Spec
CONSTANTS
    Calls <- MCCalls
    Ask <- MCAsk
    Staff <- MCStaff
    MaxAttempts = 2
    Gammes <- MCGammes
    Mixes <- MCMixes
    None = None
INVARIANTS
    AcceptedRankIsCurrent
    SuspendedHoldsNoSession
    FilesMatchRows
PROPERTIES
    AdministratorRemains
    LockHolds
    SavesOverwriteWhatTheyRead
    StatusNeverSkips
CHECK_DEADLOCK FALSE
