SPECIFICATION Spec
CONSTANTS
    MaxWeight = 5
    DefaultWeight = 1
    NoScan = NoScan
    Pages <- MCPages
    Profiles <- MCProfiles
    Retuned <- MCRetuned
    Companies <- MCCompanies
INVARIANTS
    VerdictFollowsItems
    FixingNeverCosts
    ComparisonAgrees
CHECK_DEADLOCK FALSE
