SPECIFICATION BudgetFairSpec
CONSTANTS
    links = links
    images = images
    Checks <- MCChecks
    List <- MCList
    Quota <- MCQuota
    Budget = 5
    PoolSize = 2
    NoAnswer = NoAnswer
INVARIANTS
    UnitsConserved
PROPERTIES
    ImplementsPools
    EveryCheckReports
CHECK_DEADLOCK FALSE
