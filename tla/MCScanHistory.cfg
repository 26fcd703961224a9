SPECIFICATION Spec
CONSTANTS
    Jobs <- MCJobs
    Op <- MCOp
    DomainOf <- MCDomainOf
    MaxMade = 5
INVARIANTS
    CountsAgree
    NoGhostSite
PROPERTIES
    CaptureComplete
    RestoreFaithful
CHECK_DEADLOCK FALSE
