SPECIFICATION Spec
CONSTANTS
    Trim <- MCTrim
    Number <- MCNumber
    Days <- MCDays
    PageSize = 2
    Addresses <- MCAddresses
    Drafts <- MCDrafts
    Targets <- MCTargets
    Items = {"i1", "i2"}
    MaxGestures = 3
    None = None
    Urls = {"a", "b"}
    SitemapUrls = {"b"}
    Criteria = {"k1", "k2"}
    MaxUrls = 2
    Limits = {0, 9}
    MaxMoves = 3
    MaxBrought = 3
    Nobody = Nobody
    MaxRequests = 2
    NoUser = NoUser
INVARIANT ReplayIsEnough
CHECK_DEADLOCK FALSE
