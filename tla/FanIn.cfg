SPECIFICATION FairSpec
CONSTANTS
    Slugs <- Registered
    Priority <- Priorities
    Queries <- Searches
    Limit = 3
    MaxSupply = 2
    ChanCap = 1
    OutCap = 1
    Workers = 2
INVARIANTS TypeOK FullReport
PROPERTIES GoroutinesEnd
CHECK_DEADLOCK FALSE
