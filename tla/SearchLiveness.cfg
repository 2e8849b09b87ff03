\* No symmetry: liveness.  Two searches compete for one slot; one failure.
SPECIFICATION FairSpec
CONSTANTS
    Search = {s1, s2}
    Worker = {w1}
    Request = {r1}
    NoSearch = NoSearch
    NoWorker = NoWorker
    MaxSearches = 1
    Limit = 1
    ProcWorkers = 1
    MaxRetry = 1
    MaxFaults = 1
PROPERTIES RunningSettles EndedReleasesSlot QueuedProgress
CHECK_DEADLOCK FALSE
