\* A cancellation between the last look at the row and Finish.
SPECIFICATION Spec
CONSTANTS
    Search = {s1}
    Worker = {w1}
    Request = {r1}
    NoSearch = NoSearch
    NoWorker = NoWorker
    MaxSearches = 1
    Limit = 1
    ProcWorkers = 1
    MaxRetry = 1
    MaxFaults = 0
PROPERTIES CancelSticks
CHECK_DEADLOCK FALSE
