\* Two searches, two slots, one failure anywhere.
SPECIFICATION Spec
CONSTANTS
    Search = {s1, s2}
    Worker = {w1, w2}
    Request = {r1}
    NoSearch = NoSearch
    NoWorker = NoWorker
    MaxSearches = 1
    Limit = 1
    ProcWorkers = 1
    MaxRetry = 1
    MaxFaults = 1
SYMMETRY Symmetry
INVARIANTS TypeOK LedgerSound
PROPERTIES KeepsContract
CHECK_DEADLOCK FALSE
