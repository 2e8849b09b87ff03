SPECIFICATION FairSpec
CONSTANTS
    p1 = p1
    p2 = p2
    g1 = g1
    g2 = g2
    g3 = g3
    Proc = {p1, p2}
    Crawler = {g1, g2, g3}
    ProcOf <- TwoAndOne
    Host = {h1}
    Permits = 1
    NoCrawler = NoCrawler
    Orphan = Orphan
    MaxStarts = 6
    MaxFaults = 1
INVARIANTS TypeOK SlotsAccounted
PROPERTIES PermitIsHolders WaiterServed
CHECK_DEADLOCK FALSE
