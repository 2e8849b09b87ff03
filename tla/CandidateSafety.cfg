SPECIFICATION Spec
CONSTANTS
    j1 = j1
    j2 = j2
    c1 = c1
    c2 = c2
    c3 = c3
    a = a
    c4 = c4
    p = p
    Job = {j1, j2}
    Candidate = {c1, c2, c3, c4}
    Company = {k1, k2}
    Domain = {a}
    Ident = {p}
    NoDomain = NoDomain
    NoIdent = NoIdent
    NoCompany = NoCompany
    JobOf <- FirmJobs
    KeyOf <- FirmKeys
    DomainOf <- FirmDomains
    IdentOf <- FirmIdents
    ScoreOf <- FirmScores
    MinScore = 2
    FlushEvery = 2
    MaxFaults = 1
    MaxCrashes = 1
SYMMETRY Symmetry
INVARIANTS TypeOK OneCompanyPerDomain KeptHasLead CountersMatchRows FinalCounts
CHECK_DEADLOCK FALSE
