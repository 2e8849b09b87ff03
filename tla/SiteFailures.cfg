SPECIFICATION Spec
CONSTANTS
    home = home
    team = team
    old = old
    jobs = jobs
    portal = portal
    news = news
    archive = archive
    attic = attic
    Url = {home, team, old, jobs, portal, news, archive, attic}
    Site = {home, team, old, jobs, news, archive, attic}
    Home = home
    Links <- MCLinks
    Lands <- MCLands
    MaxPages = 5
    MaxDepth = 2
    DomainConc = 2
    Rounds = 3
    Attempts = 3
INVARIANT FailuresRecorded
CHECK_DEADLOCK FALSE
