SPECIFICATION FairSpec
CONSTANTS
    e1 = e1
    h1 = h1
    h2 = h2
    Event = {e1}
    Hook = {h1, h2}
    Subscribers <- Both
    MaxRetry = 2
    MaxClicks = 2
    MaxFaults = 1
INVARIANTS TypeOK NoSilentLoss LogTruthful
PROPERTIES DeliverySettles
CHECK_DEADLOCK FALSE
