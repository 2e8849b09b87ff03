SPECIFICATION FairSpec
CONSTANTS
    Lead = {l1, d1, d2}
    NoLead = NoLead
    Dead = {d1, d2}
    Worker = {w1}
    Sweep = Sweep
    SweepLimit = 2
    BulkLimit = 2
    Choices = {"archived"}
    Rich = {l1}
    Filled = {"has_phone", "has_whatsapp"}
    Custom <- WebsiteBonus
    Broken <- NoRule
    MaxClicks = 1
    MaxDays = 1
    MaxFaults = 1
INVARIANTS TypeOK ScoresAgree
PROPERTIES SweepSparesArchived StaleHotRefreshed
CHECK_DEADLOCK FALSE
