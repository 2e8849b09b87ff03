SPECIFICATION FairSpec
CONSTANTS
    Contact = {c1}
    Batch = {b1}
    NoContact = NoContact
    Steps <- TwoEmails
    HourlyLimit = 1
    SessionSecret = k1
    EncryptionSecret = k2
    MaxFaults = 2
PROPERTY ContactSettles
CHECK_DEADLOCK FALSE
