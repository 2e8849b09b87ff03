SPECIFICATION Spec
CONSTANTS
    Contact = {c1}
    Batch = {b1, b2}
    NoContact = NoContact
    Steps <- TwoEmails
    HourlyLimit = 0
    SessionSecret = k1
    EncryptionSecret = k1
    MaxFaults = 1
SYMMETRY Symmetry
INVARIANTS TypeOK SendersBounded DuplicatesNeedFault LateMailBounded
PROPERTIES RecordedReplyStops KeepsContract
CHECK_DEADLOCK FALSE
