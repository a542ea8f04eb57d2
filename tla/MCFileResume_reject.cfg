CONSTANTS
    TransferAttempts = 2
    Files = {f, g}
    NoFile = absent
    FileSize = 5
    Payload = 2
    Paths = 3
    MaxCrashes = 0
    Overlap = FALSE
SPECIFICATION ResumeSpec
PROPERTY RejectKeepsOffer
CHECK_DEADLOCK FALSE
