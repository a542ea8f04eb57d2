CONSTANTS
    TransferAttempts = 2
    Files = {f, g}
    NoFile = absent
    FileSize = 5
    Payload = 2
    Paths = 3
    MaxCrashes = 0
    Overlap = TRUE
SPECIFICATION ResumeSpec
INVARIANT SavedIsVerified
CHECK_DEADLOCK FALSE
