SPECIFICATION FairSpec
CONSTANTS
    N = 2
    Window = 2
    MaxRetries = 1
    MaxMissing = 1
    AckEvery = 2
    GapThreshold = 1
    Reports = 1
    MaxFast = 1
    NetCap = 1
INVARIANTS TypeOK ClaimsAreOwned Ack2SpeaksForSender
PROPERTIES SilenceIsSafe Settles
CHECK_DEADLOCK FALSE
