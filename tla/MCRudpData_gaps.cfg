SPECIFICATION Spec
CONSTANTS
    N = 4
    Window = 4
    MaxRetries = 0
    MaxMissing = 1
    AckEvery = 2
    GapThreshold = 1
    Reports = 1
    MaxFast = 0
    NetCap = 1
INVARIANTS ForgottenIsReceived
PROPERTIES ImplementsTransfer
CHECK_DEADLOCK FALSE
