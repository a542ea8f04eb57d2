SPECIFICATION Spec
CONSTANTS
    LastFrame = 4
    Size <- TwoPackets
    Idr <- Keyframes
    Sessions = 2
    Fec = TRUE
    MaxFrames = 2
    MaxSlots = 3
    MaxBytes = 5
    MaxDecodeQueue = 1
INVARIANTS TypeOK BudgetHonest
PROPERTIES DecodedAsSent CompleteReleased
CHECK_DEADLOCK FALSE
