SPECIFICATION Spec
CONSTANTS
    LastFrame = 4
    Size <- TwoPackets
    Idr <- Keyframes
    Sessions = 1
    Fec = TRUE
    MaxFrames = 2
    MaxSlots = 3
    MaxBytes = 5
    MaxDecodeQueue = 1
INVARIANT CompleteHoldsNoBudget
CHECK_DEADLOCK FALSE
