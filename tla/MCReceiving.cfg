SPECIFICATION ReceivingSpec
CONSTANTS
    AudioSessions = 2
    AudioPackets = 3
    SkippedUnits = 1
    InFlight = 2
    ChannelDepth = 1
    StartupDepth = 1
    StartupHold = 1
    JitterTarget = 1
    TrimMargin = 1
    JumpTolerance = 1
    QuietAfter = 1
    DevicePadding = 1
    MaxAvailable = 1
    SyncFrames = 3
    Tolerance = 1
    LateDrop = 2
    MaxHold = 2
    ForcedBypass = 3
    MaxDrift = 1
    FrameShards = 3
    NackDelay = 2
    NackRepeat = 2
    MaxRounds = 3
    ItemsPerFrame = 32
    Debounce = 1
    NearDeadline = 10
    RepairWindow = 12
    RepairGuard = 1
    FrameTimeout = 30
    ReorderWait = 4
    SuppressRepair = 6
    Flight = 2
    LostPackets = 2
    LostRequests = 2
    HeaderLen = 1
    MetadataLen = 1
    MinUdp = 3
    MaxUdp = 4
    MaxFrameBytes = 6
    PacketMargin = 1
    PayloadBytes <- SomePayloads
    MaxNackItems = 3
    MaxMediaPayload = 1434
    MaxPacketCount = 31190
    Subcommands <- EverySubcommand
    MaxTyped = 2
    TransferAttempts = 3
    Files = {f, g}
    NoFile = absent
    FileSize = 5
    Payload = 2
    Paths = 2
    MaxCrashes = 2
    Overlap = FALSE
    Numbers = {1, 2, 3, 4, 5, 6, 7, 8}
    Uses = {"control", "data"}
    InitWindow = 2
    InitMargin = 1
    MaxReplayWindow = 4
    AskedWindows = {1, 3}
    MaxStarts = 2
    StopThreads = {button, closing}
INVARIANTS ReceivingTypeOK MediaSafety HoldingSafety TimingSafety InterfaceSafety
PROPERTIES ProgressIsKept
CHECK_DEADLOCK FALSE
