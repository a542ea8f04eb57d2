SPECIFICATION SenderSpec
CONSTANTS
    StartProfile <- Full
    MaxFps = 60
    SourceRates = {60}
    ReceiverRates = {0, 50}
    Estimates = {0, 50}
    MinLines = 720
    MinFps = 30
    Warmup = 1
    MinValid = 3
    Span = 3
    MildWindows = 3
    SevereWindows = 2
    StableWindows = 2
    Cooldown <- Cool
    VideoSessions = 2
    VideoFrames = 2
    DataPackets = 1
    SendQueueDepth = 1
    CacheTtl = 1
    SuppressFor = 2
    NackKeys <- OneKey
    CaptureSessions = 2
    CaptureTime = 5
    FrameUnits = 2
    AudioQueueDepth = 1
    ConvertBackends = {"auto", "cpu", "d3d11"}
    EncoderChoices = {"auto", "hardware", "intel-qsv", "software"}
    Machines <- ThreeMachines
    KeyInterval = 2
    Rates = {1, 2}
    StartRate = 2
    WaitPolls = 1
    TransformDepth = 1
    Pictures = 1
    EncodedFrames = 3
    Callbacks = {c1, c2, c3}
    QueueCapacity = 2
INVARIANTS SenderTypeOK CaptureSafety PipelineSafety SendingSafety StampsAreExact
PROPERTIES ControllerIsSound RecoversNominalLevel SendingIsOrderly EverySenderPartEnds
CHECK_DEADLOCK FALSE
