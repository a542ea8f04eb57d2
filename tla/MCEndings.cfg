SPECIFICATION EndingSpec
CONSTANTS
    SoundWanted <- EitherSound
    CtrlMaxRetries = 1
    MaxAcks = 2
    MaxSession = 3
    Items = 5
    BatchLimit = 3
    QueueLimit = 2
    Routes = {home, office, cafe}
    MaxMoves = 2
INVARIANTS EndingTypeOK CloseSafety EndsAreTrue
PROPERTIES EverythingEnds
CHECK_DEADLOCK FALSE
