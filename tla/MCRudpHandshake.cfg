CONSTANTS
    MaxRetries = 1
    MaxSessions = 2
SPECIFICATION FairSpec
INVARIANTS TypeOK HandshakeAgrees
PROPERTIES HandshakeDecides HalfOpenLeaves
CHECK_DEADLOCK FALSE
