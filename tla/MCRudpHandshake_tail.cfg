CONSTANTS
    MaxRetries = 1
    MaxSessions = 2
SPECIFICATION Spec
INVARIANTS TimeoutHasReason
CHECK_DEADLOCK FALSE
