SPECIFICATION DSpec
CONSTANTS
    Emails = {e1, e2, e3, e4}
    Concurrency = 2
    ServerConcurrency = 3
    MaxAttempts = 2
    MaxTroubles = 4
INVARIANTS
    DTypeOK
    NoTmpLeft
    NothingDropped
    StoredOnce
PROPERTIES
    ImplementsTransfer
    PhaseEnds
CHECK_DEADLOCK FALSE
