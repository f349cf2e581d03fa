SPECIFICATION FairSpec
CONSTANTS
    Limit = 3
    KTime = 2
    Deadline = 5
    GiveUp = 3
    Early = 1
    Declared = TRUE
    RoundTrips = {0, 2}
    Backoff = 1
    Multiplier = 2
    Horizon = 5
INVARIANTS
    TypeOK
    NoSpanLeftOpen
PROPERTIES
    ImplementsCall
    DeadlineHolds
    CallerIsTold
CHECK_DEADLOCK FALSE
