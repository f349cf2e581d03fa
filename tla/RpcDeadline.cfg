SPECIFICATION Spec
CONSTANTS
    Limit = 2
    KTime = 2
    Deadline = 6
    GiveUp = 3
    Early = 1
    Declared = TRUE
    RoundTrips = {0, 2}
    Backoff = 1
    Multiplier = 2
    Horizon = 5
PROPERTY
    DeadlineIsShared
CHECK_DEADLOCK FALSE
