SPECIFICATION FairSpec
CONSTANTS
    Limit = 2
    KTime = 1
    Deadline = 2
    GiveUp = 2
    Early = 1
    Declared = FALSE
    RoundTrips = {0, 1}
    Backoff = 1
    Multiplier = 2
    Horizon = 4
PROPERTIES
    CallerIsTold
CHECK_DEADLOCK FALSE
