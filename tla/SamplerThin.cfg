SPECIFICATION Spec
CONSTANTS
    Count = 2
    MaxTicks = 4
    MayThrow = FALSE
    LastTick = 24
INVARIANT InstantsInStep
CHECK_DEADLOCK FALSE
