SPECIFICATION Spec
CONSTANTS
    Count = 2
    MaxTicks = 4
    MayThrow = FALSE
    LastTick = 24
INVARIANTS
    SeriesInStep
    WrittenWhole
CHECK_DEADLOCK FALSE
