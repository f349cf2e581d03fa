SPECIFICATION Spec
CONSTANTS
    Rebuildable = TRUE
    Slots = {s1}
    MemoryCap = 1
    DiskCap = 0
    Factors = {}
    FreezeFor = {1}
    MaxHeld = 1
    MaxDisk = 1
    MaxLives = 2
    Horizon = 1
PROPERTY
    BackIsFresh
CHECK_DEADLOCK FALSE
