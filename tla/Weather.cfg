SPECIFICATION FairWeather
CONSTANTS
    Rebuildable = TRUE
    Slots = {}
    MemoryCap = 1
    DiskCap = 0
    Factors = {2}
    FreezeFor = {1, 2}
    MaxHeld = 1
    MaxDisk = 1
    MaxLives = 3
    Horizon = 5
    Failures <- Scripted
    Simulations <- Files
    Gaps = {1, 2}
INVARIANTS
    InOrder
    ThawIsComing
PROPERTIES
    RateOutlives
    ComesBack
CHECK_DEADLOCK FALSE
