SPECIFICATION WeatherSpec
CONSTANTS
    Rebuildable = TRUE
    Slots = {}
    MemoryCap = 1
    DiskCap = 0
    Factors = {2}
    FreezeFor = {3}
    MaxHeld = 1
    MaxDisk = 1
    MaxLives = 3
    Horizon = 5
    Failures <- Overlapping
    Simulations <- OneFile
    Gaps = {1, 2}
PROPERTY
    FreezeLasts
CHECK_DEADLOCK FALSE
