SPECIFICATION FairSpec
CONSTANTS
    Shipped <- ShippedRuns
    Simulations = {"sim"}
    Files = {"file"}
    Nothing = Nothing
    Clicks = 2
    Faults = 1
INVARIANTS
    BusyHasAnOwner
PROPERTIES
    BuildingEnds
CHECK_DEADLOCK FALSE
