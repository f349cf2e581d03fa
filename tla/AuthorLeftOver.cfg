SPECIFICATION Spec
CONSTANTS
    Nothing = Nothing
    services <- Services
    instances <- Instances
    regions <- Regions
    Codes = {"UNAVAILABLE"}
    Written <- BusyLab
    Names <- Names2
    Counts = {0, 1, 3}
    Amounts = {0, 2}
    Steps = 2
    Presses = 2
INVARIANT NodesAreProduced
CHECK_DEADLOCK FALSE
