SPECIFICATION Spec
CONSTANTS
    Nothing = Nothing
    services <- Services
    instances <- Instances
    regions <- Regions
    Codes = {"UNAVAILABLE"}
    Written <- BusyLab
    Names <- Names2
    Counts = {0, 1, 3}
    Amounts = {0, 2}
    Steps = 1
    Presses = 2
INVARIANT OneNodeStarts
CHECK_DEADLOCK FALSE
