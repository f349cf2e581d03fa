SPECIFICATION Spec
CONSTANTS
    Nothing = Nothing
    services <- Services
    instances <- Instances
    regions <- Regions
    Codes = {"UNAVAILABLE"}
    Written <- QuietLab
    Names <- Names2
    Counts = {0, 1, 3}
    Amounts = {0, 2}
    Steps = 0
    Presses = 2
INVARIANTS
    WritesBackWhatItOpened
CHECK_DEADLOCK FALSE
