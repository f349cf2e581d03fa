SPECIFICATION FairSpec
CONSTANTS
    Peers = {"peer"}
    Forgers = {"forger"}
    Plain = {"plain"}
INVARIANTS
    EnteredOnce
    BootSurvives
    SweptClean
PROPERTIES
    RunEnds
CHECK_DEADLOCK FALSE
