SPECIFICATION FairFormedSpec
CONSTANTS
    Node = {"r", "a", "b"}
    RHost = "r"
    MayTcp = {}
    None = "none"
    MaxLapses = 1
    MaxStops = 1
    MaxTrouble = 2
    MayStop = {"b"}
    Goodbye = {TRUE, FALSE}
    MayStart = {}
    MaxBusy = 0
PROPERTIES NoGhosts
CHECK_DEADLOCK FALSE
