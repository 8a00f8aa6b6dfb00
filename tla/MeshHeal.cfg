SPECIFICATION FairNewOrFormedSpec
CONSTANTS
    Node = {"r", "a", "b"}
    RHost = "r"
    MayTcp = {"b"}
    None = "none"
    MaxLapses = 1
    MaxStops = 1
    MaxTrouble = 1
    MayStop = {"b", "r"}
    Goodbye = {FALSE}
    MayStart = {"r", "a", "b"}
    MaxBusy = 0
PROPERTIES MeshForms
CHECK_DEADLOCK FALSE
