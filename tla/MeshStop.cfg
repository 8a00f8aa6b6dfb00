SPECIFICATION FairSpec
CONSTANTS
    Node = {"r", "a"}
    RHost = "r"
    MayTcp = {}
    None = "none"
    MaxLapses = 3
    MaxStops = 3
    MaxTrouble = 6
    MayStop = {"r", "a"}
    Goodbye = {TRUE, FALSE}
    MayStart = {"r", "a"}
    MaxBusy = 9
INVARIANTS RHostKnown EventsAgree UntypedIsAsked
PROPERTIES MeshForms NoGhosts
CHECK_DEADLOCK FALSE
