SPECIFICATION Spec
CONSTANTS
    Thread = {"t1"}
    Loop = Loop
    None = None
    MaxCalls = 2
    MaxTimeouts = 1
    MaxFull = 0
    CHECK_RETRIVES = 10
INVARIANT LoopReleases
CHECK_DEADLOCK FALSE
