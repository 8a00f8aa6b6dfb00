SPECIFICATION Spec
CONSTANTS
    Thread = {"t1"}
    Loop = Loop
    None = None
    MaxCalls = 3
    MaxTimeouts = 2
    MaxFull = 1
    CHECK_RETRIVES = 2
INVARIANTS TwiceOnlyIfFull LostOnlyIfFull
CHECK_DEADLOCK FALSE
