SPECIFICATION FairSpec
CONSTANTS
    Thread = {"t1", "t2"}
    Loop = Loop
    None = None
    MaxCalls = 2
    MaxTimeouts = 0
    MaxFull = 1
    CHECK_RETRIVES = 10
INVARIANTS OnceInOrder Synchronous 
PROPERTY Served
CHECK_DEADLOCK FALSE
