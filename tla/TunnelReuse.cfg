SPECIFICATION Spec
CONSTANTS
    Peer = {"a", "b"}
    Opener = {"a"}
    MayStop = {}
    None = None
    MaxFd = 2
    MaxConn = 2
    MaxWrite = 1
    MaxLost = 0
INVARIANT NeverMixed
CHECK_DEADLOCK FALSE
