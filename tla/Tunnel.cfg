SPECIFICATION FairSpec
CONSTANTS
    Peer = {"a", "b"}
    Opener = {"a"}
    MayStop = {"b"}
    None = None
    MaxFd = 2
    MaxConn = 2
    MaxWrite = 2
    MaxLost = 1
INVARIANTS PartnersAgree WaitingAnswered OwnData EndedComplete
PROPERTY EndsAtBoth
CHECK_DEADLOCK FALSE
