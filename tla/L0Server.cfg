SPECIFICATION FairSpec
CONSTANTS
    Name = {"x", "y"}
    None = None
    TcpFd = {5}
    Addr = {"u"}
    MAX_FD_NUMBER = 100
    MaxChannel = 2
    DisconnectAge = 2
    MaxDead = 2
INVARIANTS TypeOK MapsInverse ClientsAccounted SubscribersAgree
PROPERTIES SilentGone LoginAnswered
CHECK_DEADLOCK FALSE
