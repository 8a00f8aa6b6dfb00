SPECIFICATION Spec
CONSTANTS
    Peer = {"a", "b"}
    Lengths = {2, 3, 6, 9}
    MaxData = 2
    MaxPacket = 8
    LastFlag = 4
    Numbers = 2
    MaxSent = 4
    MaxLapses = 2
INVARIANTS TypeOK NoMix NotLost NoLeftovers
PROPERTIES InOrder
CHECK_DEADLOCK FALSE
