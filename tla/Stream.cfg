SPECIFICATION FairSpec
CONSTANTS
    Peer = {"a", "b"}
    None = None
    MayCreate = {"a"}
    MayReuse = {"closed", "lost"}
    MayStop = {"b"}
    BufSize = 2
    MaxCreate = 2
    MaxWrite = 3
    MaxLost = 1
INVARIANTS EndsAgree DataInOrder NothingLost OnlyCallbacksDangle
PROPERTIES PendingResolved OrphanClosed
CHECK_DEADLOCK FALSE
