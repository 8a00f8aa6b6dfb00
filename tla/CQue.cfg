SPECIFICATION FairSpec
CONSTANTS
    MaxId = 3
    MaxAdds = 4
    MaxDepth = 2
    Data = {"a", "b"}
    Untimed = TRUE
INVARIANTS
    AtMostOnce
    Accounted
    OnlyWrapOverwrites
PROPERTIES ImplementsOneShot TimedCallResolved
CHECK_DEADLOCK FALSE
