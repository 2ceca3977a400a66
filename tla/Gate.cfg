SPECIFICATION FairSpec
CONSTANTS
    Tasks = {t1, t2}
    Closer = closer
    None = none
    MaxDepth = 2
    MaxCancels = 1
INVARIANTS
    TypeOK
    LeaseHeld
    NoLostWakeup
    CloseIsLast
    CancelsAccounted
PROPERTIES
    ServesInLine
    CloseIsFinal
    EveryoneAnswered
