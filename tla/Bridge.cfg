SPECIFICATION FairSpec
CONSTANTS
    Calls = {t1, l1}
    Tools = {t1}
    Leaders = {g1, g2}
    First = g1
    None = none
    MaxAttempts = 1
    MaxPending = 1
    MaxSessions = 3
    Timely = TRUE
INVARIANTS
    OnceEach
    CallsAccounted
    StampMissesOnlyMoves
PROPERTIES
    CancelledIsSilent
    CallAnswered
CHECK_DEADLOCK FALSE
