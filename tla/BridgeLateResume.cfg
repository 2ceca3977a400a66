SPECIFICATION Spec
CONSTANTS
    Calls = {t1, t2}
    Tools = {t1, t2}
    Leaders = {g1, g2}
    First = g1
    None = none
    MaxAttempts = 1
    MaxPending = 2
    MaxSessions = 2
    Timely = FALSE
CHECK_DEADLOCK FALSE
INVARIANT AtMostOnce
