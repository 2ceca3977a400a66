SPECIFICATION FairSpec
CONSTANTS
    MaxPages = 3
    RecoveryMax = 2
CHECK_DEADLOCK FALSE
INVARIANTS
    EachCrashOneRecovery
PROPERTIES
    SlotsKept
    RecoveryEnds
