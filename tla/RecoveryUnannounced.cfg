SPECIFICATION FairSpec
CONSTANTS
    MaxPages = 2
    RecoveryMax = 1
PROPERTIES
    RecoveryAnnounced
CHECK_DEADLOCK FALSE
