SPECIFICATION FairSpec
CONSTANTS
    Viewers = {v1, v2}
    MaxPages = 2
    MaxOps = 1
    MaxVisits = 2
CHECK_DEADLOCK FALSE
INVARIANT
    NoViewerStranded
