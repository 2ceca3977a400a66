SPECIFICATION FairSpec
CONSTANTS
    Viewers = {v1, v2}
    MaxPages = 3
    MaxOps = 2
    MaxVisits = 2
CHECK_DEADLOCK FALSE
INVARIANTS
    NothingLeftBehind
    OneEncoder
    ShowsActivePage
PROPERTIES
    EndReachesViewers
