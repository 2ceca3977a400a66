SPECIFICATION FairSpec
CONSTANTS
    Viewers = {v1}
    MaxPages = 3
    MaxOps = 2
    MaxVisits = 1
CHECK_DEADLOCK FALSE
PROPERTY
    PreviewNeverMoves
