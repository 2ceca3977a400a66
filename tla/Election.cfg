SPECIFICATION FairElectionSpec
CONSTANTS
    Clients = {c1, c2}
    Daemons = {d1, d2}
    Operator = op
    None = None
    MaxStops = 1
    MaxUpsets = 1
    MaxRestarts = 1
CHECK_DEADLOCK FALSE
INVARIANTS
    OneVisibleLeader
PROPERTIES
    RespawnLeavesLeader
    ElectionsServe
