SPECIFICATION ElectionSpec
CONSTANTS
    Clients = {c1, c2}
    Daemons = {d1, d2}
    Operator = op
    None = None
    MaxStops = 0
    MaxUpsets = 0
    MaxRestarts = 1
PROPERTIES
    RestartErasesOnlyStopped
CHECK_DEADLOCK FALSE
