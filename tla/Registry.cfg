SPECIFICATION Spec
CONSTANTS
    N = 3
    Clients = 2
    Mode = "keep-id"
    MaxUpsets = 2
CHECK_DEADLOCK FALSE
INVARIANTS
    NoLostBrowser
    RegistryIsTrue
    NothingStuck
PROPERTIES
    ResetSparesTheLiving
