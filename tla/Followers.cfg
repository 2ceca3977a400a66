SPECIFICATION Spec
CONSTANTS
    Followers = {f1, f2}
    Early = {f1}
    Brief = {f2}
    Cap = 1
    MaxRetries = 1
    MaxSessions = 3
    MaxSnapshots = 2
    MaxSkips = 1
INVARIANTS
    RegistrationHolds
    CapShed
PROPERTIES
    RowOutlivesSession
