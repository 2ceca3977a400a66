SPECIFICATION FairSpec
CONSTANTS
    Followers = {f1}
    Early = {f1}
    Brief = {}
    Cap = 2
    MaxRetries = 0
    MaxSessions = 5
    MaxSnapshots = 5
    MaxSkips = 1
PROPERTY
    CapRestored
