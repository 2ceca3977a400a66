SPECIFICATION FairSpec
CONSTANTS
    Followers = {f1, f2}
    Early = {}
    Brief = {}
    Cap = 1
    MaxRetries = 0
    MaxSessions = 3
    MaxSnapshots = 2
    MaxSkips = 0
PROPERTY
    SilentShedFirst
