SPECIFICATION FairSpec
CONSTANTS
    Followers = {f1, f2}
    Early = {}
    Brief = {}
    Cap = 2
    MaxRetries = 0
    MaxSessions = 2
    MaxSnapshots = 1
    MaxSkips = 0
PROPERTY
    DeadFollowerReaped
