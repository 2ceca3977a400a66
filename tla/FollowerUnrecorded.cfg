SPECIFICATION FairSpec
CONSTANTS
    Followers = {f1, f2}
    Early = {f1}
    Brief = {}
    Cap = 2
    MaxRetries = 0
    MaxSessions = 1
    MaxSnapshots = 1
    MaxSkips = 0
PROPERTY
    SessionIsRecorded
