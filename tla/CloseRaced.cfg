SPECIFICATION PoolSpec
CONSTANTS
    Tasks = {t1}
    Closer = closer
    None = none
    MaxDepth = 1
    MaxCancels = 0
    Requesters = {r1}
INVARIANT LostRaceIsTornDown
