SPECIFICATION FairSpec
CONSTANTS
    Callers = {c1, c2}
    Keys = {k1, k2, k3}
    NoKey = nokey
    Bound = 2
    Window <- ResumeWindowTicks
    Ttl <- TtlTicks
    Patience <- PatienceTicks
INVARIANTS
    CacheTypeOK
PROPERTIES
    RunsAreKnown
    WaitersServed
