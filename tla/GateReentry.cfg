SPECIFICATION Spec
CONSTANTS
    Tasks = {t1, t2}
    Closer = closer
    None = none
    MaxDepth = 2
    MaxCancels = 0
SYMMETRY TaskSymmetry
PROPERTY NoLeaseAfterBreak
