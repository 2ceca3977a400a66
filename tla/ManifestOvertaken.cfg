SPECIFICATION Spec
CONSTANTS
    Sessions = {s1}
    Daemons = {d1}
    None = none
INVARIANTS
    ClosedLeavesNoRow
CHECK_DEADLOCK FALSE
