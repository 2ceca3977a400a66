SPECIFICATION Spec
CONSTANTS
    Sessions = {s1, s2}
    Daemons = {d1, d2, d3}
    None = none
INVARIANTS
    RowsAreTrue
SYMMETRY Names
CHECK_DEADLOCK FALSE
