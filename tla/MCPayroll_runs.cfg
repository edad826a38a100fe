SPECIFICATION MCSpec
CONSTANTS
    Employee = {1, 2}
    Run = {r1, r2}
    Gift = {2}
    Caps = {1, 3}
    Goal = 4
    Others = {1}
    MaxYear = 2
    MaxFailures = 1
SYMMETRY Symmetry
INVARIANTS
    WithinCapAlone
    GiftsAreAccounted
CHECK_DEADLOCK FALSE
