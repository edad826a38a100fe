SPECIFICATION Spec
CONSTANTS
    Append = {a1, a2, a3, a4}
    School = {s1, s2}
    Movement = {m1, m2}
    TamperedTo = {0, 1, 2, 3, 4, 5}
SYMMETRY Symmetry
INVARIANTS
    ChainsAreSound
    TamperingShows
CHECK_DEADLOCK FALSE
