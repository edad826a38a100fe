SPECIFICATION MCSpec
CONSTANTS
    Employee = {1, 2}
    Run = {r1}
    Gift = {2}
    Caps = {3}
    Goal = 4
    Others = {1}
    MaxYear = 1
    MaxFailures = 0
INVARIANTS
    GoalIsFunded
CHECK_DEADLOCK FALSE
