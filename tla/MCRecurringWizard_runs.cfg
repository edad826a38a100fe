SPECIFICATION AllSpec
CONSTANTS
    Pledge = {p1, p2}
    Run = {r1, r2}
    Amount = 2
    Goal = 3
    Outcomes = {"SUCCEEDED", "FAILED"}
    MaxTime = 1
    MaxChanges = 1
    MaxStops = 1
    Tab = {t1}
    Text = {own}
    Offer = offer
    Empty = Empty
    NoDraft = NoDraft
    MaxBudget = 1
    MaxReloads = 2
INVARIANTS
    ChargesAreRight
    DraftsSurvive
PROPERTIES
    RunsAndCallsEnd
CHECK_DEADLOCK FALSE
