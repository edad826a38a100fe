SPECIFICATION Spec
CONSTANTS
    Request = {r1}
    Admin = {a1, a2}
    Channel = {"sepa"}
    Goal = 1
    Amount = {1}
    Tip = {0}
    MaxInFlight = 2
    ProviderFails = FALSE
    Crashes = FALSE
    None = None
INVARIANTS
    NoDoublePayout
