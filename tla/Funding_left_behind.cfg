SPECIFICATION Spec
CONSTANTS
    Request = {r1, r2}
    Admin = {a1}
    Channel = {"card", "sepa"}
    Goal = 2
    Amount = {1}
    Tip = {0}
    MaxInFlight = 1
    ProviderFails = FALSE
    Crashes = FALSE
    None = None
INVARIANTS
    NoPledgeLeftBehind
