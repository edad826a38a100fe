SPECIFICATION Spec
CONSTANTS
    Request = {r1, r2, r3}
    Admin = {a1}
    Channel = {"card", "sepa", "sponsor", "recurring", "match"}
    Goal = 2
    Amount = {1, 2}
    Tip = {0}
    MaxInFlight = 2
    ProviderFails = TRUE
    Crashes = TRUE
    None = None
SYMMETRY Symmetry
INVARIANTS
    MoneyIsBacked
    BookedIsSum
PROPERTIES
    PledgesAreHonoured
    KeepsPromise
