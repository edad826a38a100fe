SPECIFICATION FairSpec
CONSTANTS
    Request = {r1, r2, r3}
    Admin = {a1, a2}
    Channel = {"card", "sepa", "sponsor", "recurring", "match"}
    Goal = 3
    Amount = {1, 2}
    Tip = {0, 1}
    MaxInFlight = 1
    ProviderFails = FALSE
    Crashes = FALSE
    None = None
INVARIANTS
    BooksBalance
    EverythingOnce
PROPERTIES
    PledgesSettle
