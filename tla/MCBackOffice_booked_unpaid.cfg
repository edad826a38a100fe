SPECIFICATION AllSpec
CONSTANTS
    Request = {r1, r2}
    s1 = s1
    s2 = s2
    School = {s1}
    Award = {a1}
    SchoolOf <- AllToFirst
    MaxInFlight = 1
    Operations = {"award", "tranche"}
    Outcomes = {"SENT", "FAILED"}
    MaxStops = 0
    MaxToggles = 0
    Hand = {h1}
    NoName = NoName
    Partner = {"s"}
    OnboardingLink = {"t"}
    Pupil = {"pupil"}
    CampaignGoal = {1, 2}
    ImportHand = {1}
    Reference = {"A1", "a1"}
    LowerCase <- SmallLetters
    AdmissionList <- NamedTwice
    KycCase = {"c"}
    KycName <- SomeNames
    KycStops = 1
    Campaign = {"c"}
    Disputes = {1, 2, 3}
    Against <- AllAgainstOne
    Low = {1}
    Flag = {"f"}
    Suspicion = {40}
    MaxScans = 1
    MaxDonations = 6
    MaxChargebacks = 1
    MaxScored = 2
    Rows = {"a", "b"}
    Panel = {"verification", "approval", "kyc"}
    None = "none"
    MaxCalls = 3
SYMMETRY Symmetry
INVARIANTS
    BookedIsPaid
CHECK_DEADLOCK FALSE
