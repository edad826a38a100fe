SPECIFICATION AllSpec
CONSTANTS
    Request = {r1, r2, r3}
    s1 = s1
    s2 = s2
    School = {s1, s2}
    Award = {a1}
    SchoolOf <- AllToFirst
    MaxInFlight = 3
    Operations = {"award", "tranche", "local"}
    Outcomes = {"SENT", "FAILED"}
    MaxStops = 1
    MaxToggles = 1
    Hand = {h1, h2}
    NoName = NoName
    Partner = {"s"}
    OnboardingLink = {"t"}
    Pupil = {"pupil"}
    CampaignGoal = {1, 2}
    ImportHand = {1}
    Reference = {"A1", "a1"}
    LowerCase <- SmallLetters
    AdmissionList <- NamedTwice
    KycCase = {"c"}
    KycName <- SomeNames
    KycStops = 1
    Campaign = {"c"}
    Disputes = {1, 2, 3}
    Against <- AllAgainstOne
    Low = {1}
    Flag = {"f"}
    Suspicion = {40}
    MaxScans = 1
    MaxDonations = 6
    MaxChargebacks = 1
    MaxScored = 2
    Rows = {"a", "b"}
    Panel = {"verification", "approval", "kyc"}
    None = "none"
    MaxCalls = 3
SYMMETRY Symmetry
INVARIANTS
    AwardPaidOnceAlone
    PaymentsAreRecorded
    
    FreezesHaveACause
    QueuesAreHandledInOrder
PROPERTIES
    KeepsLedger
    SchoolsDecide
CHECK_DEADLOCK FALSE
