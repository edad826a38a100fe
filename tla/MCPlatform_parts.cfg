SPECIFICATION AllSpec
CONSTANTS
    Hand = {h1, h2}
    EsgRequest = {1}
    EsgReport = {1}
    EsgGrant = {"g"}
    EsgAmount = {4}
    EsgTtl = {0, 9}
    EsgMinTtl = 1
    EsgMaxTtl = 1
    EsgTicks = 2
    Scholar <- OneScholar
    EsgBatch = {1}
    EsgPageLines = 14
    EsgMaxEntries = 1
    EsgMaxTime = 1
    Reconciler = {1}
    BankAmount = {4, 5}
    BankReference = {"a", "b"}
    NoReference = "none"
    StaleAfter = 0
    MatchWindow = 0
    CountedGifts <- ThreeGifts
    BankMaxPayouts = 2
    BankMaxPosted = 1
    BankMaxDay = 1
    Donor = {"u1"}
    MatchedCampaign = {"c1", "c2"}
    Donation = {1, 2, 3}
    GoalOf <- GoalsOfTwo
    AmountOf <- ThreeAmounts
    CampaignOf <- ThreeCampaigns
    DonorOf <- OneDonor
    Program = {"p", "q"}
    Terms <- EmployerTerms
    NoProgram = "none"
    MaxYear = 1
    Company = {"k1"}
    Sponsored = {"c1"}
    Sponsorship = {1, 2}
    TuitionOf <- OneTuition
    CustomAmount = {9}
    Wishes <- OneWish
    StudentOf <- OneStudent
    Staff = {1, 2}
    StaffAccount = {"ada"}
    StaffRecords <- EmployeeRecords
    AskedScopes <- FourScopes
    AskedDeductions <- TwoDeductions
    RosterStarts = 3
    FxDeposit = {1}
    FxRates <- TwoRates
    FxAmounts = {13, 20}
    FxTolerance = 1
    FxMaxTime = 2
    FxMaxSent = 3
    LocalMethods <- KenyanMethods
    IbanCurrency = {"KES", "USD"}
    IbanSchool = {"s1"}
    Iban <- GivenIbans
    Calling = {k1, k2, k3}
    Price = {113, 200}
    RefusedPrice = {113}
    CircleUser = {"u1", "u2"}
    CircleInvite = {"i1"}
    CircleOption = {1, 2}
    CircleVisits = 2
    CohortUser = {"u1"}
    CohortCampaign = {1, 2}
    CohortGoal <- TwoGoals
    CohortTotals = {4, 9}
    CohortDonation <- OneGift
    CohortText = {{"slur"}}
    CohortVisits = 1
    FeedDonor = {"u1", "u2"}
    FeedAmount = {4, 5}
    FeedGoal = 10
    FeedMaxStops = 1
    FeedMaxGifts = 2
    VoicesDonor = {"u1"}
    VoicesAmount = {4}
    VoicesGoal = 10
    Message = {{}, {"slur"}}
    Messenger = {"WHATSAPP"}
    WantedMessengers = {"mock", "telegram", "whatsapp"}
    VoicesMaxStops = 1
    VoicesMaxGifts = 1
    VoicesMaxUpdates = 1
    ReferUser = {1, 2}
    ReferAdvocate = {1, 2}
    ReferCampaign = {"c1"}
    ReferDonation = {"d1"}
    ReferMaxAdvocates = 1
    ReferMaxMonth = 1
    Holder = {"u1", "u2"}
    Email = {"e1"}
    Gift = {"d1", "d2"}
    Length = {9, 10, 14}
    AlertWindow <- AlertWindows
    CriticalWebhooks = 2
    ConsentTab = {"t1", "t2"}
    ConsentEvent = {"gallery_view", "donate_success"}
    ConsentMaxEvents = 3
    MetricsRoute = {"webhook", "other"}
    MetricsDuration = {1, 2}
    MetricsCapacity = 2
    MetricsMinCards = 2
    MetricsMaxRequests = 3
    MetricsMaxTime = 1
    RateMax = 2
    RateWindow = 3
    RateTime = 7
    RateHits = 3
    Tab = {"t1"}
    Account = {"ada", "ben"}
    RoleOf <- TwoRoles
    Known = {"ada"}
    NoAccount = "nobody"
    NoPage = "none"
    MaxForms = 2
    CheckoutGoal = 8
    CheckoutAmount = {3, 5}
    CheckoutFailing = {}
    CheckoutMaxGifts = 2
    CheckoutMaxCalls = 2
    Country = {"KE", "NG"}
    Currency = {"USD", "KES", "NGN"}
    CurrencyOf <- CurrencyOfTwo
    MethodsOf <- MethodsOfTwo
    RateOf <- RateOfPairs
    First <- FirstOfTwo
    NoQuote = NoQuote
    MaxAsked = 5
    MaxDeposits = 1
    ListPage = {"groups", "programs", "donor", "sponsor", "gallery", "payroll"}
    Item = {"a", "b"}
    MaxPageActs = 2
INVARIANTS
    
    BankAgrees
    ClaimsFitTheCap
    
    
    GroupsKeepTheirRules
    
    ErasedIsAnonymous
    AtMostTwiceTheLimit
    MeasuredAsAgreed
    PagesFitTheUser
    
PROPERTIES
    RosterIsKept
    
    ReferralsAreFair
CHECK_DEADLOCK FALSE
