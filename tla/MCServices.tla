------------------------------ MODULE MCServices ------------------------------
(*****************************************************************************)
(* Instances, for TLC, of the parts in which companies, schools and payment  *)
(* providers move money, of the reports about it, and of the parts that      *)
(* supporters and everybody else meet: groups, the impact feed, referrals,   *)
(* accounts, the rate limit and what is measured.  Strings stand for what is *)
(* only compared.                                                            *)
(*****************************************************************************)
EXTENDS Integers, TLC

CONSTANTS
    Hand,    \* the requests of a part that run at the same time
    \* of Esg
    EsgRequest, EsgReport, EsgGrant, EsgAmount, EsgTtl, EsgMinTtl, EsgMaxTtl, EsgTicks, Scholar,
    EsgBatch, EsgPageLines, EsgMaxEntries, EsgMaxTime,
    \* of Reconciliation
    Reconciler, BankAmount, BankReference, NoReference, StaleAfter, MatchWindow, CountedGifts,
    BankMaxPayouts, BankMaxPosted, BankMaxDay,
    \* of Matching
    Donor, MatchedCampaign, Donation, GoalOf, AmountOf, CampaignOf, DonorOf, Program, Terms,
    NoProgram, MaxYear,
    \* of Corporate
    Company, Sponsored, Sponsorship, TuitionOf, CustomAmount, Wishes, StudentOf,
    \* of PayrollRoster
    Staff, StaffAccount, StaffRecords, AskedScopes, AskedDeductions, RosterStarts,
    \* of Payments
    Calling, Price, RefusedPrice,
    \* of Groups: of the circle, and of the cohort
    CircleUser, CircleInvite, CircleOption, CircleVisits,
    CohortUser, CohortCampaign, CohortGoal, CohortTotals, CohortDonation, CohortText, CohortVisits,
    \* of Fx: of the deposits, and of the accounts
    FxDeposit, FxRates, FxAmounts, FxTolerance, FxMaxTime, FxMaxSent,
    LocalMethods, IbanCurrency, IbanSchool, Iban,
    \* of ImpactFeed: of the milestones, and of the voice messages
    FeedDonor, FeedAmount, FeedGoal, FeedMaxStops, FeedMaxGifts,
    VoicesDonor, VoicesAmount, VoicesGoal, Message, Messenger, WantedMessengers, VoicesMaxStops,
    VoicesMaxGifts, VoicesMaxUpdates,
    \* of Referral
    ReferUser, ReferAdvocate, ReferCampaign, ReferDonation, ReferMaxAdvocates, ReferMaxMonth,
    \* of Accounts
    Holder, Email, Gift, Length,
    \* of Observability: of the tabs, and of the requests
    AlertWindow, CriticalWebhooks, ConsentTab, ConsentEvent, ConsentMaxEvents,
    MetricsRoute, MetricsDuration, MetricsCapacity, MetricsMinCards, MetricsMaxRequests,
    MetricsMaxTime,
    \* of RateLimit
    RateMax, RateWindow, RateTime, RateHits

\* Reports on an entry, which not every page has room for, and an auditor who may read it.
OneScholar == 1 :> [gender |-> "FEMALE", country |-> "KE", firstGen |-> TRUE]
VARIABLES esgLedger, esgTags, esgProfiles, esgReports, esgGrants, esgSeen,
    esgNow, esgRequest
esg == <<esgLedger, esgTags, esgProfiles, esgReports, esgGrants, esgSeen, esgNow,
    esgRequest>>
Esg == INSTANCE Esg WITH
    Request <- EsgRequest, Report <- EsgReport, Grant <- EsgGrant, Amount <- EsgAmount,
    Ttl <- EsgTtl, MinTtl <- EsgMinTtl, MaxTtl <- EsgMaxTtl, Ticks <- EsgTicks,
    Person <- Scholar, Batch <- EsgBatch, PageLines <- EsgPageLines,
    MaxEntries <- EsgMaxEntries, MaxTime <- EsgMaxTime,
    ledger <- esgLedger, tags <- esgTags, profiles <- esgProfiles,
    reports <- esgReports, grants <- esgGrants, seen <- esgSeen,
    now <- esgNow, request <- esgRequest

\* One run at a time, two payouts, and what the bank posts.
VARIABLES bankPayouts, bankBank, bankStored, bankViews, bankDay, bankRun
bank == <<bankPayouts, bankBank, bankStored, bankViews, bankDay, bankRun>>
ThreeGifts ==
    [g \in 1..3 |-> [amount |-> g, country |-> IF g = 2 THEN "KE" ELSE "DE", campaign |-> "c"]]
Reconciliation == INSTANCE Reconciliation WITH
    Run <- Reconciler, Amount <- BankAmount, Reference <- BankReference,
    Window <- MatchWindow, Gifts <- CountedGifts, MaxPayouts <- BankMaxPayouts,
    MaxPosted <- BankMaxPosted, MaxDay <- BankMaxDay,
    payouts <- bankPayouts, bank <- bankBank, stored <- bankStored,
    views <- bankViews, day <- bankDay, run <- bankRun

\* One donor, two employers and two campaigns, two requests.
VARIABLES matchCampaigns, matchUsers, matchClaims, matchYear, matchRequest,
    matchAlone
match == <<matchCampaigns, matchUsers, matchClaims, matchYear, matchRequest,
    matchAlone>>
GoalsOfTwo == ("c1" :> 6) @@ ("c2" :> 3)
ThreeAmounts == <<2, 3, 4>>
ThreeCampaigns == <<"c1", "c1", "c2">>
OneDonor == <<"u1", "u1", "u1">>
EmployerTerms ==
    ("p" :> [ratio |-> 100, cap |-> 4, min |-> 2, active |-> TRUE, level |-> "MANUAL"]) @@
    ("q" :> [ratio |-> 200, cap |-> 5, min |-> 3, active |-> TRUE, level |-> "PORTAL"])
Matching == INSTANCE Matching WITH
    Request <- Hand, User <- Donor, Campaign <- MatchedCampaign, Donation <- Donation,
    Goal <- GoalOf, AmountOf <- AmountOf, CampaignOf <- CampaignOf,
    DonorOf <- DonorOf, Program <- Program, Terms <- Terms, Nobody <- NoProgram,
    MaxYear <- MaxYear,
    campaigns <- matchCampaigns, users <- matchUsers, claims <- matchClaims,
    year <- matchYear, request <- matchRequest, alone <- matchAlone

\* A company, two sponsorships of one campaign, two requests.
VARIABLES corpProfiles, corpCampaigns, corpSponsorships, corpCharged,
    corpRequest, corpAlone
corp == <<corpProfiles, corpCampaigns, corpSponsorships, corpCharged, corpRequest,
    corpAlone>>
OneTuition == "c1" :> 5
OneStudent == "c1" :> "s1"
OneWish == {<<TRUE, FALSE>>}
Corporate == INSTANCE Corporate WITH
    Request <- Hand, Company <- Company, Campaign <- Sponsored,
    Sponsorship <- Sponsorship, Goal <- TuitionOf, CustomAmount <- CustomAmount,
    Wishes <- Wishes, Student <- StudentOf,
    profiles <- corpProfiles, campaigns <- corpCampaigns,
    sponsorships <- corpSponsorships, charged <- corpCharged,
    request <- corpRequest, alone <- corpAlone

\* Two employees, one of whom has an account, and two requests.
VARIABLES rosterHris, rosterStatus, rosterScopes, rosterProfile, rosterLog,
    rosterLines, rosterTask, rosterStarts, rosterAlone
roster == <<rosterHris, rosterStatus, rosterScopes, rosterProfile, rosterLog,
    rosterLines, rosterTask, rosterStarts, rosterAlone>>
EmployeeRecords ==
    {[present |-> TRUE, band |-> 40, preTax |-> TRUE, email |-> "ada"],
     [present |-> TRUE, band |-> 40, preTax |-> FALSE, email |-> "none"]}
FourScopes == {{{}}, {{}, {"admin"}}, {{"modify"}}, {{"blank"}}}
TwoDeductions == {[amount |-> 9, preTax |-> TRUE, rate |-> r] : r \in {50, 120}}
Roster == INSTANCE PayrollRoster WITH
    Handler <- Hand, Employee <- Staff, Account <- StaffAccount,
    Records <- StaffRecords, Scopes <- AskedScopes, Deductions <- AskedDeductions,
    MaxStarts <- RosterStarts,
    hris <- rosterHris, status <- rosterStatus, scopes <- rosterScopes,
    profile <- rosterProfile, log <- rosterLog, lines <- rosterLines,
    task <- rosterTask, starts <- rosterStarts, alone <- rosterAlone

\* A deposit that succeeds and one that the mock refuses; webhooks are
\* repeated and reordered.
TwoRates == {<<259, 2>>, <<1297, 10>>}
KenyanMethods == "KE" :> {"MPESA"}
VARIABLES fxRate, fxDeposits, fxSent, fxAccounts, fxNow, fxTask, fxAlone
fx == <<fxRate, fxDeposits, fxSent, fxAccounts, fxNow, fxTask, fxAlone>>
Fx == INSTANCE Fx WITH
    Handler <- Hand, Deposit <- FxDeposit, Currency <- IbanCurrency,
    Rates <- FxRates, Amounts <- FxAmounts, Methods <- LocalMethods, School <- {}, Iban <- {},
    Tolerance <- FxTolerance, MaxTime <- FxMaxTime, MaxSent <- FxMaxSent,
    rate <- fxRate, deposits <- fxDeposits, sent <- fxSent,
    accounts <- fxAccounts, now <- fxNow, task <- fxTask, alone <- fxAlone

\* The IBANs a school may give: three check digits for each of three
\* accounts, two of which are right.
VARIABLES ibanRate, ibanDeposits, ibanSent, ibanAccounts, ibanNow, ibanTask,
    ibanAlone
iban == <<ibanRate, ibanDeposits, ibanSent, ibanAccounts, ibanNow, ibanTask,
    ibanAlone>>
GivenIbans ==
    {<<13, 14, c \div 10, c % 10, 3, 7, 0, 4, 0, 0, 4, 4, 0, 5, b>> :
        c \in {13, 40, 67}, b \in 3..5}
Ibans == INSTANCE Fx WITH
    Handler <- Hand, Deposit <- {}, Currency <- IbanCurrency,
    Rates <- {<<259, 2>>}, Amounts <- {}, Methods <- LocalMethods,
    School <- IbanSchool, Iban <- Iban, Tolerance <- 1, MaxTime <- 0, MaxSent <- 0,
    rate <- ibanRate, deposits <- ibanDeposits, sent <- ibanSent,
    accounts <- ibanAccounts, now <- ibanNow, task <- ibanTask,
    alone <- ibanAlone

\* Three calls of a provider, one amount of which the mock refuses.
VARIABLES payProvider, payMade, payCall, payLost
pay == <<payProvider, payMade, payCall, payLost>>
Payments == INSTANCE Payments WITH
    Call <- Calling, Amount <- Price, Refused <- RefusedPrice,
    provider <- payProvider, made <- payMade, call <- payCall, lost <- payLost

\* The instances are of the kind that the modules are made for.
ASSUME MoneyAssumption ==
    /\ Esg!EsgAssumption
    /\ Reconciliation!ReconciliationAssumption
    /\ Matching!MatchingAssumption
    /\ Corporate!CorporateAssumption
    /\ Roster!RosterAssumption
    /\ Fx!FxAssumption
    /\ Ibans!FxAssumption
    /\ Payments!PaymentsAssumption

\* What the pure rules promise, on small tables: a pair and its opposite are
\* inverses, the locked rate never is zero and loses nothing by itself, large sums
\* are looked at twice (locked-rate, mock-fx-rate, fx-slippage,
\* country-kyc-requirement, the factories of providers) ...
PerDollar == [EUR |-> <<9, 10>>, KES |-> <<259, 2>>, XXX |-> <<0, 1>>]
ASSUME RatesAssumption ==
    LET table == (<<"USD", "EUR">> :> PerDollar.EUR) @@ (<<"USD", "XXX">> :> PerDollar.XXX)
        Pairs == {"USD", "EUR", "KES"} \X {"USD", "EUR", "KES"}
    IN  /\ \A p \in Pairs :
              LET there == Fx!CrossRate(PerDollar, p[1], p[2])
                  back == Fx!CrossRate(PerDollar, p[2], p[1])
              IN  there[1] * back[1] = there[2] * back[2]
        /\ Fx!LockedRate(table, "EUR", "USD") = {<<10, 9>>}
        /\ Fx!LockedRate(table, "USD", "XXX") = {} /\ Fx!LockedRate(table, "KES", "EUR") = {}
        /\ \A amount \in 0..20 :
              /\ Fx!Slippage(amount, <<10, 9>>, <<10, 9>>).direction = "FLAT"
              /\ Fx!Slippage(amount, <<1, 1>>, <<2, 1>>).amount = amount
        /\ ~Fx!EnhancedReview("KE" :> 500, "KE", 499) /\ Fx!EnhancedReview("KE" :> 500, "DE", 100000)
        /\ \A key, secret \in BOOLEAN :
              Fx!DepositProvider([provider |-> "mpesa", key |-> key, secret |-> secret]) = "mpesa"
                  <=> key /\ secret

\* ... and an employer is found by the domain of an address, or not at all
\* (extractDomain, lookupByDomain).
ASSUME EmployersAssumption ==
    LET answers == [status : {200, 404, 500},
                    company : {[type |-> "portal", max |-> 5], [type |-> "other", ratio |-> 2]}]
    IN  /\ \A at, dot, space \in BOOLEAN :
              LET domain == Matching!ExtractDomain(
                                [at |-> at, dot |-> dot, space |-> space, domain |-> "p"])
              IN  domain # NoProgram => at /\ dot /\ ~space
        /\ \A a \in answers :
              IF a.status = 404 THEN Matching!DtdLookup(a) = NoProgram
              ELSE a.status = 200 =>
                       /\ Matching!DtdLookup(a).active
                       /\ Matching!DtdLookup(a).ratio = IF a.company.type = "other" THEN 200 ELSE 100
        /\ \A key \in BOOLEAN :
              Matching!MatchProvider([provider |-> "dtd", key |-> key]) = "dtd" <=> key
-----------------------------------------------------------------------------
\* A group of two, an invitation and a vote, one request at a time.
VARIABLES circleMode, circleMembers, circleInvites, circleLinked,
    circleRaised, circleContributions, circleMessages, circleVote, circleTask,
    circleVisits
circle == <<circleMode, circleMembers, circleInvites, circleLinked, circleRaised,
    circleContributions, circleMessages, circleVote, circleTask, circleVisits>>
Circle == INSTANCE Groups WITH
    Handler <- {1}, User <- CircleUser, Invite <- CircleInvite, Campaign <- {},
    Goal <- <<>>, Totals <- {}, Donation <- <<>>, Option <- CircleOption,
    Text <- {}, MaxVisits <- CircleVisits,
    mode <- circleMode, members <- circleMembers, invites <- circleInvites,
    linked <- circleLinked, raised <- circleRaised,
    contributions <- circleContributions, messages <- circleMessages,
    vote <- circleVote, task <- circleTask, visits <- circleVisits

\* A cohort of one with two campaigns, which a company matches, and a chat.
VARIABLES cohortMode, cohortMembers, cohortInvites, cohortLinked,
    cohortRaised, cohortContributions, cohortMessages, cohortVote, cohortTask,
    cohortVisits
cohort == <<cohortMode, cohortMembers, cohortInvites, cohortLinked, cohortRaised,
    cohortContributions, cohortMessages, cohortVote, cohortTask, cohortVisits>>
TwoGoals == <<2, 3>>
OneGift == <<"u1">>
Cohort == INSTANCE Groups WITH
    Handler <- Hand, User <- CohortUser, Invite <- {}, Campaign <- CohortCampaign,
    Goal <- CohortGoal, Totals <- CohortTotals, Donation <- CohortDonation, Option <- {},
    Text <- CohortText, MaxVisits <- CohortVisits,
    mode <- cohortMode, members <- cohortMembers, invites <- cohortInvites,
    linked <- cohortLinked, raised <- cohortRaised,
    contributions <- cohortContributions, messages <- cohortMessages,
    vote <- cohortVote, task <- cohortTask, visits <- cohortVisits

\* Two donors and two gifts that reach 80, 90 or 100 percent of the goal.
VARIABLES feedRaised, feedGifts, feedSubscribers, feedTold, feedPrefs,
    feedVoices, feedSent, feedSeen, feedProvider, feedTask, feedStops
feed == <<feedRaised, feedGifts, feedSubscribers, feedTold, feedPrefs, feedVoices,
    feedSent, feedSeen, feedProvider, feedTask, feedStops>>
Feed == INSTANCE ImpactFeed WITH
    Request <- Hand, Donor <- FeedDonor, Amount <- FeedAmount, Goal <- FeedGoal,
    Voice <- {}, Channel <- {}, Wanted <- {"mock"}, MaxStops <- FeedMaxStops,
    MaxGifts <- FeedMaxGifts, MaxUpdates <- 0,
    raised <- feedRaised, gifts <- feedGifts, subscribers <- feedSubscribers,
    told <- feedTold, prefs <- feedPrefs, voices <- feedVoices,
    sent <- feedSent, seen <- feedSeen, provider <- feedProvider,
    task <- feedTask, stops <- feedStops

\* A voice message that moderation finds nothing in, and one with a slur.
VARIABLES voicesRaised, voicesGifts, voicesSubscribers, voicesTold,
    voicesPrefs, voicesVoices, voicesSent, voicesSeen, voicesProvider, voicesTask,
    voicesStops
voices == <<voicesRaised, voicesGifts, voicesSubscribers, voicesTold, voicesPrefs,
    voicesVoices, voicesSent, voicesSeen, voicesProvider, voicesTask,
    voicesStops>>
Voices == INSTANCE ImpactFeed WITH
    Request <- Hand, Donor <- VoicesDonor, Amount <- VoicesAmount, Goal <- VoicesGoal,
    Voice <- Message, Channel <- Messenger, Wanted <- WantedMessengers,
    MaxStops <- VoicesMaxStops, MaxGifts <- VoicesMaxGifts, MaxUpdates <- VoicesMaxUpdates,
    raised <- voicesRaised, gifts <- voicesGifts,
    subscribers <- voicesSubscribers, told <- voicesTold,
    prefs <- voicesPrefs, voices <- voicesVoices, sent <- voicesSent,
    seen <- voicesSeen, provider <- voicesProvider, task <- voicesTask,
    stops <- voicesStops

\* Users, advocates and donations, within a few months.
VARIABLES referDonations, referLinks, referInvites, referAttributions,
    referMonth, referTask
refer == <<referDonations, referLinks, referInvites, referAttributions, referMonth,
    referTask>>
Referral == INSTANCE Referral WITH
    Handler <- Hand, User <- ReferUser, Advocate <- ReferAdvocate,
    Campaign <- ReferCampaign, Donation <- ReferDonation,
    MaxAdvocates <- ReferMaxAdvocates, MaxMonth <- ReferMaxMonth,
    donations <- referDonations, links <- referLinks, invites <- referInvites,
    attributions <- referAttributions, month <- referMonth, task <- referTask

\* Two users and two donations.
VARIABLES accUsers, accTokens, accDonations, accRequest
acc == <<accUsers, accTokens, accDonations, accRequest>>
Accounts == INSTANCE Accounts WITH
    Request <- Hand, User <- Holder, Email <- Email, Donation <- Gift, Length <- Length,
    users <- accUsers, tokens <- accTokens, donations <- accDonations,
    request <- accRequest

\* Two requests a window, the window three ticks.
VARIABLES rateNow, rateBucket, rateAllowed, rateHits
rate == <<rateNow, rateBucket, rateAllowed, rateHits>>
RateLimit == INSTANCE RateLimit WITH
    limit <- RateMax, windowMs <- RateWindow, MaxTime <- RateTime, MaxHits <- RateHits,
    now <- rateNow, bucket <- rateBucket, allowed <- rateAllowed,
    hits <- rateHits

\* Two tabs of a browser whose visitor agrees, declines or says nothing.
VARIABLES consentStored, consentConsent, consentEvents, consentSamples,
    consentCards, consentTurnedAway, consentRequests, consentNow
consent == <<consentStored, consentConsent, consentEvents, consentSamples,
    consentCards, consentTurnedAway, consentRequests, consentNow>>
AlertWindows == [fast |-> 2, fast_short |-> 1, slow |-> 3, slow_short |-> 1]
Consent == INSTANCE Observability WITH
    Tab <- ConsentTab, EventType <- ConsentEvent,
    Route <- {}, Duration <- {}, Capacity <- 3, Windows <- AlertWindow,
    CriticalWebhooks <- CriticalWebhooks, MinCards <- 0, MaxEvents <- ConsentMaxEvents,
    MaxRequests <- 0,
    MaxTime <- 0,
    stored <- consentStored, consent <- consentConsent,
    events <- consentEvents, samples <- consentSamples, cards <- consentCards,
    turnedAway <- consentTurnedAway, requests <- consentRequests,
    now <- consentNow

\* Three requests, in a store for two.
VARIABLES metricsStored, metricsConsent, metricsEvents, metricsSamples,
    metricsCards, metricsTurnedAway, metricsRequests, metricsNow
metrics == <<metricsStored, metricsConsent, metricsEvents, metricsSamples,
    metricsCards, metricsTurnedAway, metricsRequests, metricsNow>>
Metrics == INSTANCE Observability WITH
    Tab <- {}, EventType <- {}, Route <- MetricsRoute,
    Duration <- MetricsDuration, Capacity <- MetricsCapacity, Windows <- AlertWindow,
    CriticalWebhooks <- CriticalWebhooks, MinCards <- MetricsMinCards, MaxEvents <- 0,
    MaxRequests <- MetricsMaxRequests, MaxTime <- MetricsMaxTime,
    stored <- metricsStored, consent <- metricsConsent,
    events <- metricsEvents, samples <- metricsSamples, cards <- metricsCards,
    turnedAway <- metricsTurnedAway, requests <- metricsRequests,
    now <- metricsNow

\* The instances are of the kind that the modules are made for.
ASSUME CommunityAssumption ==
    /\ Circle!GroupsAssumption
    /\ Cohort!GroupsAssumption
    /\ Feed!ImpactFeedAssumption
    /\ Voices!ImpactFeedAssumption
    /\ Referral!ReferralAssumption
    /\ Accounts!AccountsAssumption
    /\ RateLimit!RateLimitAssumption
    /\ Consent!ObservabilityAssumption
    /\ Metrics!ObservabilityAssumption
==============================================================================
