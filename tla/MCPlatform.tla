------------------------------ MODULE MCPlatform ------------------------------
(*****************************************************************************)
(* Instances, for TLC, of the pages in the browser; and these and the parts  *)
(* of MCServices, each explored on its own: they share no state, so that     *)
(* interleaving them would show nothing more.                                *)
(* focus is the part whose steps a behaviour consists of; a part that waits  *)
(* stays in an initial state.                                                *)
(*****************************************************************************)
EXTENDS MCServices, FiniteSets

CONSTANTS
    Tab, Account, RoleOf, Known, NoAccount, NoPage, MaxForms,  \* of WebSession
    \* of WebCheckout
    CheckoutGoal, CheckoutAmount, CheckoutFailing, CheckoutMaxGifts, CheckoutMaxCalls,
    \* of WebDeposit
    Country, Currency, CurrencyOf, MethodsOf, RateOf, First, NoQuote, MaxAsked, MaxDeposits,
    ListPage, Item, MaxPageActs    \* of WebPages

\* One tab, and two accounts of which one exists when the browser is opened.
VARIABLES sessionStored, sessionUser, sessionPage, sessionGoing, sessionForm,
    sessionCalls, sessionSent, sessionLeaving, sessionKnown, sessionErased
session == <<sessionStored, sessionUser, sessionPage, sessionGoing, sessionForm,
    sessionCalls, sessionSent, sessionLeaving, sessionKnown, sessionErased>>
TwoRoles == [ada |-> "DONOR", ben |-> "STUDENT"]
Session == INSTANCE WebSession WITH
    Tab <- Tab, Account <- Account, RoleOf <- RoleOf, Known <- Known,
    Nobody <- NoAccount, NoPage <- NoPage, MaxCalls <- MaxForms,
    stored <- sessionStored, user <- sessionUser, page <- sessionPage,
    going <- sessionGoing, form <- sessionForm, calls <- sessionCalls,
    sent <- sessionSent, leaving <- sessionLeaving, known <- sessionKnown,
    erased <- sessionErased

\* Two gifts to a campaign, by the page or by others.
VARIABLES checkoutRole, checkoutRaised, checkoutGifts, checkoutDetail,
    checkoutCard, checkoutBox, checkoutOffer, checkoutCalls, checkoutSent,
    checkoutCharges, checkoutQuiet
checkout == <<checkoutRole, checkoutRaised, checkoutGifts, checkoutDetail, checkoutCard,
    checkoutBox, checkoutOffer, checkoutCalls, checkoutSent, checkoutCharges,
    checkoutQuiet>>
Checkout == INSTANCE WebCheckout WITH
    Goal <- CheckoutGoal, Amount <- CheckoutAmount, Failing <- CheckoutFailing,
    MaxGifts <- CheckoutMaxGifts, MaxCalls <- CheckoutMaxCalls,
    role <- checkoutRole, raised <- checkoutRaised, gifts <- checkoutGifts,
    detail <- checkoutDetail, card <- checkoutCard, box <- checkoutBox,
    offer <- checkoutOffer, calls <- checkoutCalls, sent <- checkoutSent,
    charges <- checkoutCharges, quiet <- checkoutQuiet

\* Two countries with a currency each, and three currencies.
VARIABLES depositCountry, depositDepositCurrency, depositPayoutCurrency,
    depositMethods, depositMethod, depositQuote, depositAsked, depositNr,
    depositDeposits, depositDone, depositSteady
deposit == <<depositCountry, depositDepositCurrency, depositPayoutCurrency,
    depositMethods, depositMethod, depositQuote, depositAsked, depositNr,
    depositDeposits, depositDone, depositSteady>>
CurrencyOfTwo == [KE |-> "KES", NG |-> "NGN"]
MethodsOfTwo == [KE |-> <<"MPESA", "CARD">>, NG |-> <<"BANK", "CARD">>]
FirstOfTwo == [country |-> "KE", currency |-> "USD", method |-> "MPESA"]
RateOfPairs ==
    [p \in {"USD", "KES", "NGN"} \X {"USD", "KES", "NGN"} |->
        IF p[1] = p[2] THEN 1 ELSE IF p = <<"USD", "KES">> THEN 2 ELSE IF p[1] = "USD" THEN 3 ELSE 4]
Deposit == INSTANCE WebDeposit WITH
    Country <- Country, Currency <- Currency, CurrencyOf <- CurrencyOf,
    MethodsOf <- MethodsOf, Rate <- RateOf, First <- First,
    Blank <- NoQuote, MaxAsked <- MaxAsked, MaxDeposits <- MaxDeposits,
    country <- depositCountry, depositCurrency <- depositDepositCurrency,
    payoutCurrency <- depositPayoutCurrency, methods <- depositMethods,
    method <- depositMethod, quote <- depositQuote, asked <- depositAsked,
    nr <- depositNr, deposits <- depositDeposits, done <- depositDone,
    steady <- depositSteady

\* Two items, and two acts of the user on each of the pages.
VARIABLES pagesPage, pagesSelected, pagesPane, pagesVersion, pagesCalls,
    pagesActs, pagesSingle
pages == <<pagesPage, pagesSelected, pagesPane, pagesVersion, pagesCalls, pagesActs,
    pagesSingle>>
Pages == INSTANCE WebPages WITH
    Page <- ListPage, Item <- Item, MaxActs <- MaxPageActs,
    page <- pagesPage, selected <- pagesSelected, pane <- pagesPane,
    version <- pagesVersion, calls <- pagesCalls, acts <- pagesActs,
    single <- pagesSingle

\* The instances are of the kind that the modules are made for.
ASSUME WebAssumption ==
    /\ Session!SessionAssumption
    /\ Checkout!CheckoutAssumption
    /\ Deposit!DepositPageAssumption
    /\ Pages!PagesAssumption
-----------------------------------------------------------------------------

VARIABLE focus   \* the part that a behaviour is about
VARIABLE alone   \* history: no two requests have run at the same time

Part == {"esg", "bank", "match", "corp", "roster", "fx", "iban", "pay",
         "circle", "cohort", "feed", "voices", "refer", "acc", "rate",
         "consent", "metrics", "session", "checkout", "deposit", "pages"}
allVars == <<focus, alone, esg, bank, match, corp, roster, fx, iban, pay,
             circle, cohort, feed, voices, refer, acc, rate, consent, metrics,
             session, checkout, deposit, pages>>

AllInit ==
    /\ focus \in Part /\ alone = TRUE
    /\ Esg!Init /\ Reconciliation!Init /\ Matching!Init /\ Corporate!Init
    /\ Ibans!Init /\ Feed!Init /\ Referral!Init /\ Accounts!Init
    /\ RateLimit!Init /\ Consent!Init /\ Metrics!Init /\ Session!Init
    /\ Deposit!Init
    \* Of a part that waits, one initial state will do.
    /\ Roster!Init /\ (focus # "roster" => rosterHris = [e \in Staff |-> Roster!Gone])
    /\ Fx!Init /\ (focus # "fx" => fxRate = CHOOSE r \in FxRates : TRUE)
    /\ Payments!Init /\ (focus # "pay" => payProvider = "mock")
    /\ Circle!Init
    /\ focus # "circle" =>
           circleMode = "COHORT" /\ DOMAIN circleMembers = {CHOOSE u \in CircleUser : TRUE}
    /\ Cohort!Init /\ (focus # "cohort" => cohortMode = "COHORT")
    /\ Voices!Init /\ (focus # "voices" => voicesProvider = "mock")
    /\ Checkout!Init
    /\ focus # "checkout" =>
           checkoutRole = "DONOR" /\ checkoutCard.amount = CHOOSE x \in CheckoutAmount : TRUE
    /\ Pages!Init /\ (focus # "pages" => pagesPage = CHOOSE p \in ListPage : TRUE)

\* The other parts wait.
OtherParts(part) ==
    /\ UNCHANGED focus
    /\ IF part = "esg" THEN TRUE ELSE UNCHANGED esg
    /\ IF part = "bank" THEN TRUE ELSE UNCHANGED bank
    /\ IF part = "match" THEN TRUE ELSE UNCHANGED match
    /\ IF part = "corp" THEN TRUE ELSE UNCHANGED corp
    /\ IF part = "roster" THEN TRUE ELSE UNCHANGED roster
    /\ IF part = "fx" THEN TRUE ELSE UNCHANGED fx
    /\ IF part = "iban" THEN TRUE ELSE UNCHANGED iban
    /\ IF part = "pay" THEN TRUE ELSE UNCHANGED pay
    /\ IF part = "circle" THEN TRUE ELSE UNCHANGED circle
    /\ IF part = "cohort" THEN TRUE ELSE UNCHANGED cohort
    /\ IF part = "feed" THEN TRUE ELSE UNCHANGED feed
    /\ IF part = "voices" THEN TRUE ELSE UNCHANGED voices
    /\ IF part = "refer" THEN TRUE ELSE UNCHANGED refer
    /\ IF part = "acc" THEN TRUE ELSE UNCHANGED acc
    /\ IF part = "rate" THEN TRUE ELSE UNCHANGED rate
    /\ IF part = "consent" THEN TRUE ELSE UNCHANGED consent
    /\ IF part = "metrics" THEN TRUE ELSE UNCHANGED metrics
    /\ IF part = "session" THEN TRUE ELSE UNCHANGED session
    /\ IF part = "checkout" THEN TRUE ELSE UNCHANGED checkout
    /\ IF part = "deposit" THEN TRUE ELSE UNCHANGED deposit
    /\ IF part = "pages" THEN TRUE ELSE UNCHANGED pages

AtMostOneRequest ==
    /\ Cardinality({h \in Hand : cohortTask[h] # Cohort!Idle}) <= 1
    /\ Cardinality({h \in Hand : feedTask[h] # Feed!Idle}) <= 1
    /\ Cardinality({h \in Hand : referTask[h] # Referral!Idle}) <= 1
    /\ Cardinality({h \in Hand : voicesTask[h] # Voices!Idle}) <= 1

AllNext ==
  /\ \/ focus = "esg" /\ Esg!Next /\ OtherParts("esg")
     \/ focus = "bank" /\ Reconciliation!Next /\ OtherParts("bank")
     \/ focus = "match" /\ Matching!Next /\ OtherParts("match")
     \/ focus = "corp" /\ Corporate!Next /\ OtherParts("corp")
     \/ focus = "roster" /\ Roster!Next /\ OtherParts("roster")
     \/ focus = "fx" /\ Fx!Next /\ OtherParts("fx")
     \/ focus = "iban" /\ Ibans!Next /\ OtherParts("iban")
     \/ focus = "pay" /\ Payments!Next /\ OtherParts("pay")
     \/ focus = "circle" /\ Circle!Next /\ OtherParts("circle")
     \/ focus = "cohort" /\ Cohort!Next /\ OtherParts("cohort")
     \/ focus = "feed" /\ Feed!Next /\ OtherParts("feed")
     \/ focus = "voices" /\ Voices!Next /\ OtherParts("voices")
     \/ focus = "refer" /\ Referral!Next /\ OtherParts("refer")
     \/ focus = "acc" /\ Accounts!Next /\ OtherParts("acc")
     \/ focus = "rate" /\ RateLimit!Next /\ OtherParts("rate")
     \/ focus = "consent" /\ Consent!Next /\ OtherParts("consent")
     \/ focus = "metrics" /\ Metrics!Next /\ OtherParts("metrics")
     \/ focus = "session" /\ Session!Next /\ OtherParts("session")
     \/ focus = "checkout" /\ Checkout!Next /\ OtherParts("checkout")
     \/ focus = "deposit" /\ Deposit!Next /\ OtherParts("deposit")
     \/ focus = "pages" /\ Pages!Next /\ OtherParts("pages")
  /\ alone' = (alone /\ AtMostOneRequest')

AllSpec == AllInit /\ [][AllNext]_allVars
-----------------------------------------------------------------------------

(* Money.  Each property includes the types of its part.                   *)

\* The figures of a report are those of the entries of its export (createReport,
\* reportCsv), whatever is booked or tagged meanwhile; excerpts hide no earlier entry.
ReportsAddUp == focus = "esg" =>
    /\ Esg!TypeOK
    /\ Esg!ReportsAddUp
    /\ Esg!ExcerptsAreHonest
    /\ Esg!ListedGrantsOpen
    /\ Esg!MissingFieldsAreAskedFor

\* Every bank transaction has one place, every payout that lacks one an alert, what
\* fits is not left over, and all exports agree; the IBANs of schools catch a slip of
\* the pen (reconcile, classifyUnmatched, buildJournal, createSchoolAccount).
BankAgrees ==
    /\ focus = "bank" => /\ Reconciliation!TypeOK
                         /\ Reconciliation!EachTransactionOnce
                         /\ Reconciliation!UnmatchedIsAlerted
                         /\ Reconciliation!ExportsAgree
                         /\ Reconciliation!NothingLeftOver
    /\ focus = "iban" => Ibans!TypeOK /\ Ibans!SlipsAreCaught

\* Offers fit what is left of the cap; and as long as requests do not overlap, the
\* claims of a year are what was used of it, stay within it, and take campaigns to
\* their goals and not beyond (offer, claim).
ClaimsFitTheCap == focus = "match" =>
    /\ Matching!TypeOK
    /\ Matching!OffersFit
    /\ matchAlone => /\ Matching!UsedIsClaimed
                      /\ Matching!ClaimPagesAgree
                      /\ Matching!WithinAnnualCap
                      /\ Matching!GoalIsMet

\* Companies pay what is booked, their reports agree, and as long as requests do not
\* overlap full tuition has one sponsor and funds the campaign (sponsor, impact).
SponsorsGetWhatTheyPay == focus = "corp" =>
    /\ Corporate!TypeOK
    /\ Corporate!ChargesAreBooked
    /\ Corporate!ReportsAgree
    /\ corpAlone => Corporate!FullTuitionFunds

\* Syncs are logged as read-only, and as long as requests do not overlap nobody pays
\* before tax who may not; who opted in stays in (connect, syncEmployees, lines).
RosterIsKept ==
    /\ [](focus = "roster" => Roster!TypeOK /\ Roster!LoggedReadOnly /\ Roster!PreTaxIsAllowed)
    /\ Roster!OptInIsKept

\* Donors are told the locked amount, and as long as requests do not overlap a deposit
\* is settled once; the account of a school stays, whatever others ask for
\* (initiateDeposit, applyWebhook, createSchoolAccount).
DepositsSettleOnce ==
    /\ [](focus = "fx" => Fx!TypeOK /\ Fx!ToldIsLocked)
    /\ Fx!SettledStaysAlone
    /\ Ibans!RoutesStay

\* A provider that reports success has done it, under a reference of its own, and one
\* that reports failure has not, unless its answer was lost (charge, capture, payout).
ReportsOfProvidersAreTrue == focus = "pay" =>
    /\ Payments!TypeOK
    /\ Payments!SuccessIsReal
    /\ Payments!FailureMeansNothingWasMade
-----------------------------------------------------------------------------
(* Supporters.                                                             *)

\* A group whose requests run one at a time keeps an admin, and an announced winner
\* is the winner of the stored ballots; a match spends what it can and gives no
\* campaign too much (leave, setRole, castBallot, closeVote, matchCohort).
GroupsKeepTheirRules ==
    /\ focus = "circle" => Circle!TypeOK /\ Circle!HasAdmin /\ Circle!WinnerStands
    /\ focus = "cohort" => Cohort!TypeOK /\ Cohort!MatchIsExact

\* No milestone is missed unless a request ended in the middle, none is told twice
\* as long as requests do not overlap, and what moderation rejects reaches nobody
\* (onDonation, moderateVoice, feedSources).
NewsIsComplete ==
    /\ focus = "feed" => /\ Feed!TypeOK
                         /\ Feed!NoMilestoneIsMissed
                         /\ alone => Feed!MilestonesOnce
    /\ focus = "voices" => Voices!TypeOK /\ Voices!NoMilestoneIsMissed /\ Voices!RejectedStaysHidden

\* A donation counts for one code, for good, and never for the donor's own; a streak
\* only ends with a month without a donation; boards rank without gaps; and as long as
\* requests do not overlap there are no more advocates than allowed
\* (attributeDonation, computeMonthlyStreak, rankLeaderboard, inviteAdvocate).
ReferralsAreFair ==
    /\ Referral!ReferredByOthers
    /\ Referral!StreaksAreForgiving
    /\ [](focus = "refer" => /\ Referral!TypeOK
                             /\ Referral!BoardsAreRanked
                             /\ Referral!RewardsAreWithinReach
                             /\ alone => Referral!WithinAdvocateLimit)

\* After an erasure no donation that was there carries the name, no two accounts share
\* an email, and form and server agree on passwords (anonymize, register).
ErasedIsAnonymous == focus = "acc" =>
    Accounts!TypeOK /\ Accounts!ErasedIsAnonymous /\ Accounts!FormAgreesWithServer

\* No stretch as long as a window sees more than twice the limit, nor an open window
\* more than the limit (hit, prune).
AtMostTwiceTheLimit == focus = "rate" =>
    RateLimit!TypeOK /\ RateLimit!AtMostTwiceTheLimit /\ RateLimit!WindowHolds

\* Who has not agreed reports finished donations only, in any tab, and the percentiles
\* that admins read are reached by enough requests (mayTrack, percentile).
MeasuredAsAgreed ==
    /\ focus = "consent" => /\ Consent!TypeOK
                            /\ Consent!SilentWithoutConsent
                            /\ Consent!AlarmsHaveACause
    /\ focus = "metrics" => /\ Metrics!TypeOK
                            /\ Metrics!PercentileIsReached
                            /\ Metrics!AlarmsHaveACause
-----------------------------------------------------------------------------
(* Pages.                                                                  *)

\* A page at rest fits the role of the user, and its token is the user's (authGuard,
\* roleGuard, logout).
PagesFitTheUser == focus = "session" =>
    Session!TypeOK /\ Session!PagesFitTheUser /\ Session!TabSpeaksForItsUser

\* A page that waits for nothing shows what the server has, its button says what it
\* charges, and a quote is one for the pair that it is shown with, each under the
\* conditions its module names (donate-card, sponsor box, deposit and list pages).
PagesTellTheTruth ==
    /\ focus = "checkout" => /\ Checkout!TypeOK
                             /\ Checkout!ButtonTellsTheCharge
                             /\ Checkout!QuietPageIsCurrent
    /\ focus = "deposit" => Deposit!TypeOK /\ Deposit!QuoteIsForItsPair
    /\ focus = "pages" => Pages!TypeOK /\ Pages!QuietPagesAreCurrent
===============================================================================
