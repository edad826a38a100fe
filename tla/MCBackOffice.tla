----------------------------- MODULE MCBackOffice -----------------------------
(*****************************************************************************)
(* Instances of SchoolPayouts, and of the other parts that operators,        *)
(* schools and reviewers work with, for TLC.                                 *)
(*                                                                           *)
(* The parts share no state, and each is explored on its own: focus is the   *)
(* part whose steps a behaviour consists of; a part that waits stays in an   *)
(* initial state.                                                            *)
(*****************************************************************************)
EXTENDS SchoolPayouts, TLC

CONSTANTS
    Hand,   \* the requests of a part that run at the same time
    s1, s2, \* two schools
    Partner, OnboardingLink, Pupil, CampaignGoal,   \* of Schools
    ImportHand, Reference, LowerCase, AdmissionList,    \* of Schools, as far as it imports
    KycCase, KycName, NoName, KycStops,     \* of Kyc
    Campaign, Disputes, Against, Low, Flag, Suspicion, MaxScans,     \* of TrustSafety
    MaxDonations, MaxChargebacks, MaxScored,    \* of Fraud
    Rows, Panel, None, MaxCalls      \* of WebConsole

\* Every award goes to the first school.
AllToFirst == [a \in Award |-> s1]

\* Names that differ in one letter of five, or in more.
SomeNames == {<<1, 2, 3, 4, 5>>, <<1, 2, 3, 4>>, <<2, 2, 3, 4, 5>>}

\* Every dispute is about the same campaign.
AllAgainstOne == [d \in Disputes |-> CHOOSE c \in Campaign : TRUE]

Symmetry == Permutations(Request) \cup Permutations(Award)

-----------------------------------------------------------------------------
(* History: did every handler so far run alone, to its own end?            *)

VARIABLE alone

MCInit == Init /\ alone = TRUE

MCNext ==
    /\ Next
    /\ alone' = (alone /\ Stopped' = {} /\ Cardinality({r \in Request : Running(r)'}) <= 1)

MCSpec == MCInit /\ [][MCNext]_<<vars, alone>>

\* "409 ALREADY_DISBURSED": as long as handlers do not overlap or die, an award,
\* and its tranche, is transferred once (disburse, decideConditionalRelease).
AwardPaidOnceAlone == alone => AwardPaidOnce

\* "Every payout is recorded as a LedgerEntry": as long as handlers do not
\* overlap or die, one that has ended leaves no transfer without its entry.
EveryPayoutIsBookedAlone == alone => EveryPayoutIsBooked

-----------------------------------------------------------------------------
\* A school whose two requests overlap, with a list of admissions in which
\* one is named twice, and a campaign that can be changed.
VARIABLES schoolSchool, schoolTokens, schoolAdmissions, schoolCampaigns,
    schoolEvents, schoolTask, schoolApproved
school == <<schoolSchool, schoolTokens, schoolAdmissions, schoolCampaigns,
    schoolEvents, schoolTask, schoolApproved>>
Schools == INSTANCE Schools WITH
    Handler <- Hand, School <- Partner, Token <- OnboardingLink, Student <- Pupil,
    Goals <- CampaignGoal, Ref <- {}, Fold <- <<>>, File <- {},
    school <- schoolSchool, tokens <- schoolTokens,
    admissions <- schoolAdmissions, campaigns <- schoolCampaigns,
    events <- schoolEvents, task <- schoolTask, approved <- schoolApproved

\* The list of admissions of a school, with one of them named twice.
NamedTwice == {<<[ref |-> "A1", ok |-> TRUE], [ref |-> "a1", ok |-> TRUE]>>}
SmallLetters == [A1 |-> "a1", a1 |-> "a1"]
VARIABLES importSchool, importTokens, importAdmissions, importCampaigns,
    importEvents, importTask, importApproved
import == <<importSchool, importTokens, importAdmissions, importCampaigns,
    importEvents, importTask, importApproved>>
Import == INSTANCE Schools WITH
    Handler <- ImportHand, School <- Partner, Token <- OnboardingLink, Student <- {},
    Goals <- {}, Ref <- Reference, Fold <- LowerCase, File <- AdmissionList,
    school <- importSchool, tokens <- importTokens,
    admissions <- importAdmissions, campaigns <- importCampaigns,
    events <- importEvents, task <- importTask, approved <- importApproved

\* Cases of students and sponsors, and ends of the process.
VARIABLES kycCases, kycRequest, kycStops
kyc == <<kycCases, kycRequest, kycStops>>
Kyc == INSTANCE Kyc WITH
    Request <- Hand, Case <- KycCase, Name <- KycName, NoName <- NoName, MaxStops <- KycStops,
    cases <- kycCases, request <- kycRequest, stops <- kycStops

\* Disputes about campaigns, some of them small, and flags.
VARIABLES trustChargebacks, trustFrozen, trustFlags, trustModeration,
    trustRequest, trustRejected, trustLost, trustScans
trust == <<trustChargebacks, trustFrozen, trustFlags, trustModeration, trustRequest,
    trustRejected, trustLost, trustScans>>
Trust == INSTANCE TrustSafety WITH
    Request <- Hand, Campaign <- Campaign, Dispute <- Disputes, Against <- Against,
    Low <- Low, Flag <- Flag, Suspicion <- Suspicion, MaxScans <- MaxScans,
    chargebacks <- trustChargebacks, frozen <- trustFrozen,
    flags <- trustFlags, moderation <- trustModeration,
    request <- trustRequest, rejected <- trustRejected, lost <- trustLost, scans <- trustScans

\* The donations of one donor, of three ages.
VARIABLES fraudRecent, fraudChargebackCount, fraudDonor, fraudRequest
fraud == <<fraudRecent, fraudChargebackCount, fraudDonor, fraudRequest>>
Fraud == INSTANCE Fraud WITH
    Request <- {}, MaxDonations <- MaxDonations, MaxChargebacks <- MaxChargebacks,
    recent <- fraudRecent, chargebackCount <- fraudChargebackCount,
    donor <- fraudDonor, request <- fraudRequest

\* Donations that are scored at the same time.
VARIABLES scoresRecent, scoresChargebackCount, scoresDonor, scoresRequest
scores == <<scoresRecent, scoresChargebackCount, scoresDonor, scoresRequest>>
Scores == INSTANCE Fraud WITH
    Request <- Hand, MaxDonations <- MaxScored, MaxChargebacks <- MaxChargebacks,
    recent <- scoresRecent, chargebackCount <- scoresChargebackCount,
    donor <- scoresDonor, request <- scoresRequest

\* Rows and calls in queues of each kind.
VARIABLES consolePanel, consolePending, consoleItems, consoleLoading,
    consoleBusyId, consoleRejectingId, consoleRejectNote, consoleCalls,
    consoleSent, consoleNotes, consoleCalm
console == <<consolePanel, consolePending, consoleItems, consoleLoading, consoleBusyId,
    consoleRejectingId, consoleRejectNote, consoleCalls, consoleSent,
    consoleNotes, consoleCalm>>
Console == INSTANCE WebConsole WITH
    Row <- Rows, Panel <- Panel, None <- None, MaxCalls <- MaxCalls,
    panel <- consolePanel, pending <- consolePending, items <- consoleItems,
    loading <- consoleLoading, busyId <- consoleBusyId,
    rejectingId <- consoleRejectingId, rejectNote <- consoleRejectNote,
    calls <- consoleCalls, sent <- consoleSent, notes <- consoleNotes,
    calm <- consoleCalm

\* The instances are of the kind that the modules are made for.
ASSUME BackOfficeAssumption ==
    /\ Schools!SchoolsAssumption
    /\ Import!SchoolsAssumption
    /\ Kyc!KycAssumption
    /\ Trust!TrustAssumption
    /\ Fraud!FraudAssumption
    /\ Scores!FraudAssumption
    /\ Console!ConsoleAssumption

-----------------------------------------------------------------------------
VARIABLE requestsAlone   \* history: no two requests of a part have run at the same time

VARIABLE focus   \* the part that a behaviour is about

Part == {"payouts", "school", "import", "kyc", "trust", "fraud", "scores",
         "console"}
allVars == <<focus, requestsAlone, <<vars, alone>>, school, import, kyc, trust, fraud,
             scores, console>>

\* Of a part that waits, one initial state will do.
WaitingPanel == CHOOSE p \in Panel : TRUE

AllInit ==
    /\ focus \in Part /\ requestsAlone = TRUE
    /\ MCInit /\ Schools!Init /\ Import!Init /\ Kyc!Init /\ Trust!Init
    /\ Fraud!Init /\ Scores!Init
    /\ Console!Init /\ (focus # "console" => consolePanel = WaitingPanel /\ consolePending = {})

\* The other parts wait.
OtherParts(part) ==
    /\ UNCHANGED focus
    /\ IF part = "payouts" THEN TRUE ELSE UNCHANGED <<vars, alone>>
    /\ IF part = "school" THEN TRUE ELSE UNCHANGED school
    /\ IF part = "import" THEN TRUE ELSE UNCHANGED import
    /\ IF part = "kyc" THEN TRUE ELSE UNCHANGED kyc
    /\ IF part = "trust" THEN TRUE ELSE UNCHANGED trust
    /\ IF part = "fraud" THEN TRUE ELSE UNCHANGED fraud
    /\ IF part = "scores" THEN TRUE ELSE UNCHANGED scores
    /\ IF part = "console" THEN TRUE ELSE UNCHANGED console

PartNext ==
    \/ focus = "payouts" /\ MCNext /\ OtherParts("payouts")
    \/ focus = "school" /\ Schools!Next /\ OtherParts("school")
    \/ focus = "import" /\ Import!Next /\ OtherParts("import")
    \/ focus = "kyc" /\ Kyc!Next /\ OtherParts("kyc")
    \/ focus = "trust" /\ Trust!Next /\ OtherParts("trust")
    \/ focus = "fraud" /\ Fraud!Next /\ OtherParts("fraud")
    \/ focus = "scores" /\ Scores!Next /\ OtherParts("scores")
    \/ focus = "console" /\ Console!Next /\ OtherParts("console")

AllNext ==
    /\ PartNext
    /\ requestsAlone' = (
        /\ requestsAlone
        /\ Cardinality({h \in Hand : schoolTask'[h] # Schools!Idle}) <= 1
        /\ Cardinality({h \in Hand : trustRequest'[h] # Trust!Idle}) <= 1)

AllSpec == AllInit /\ [][AllNext]_allVars
-----------------------------------------------------------------------------
(* What the checks are for.  Each property includes the types of its part. *)

\* Every payment that a handler made has its entry, as long as handlers do not
\* overlap or die; and whatever they do, what a row or the ledger calls paid was
\* booked, or transferred (disburse, decideConditionalRelease, payoutToSchool).
PaymentsAreRecorded == focus = "payouts" =>
    /\ TypeOK
    /\ MarkedIsBooked
    /\ LocalEntriesArePaid
    /\ EveryPayoutIsBookedAlone

\* A school that is active has signed and has said where money goes; as long as
\* requests do not overlap, one that signed stays active and the public sees the
\* terms that the school approved; and only reviews decide on admissions
\* (savePayout, signAgreement, approve, updateForUser, import).
SchoolsDecide ==
    /\ [](focus = "school" =>
             /\ Schools!TypeOK /\ Schools!ActiveIsSigned /\ Schools!ViewsAgree
             /\ requestsAlone => Schools!SignedIsActive /\ Schools!ApprovedTermsStand)
    /\ Import!OnlyReviewsDecide

\* Nobody is verified without checks that passed, a screening that cleared or a
\* reviewer; and a result that is stored is used unless the process ended
\* (applyStatus, runLiveness, runDocument, decide).
VerifiedIsEarned == focus = "kyc" =>
    /\ Kyc!TypeOK
    /\ Kyc!VerifiedIsEarned
    /\ Kyc!ResultsAreUsed
    /\ Kyc!PendingIsManual
    /\ Kyc!MatchForgivesAFifth

\* The third chargeback freezes a campaign, in whatever order webhooks are handled,
\* unless the process ended before it was counted, and only a verdict does else;
\* another failed payment never makes a donor look better, and only the whole pattern
\* freezes one; as long as requests do not overlap, evidence and refund exclude each
\* other (ingest, decide, detectFraud, canOfferRefund).
FreezesHaveACause ==
    /\ focus = "trust" => /\ Trust!TypeOK
                          /\ Trust!ThirdChargebackFreezes
                          /\ Trust!FreezeHasACause
                          /\ requestsAlone => Trust!EvidenceOrRefund
    /\ focus = "fraud" => Fraud!TypeOK /\ Fraud!FailuresNeverHelp /\ Fraud!FrozenForThePattern
    /\ focus = "scores" => Scores!TypeOK /\ Scores!FrozenForThePattern

\* A rejection carries the note that was written for it, and an operator who waits
\* for the answers sees the queue of the server (startReject, confirmReject, refresh).
QueuesAreHandledInOrder == focus = "console" =>
    Console!TypeOK /\ Console!NoteIsForItsRow /\ Console!ListCatchesUp
===============================================================================
