------------------------------- MODULE Funding -------------------------------
(***************************************************************************)
(* The money path of one Bursa campaign.                                   *)
(*                                                                         *)
(* Every HTTP request of the API is a process: the handler reads the       *)
(* campaign row, awaits the payment provider, and writes what it computed  *)
(* from the row it read in one database transaction.  The database runs at *)
(* READ COMMITTED and no handler locks what it reads, so the steps of two  *)
(* requests interleave at every await.                                     *)
(*                                                                         *)
(* A request r that books money owns the donation row with the same        *)
(* identifier.  The payment provider is external: it is seen only through  *)
(* what it moves, charged[d] (how often money was taken for donation d)    *)
(* and transfers (how often the school was paid).                          *)
(***************************************************************************)
EXTENDS Integers, FiniteSets, FiniteSetsExt

LOCAL INSTANCE TLC

CONSTANTS
    Request,        \* contribution requests: card, SEPA, sponsorship, ...
    Admin,          \* disbursement requests of an administrator
    Channel,        \* the kinds of contribution that may arrive
    Goal,           \* goalCents of the campaign, fixed once it left DRAFT
    Amount,         \* amounts a donor may choose
    Tip,            \* explicit tips a card donor may add
    MaxInFlight,    \* how many requests the API serves at the same time
    ProviderFails,  \* may the payment provider decline?
    Crashes,        \* may a handler die between two awaits?
    None            \* the absent value

Channels == {"card", "sepa", "sponsor", "recurring", "match"}

ASSUME GoalAssumption == Goal \in Nat \ {0}
ASSUME AmountAssumption == Amount \subseteq Nat \ {0} /\ Tip \subseteq Nat
ASSUME ChannelAssumption == Channel \subseteq Channels
ASSUME NoneAssumption == None \notin Channels /\ None \notin Nat
ASSUME ActorAssumption == Request \cap Admin = {}
ASSUME BoundAssumption ==
    MaxInFlight \in Nat /\ ProviderFails \in BOOLEAN /\ Crashes \in BOOLEAN

VARIABLES
    campaign,   \* row Campaign: status, verified, raised, tips
    donations,  \* rows Donation, one per request that wrote one
    payout,     \* row Payout (unique per campaign): the amount, or None
    announced,  \* how many "Goal reached" updates the campaign page shows
    charged,    \* provider: how often the money of a donation was taken
    transfers,  \* provider: how often the school was paid
    req,        \* local state of the contribution handlers
    adm,        \* local state of the disbursement handlers
    booked      \* history: sum of the amounts of the rows that count

vars == <<campaign, donations, payout, announced, charged, transfers, req,
          adm, booked>>

CampaignStatus == {"PENDING_VERIFICATION", "LIVE", "FUNDED", "DISBURSED", "REJECTED"}
DonationStatus == {"NONE", "PLEDGED", "CAPTURED", "SUCCEEDED", "FAILED"}

\* A row that was never written.
NoRow == [status |-> "NONE", kind |-> None, amount |-> 0, tip |-> 0, of |-> None]

\* A handler that has not started.
Idle == [pc |-> "idle", kind |-> None, raised |-> 0, tips |-> 0, status |-> None,
         amount |-> 0, tip |-> 0, of |-> None, todo |-> {}, taken |-> {}]

-----------------------------------------------------------------------------
(* Pure helpers of the donation code.                                      *)

\* Cents still missing from a raised amount, never negative.
Gap(raised) == IF raised < Goal THEN Goal - raised ELSE 0

\* Mutant: the over-funding rule is forgotten.
ToGoalUncapped(raised, amount) == amount

\* splitContribution: what counts toward the goal, and what becomes a tip.
ToGoal(raised, amount) == IF amount > Gap(raised) THEN Gap(raised) ELSE amount
ToTip(raised, amount, tip) == tip + (amount - ToGoal(raised, amount))

\* Mutant: off by one in the goal check.
IsGoalAlmostReached(raised) == raised + 1 >= Goal

IsGoalReached(raised) == Goal > 0 /\ raised >= Goal

\* loadDonatable: the campaign accepts contributions.
Donatable ==
    /\ campaign.verified
    /\ campaign.status = "LIVE"
    /\ campaign.raised < Goal

\* Mutant: a captured pledge no longer counts.
CountsUncaptured(row) == row.status \in {"PLEDGED", "SUCCEEDED"}

\* The statuses a reader of the database adds up (listDonations, detail).
Counts(row) == row.status \in {"PLEDGED", "CAPTURED", "SUCCEEDED"}

-----------------------------------------------------------------------------
(* Handlers in general: what a request is doing, and how it starts.        *)

Serving ==
    {r \in Request : req[r].pc \notin {"idle", "done"}} \cup
    {a \in Admin : adm[a].pc \notin {"idle", "done"}}

CanStart == Cardinality(Serving) < MaxInFlight

\* A contribution handler starts and keeps the campaign row it read.
Start(r, kind, amount, tip, of, pc) ==
    /\ kind \in Channel
    /\ req[r].pc = "idle"
    /\ CanStart
    /\ req' = [req EXCEPT ![r] =
                 [Idle EXCEPT !.pc = pc, !.kind = kind,
                              !.raised = campaign.raised, !.tips = campaign.tips,
                              !.status = campaign.status,
                              !.amount = amount, !.tip = tip, !.of = of]]
    /\ UNCHANGED <<campaign, donations, payout, announced, charged, transfers,
                   adm, booked>>

Goto(r, pc) == req' = [req EXCEPT ![r].pc = pc]

\* The share of request r that counts, from the row r read when it started.
Share(r) == ToGoal(req[r].raised, req[r].amount)

\* Does the handler of r believe that its contribution closes the goal?
Closes(r) == IsGoalReached(req[r].raised + Share(r))

-----------------------------------------------------------------------------
(* Contributions: read the campaign.                                       *)

DonateCard(r) ==
    /\ Donatable
    /\ \E amount \in Amount, tip \in Tip : Start(r, "card", amount, tip, None, "pay")

DonateSepa(r) ==
    /\ Donatable
    /\ \E amount \in Amount : Start(r, "sepa", amount, 0, None, "pay")

\* A sponsor names an amount or takes the tier that is exactly the gap.
Sponsor(r) ==
    /\ Donatable
    /\ \E amount \in Amount \cup {Gap(campaign.raised)} :
          Start(r, "sponsor", amount, 0, None, "pay")

RunDue(r) ==
    /\ Donatable
    /\ \E amount \in Amount : Start(r, "recurring", amount, 0, None, "pay")

\* The claim looks at the donation, not at its status nor the campaign's.  The
\* match is the donation times the employer's ratio (at most 2:1), cut by what
\* is left of the employee's annual cap.
ClaimMatch(r) ==
    \E d \in Request :
        /\ donations[d].status # "NONE"
        /\ \A o \in Request : donations[o].of # d
        /\ \E match \in 1 .. 2 * donations[d].amount :
              /\ ToGoal(campaign.raised, match) > 0
              /\ Start(r, "match", match, 0, d, "record")

-----------------------------------------------------------------------------
(* Contributions: await the payment provider.                              *)

FailedRow(r) ==
    [status |-> "FAILED", kind |-> req[r].kind, amount |-> req[r].amount,
     tip |-> req[r].tip, of |-> None]

\* savePledge stores the card and moves no money.  A declined card leaves a
\* FAILED row and ends the request.
SavePledge(r) ==
    /\ req[r].pc = "pay"
    /\ req[r].kind = "card"
    /\ \/ /\ Goto(r, "record")
          /\ UNCHANGED donations
       \/ /\ ProviderFails
          /\ donations' = [donations EXCEPT ![r] = FailedRow(r)]
          /\ Goto(r, "done")
    /\ UNCHANGED <<campaign, payout, announced, charged, transfers, adm, booked>>

\* Mutant: a card is charged when it is saved.
EveryChannelUpFront == {"card", "sepa", "sponsor", "recurring"}

\* The channels whose money is taken at once.
ChargedUpFront == {"sepa", "sponsor", "recurring"}

\* createSepaPledge, chargeImmediately and createCardCharge take the money
\* before anything is written.  Only the SEPA path keeps a FAILED row.
ChargeNow(r) ==
    /\ req[r].pc = "pay"
    /\ req[r].kind \in ChargedUpFront
    /\ \/ /\ charged' = [charged EXCEPT ![r] = @ + 1]
          /\ Goto(r, "record")
          /\ UNCHANGED donations
       \/ /\ ProviderFails
          /\ donations' = IF req[r].kind = "sepa"
                          THEN [donations EXCEPT ![r] = FailedRow(r)]
                          ELSE donations
          /\ Goto(r, "done")
          /\ UNCHANGED charged
    /\ UNCHANGED <<campaign, payout, announced, transfers, adm, booked>>

-----------------------------------------------------------------------------
(* Contributions: write the donation and the campaign in one transaction.  *)

\* The tip and the raised amount the handler computed.
Excess(r) == ToTip(req[r].raised, req[r].amount, req[r].tip)

RaisedAfter(r) == req[r].raised + Share(r)

\* The absolute write: raised and tips as read when the request started, plus
\* the contribution; FUNDED when that sum reaches the goal.
Book(r, status) ==
    /\ donations' = [donations EXCEPT ![r] =
                       [status |-> status, kind |-> req[r].kind, amount |-> Share(r),
                        tip |-> Excess(r), of |-> None]]
    /\ campaign' = [campaign EXCEPT
                       !.raised = RaisedAfter(r),
                       !.tips = req[r].tips + Excess(r),
                       !.status = IF Closes(r) /\ req[r].status # "FUNDED"
                                  THEN "FUNDED" ELSE @]
    /\ booked' = booked + Share(r)
    /\ UNCHANGED <<payout, charged, transfers, adm>>

\* Mutant: nobody captures.
AlwaysDone(r) == "done"

\* The handler that closes the goal goes on to captureCampaign.
AfterBooking(r) == IF Closes(r) THEN "capture" ELSE "done"

RecordPledge(r) ==
    /\ req[r].pc = "record"
    /\ req[r].kind = "card"
    /\ Book(r, "PLEDGED")
    /\ Goto(r, AfterBooking(r))
    /\ UNCHANGED announced

RecordSponsorship(r) ==
    /\ req[r].pc = "record"
    /\ req[r].kind = "sponsor"
    /\ Book(r, "SUCCEEDED")
    /\ Goto(r, AfterBooking(r))
    /\ UNCHANGED announced

\* SEPA and recurring charges announce the goal themselves and end.
AnnounceIfClosed(r) ==
    IF Closes(r) /\ req[r].status # "FUNDED" THEN announced + 1 ELSE announced

RecordSuccess(r) ==
    /\ req[r].pc = "record"
    /\ req[r].kind \in {"sepa", "recurring"}
    /\ Book(r, "SUCCEEDED")
    /\ Goto(r, "done")
    /\ announced' = AnnounceIfClosed(r)

\* The unique index on MatchClaim.donationId: the donation of r is claimed.
AlreadyClaimed(r) == \E o \in Request : donations[o].of = req[r].of

\* The match increments what the database holds; whether it closes the goal
\* is decided on the row read before.  The claim is unique per donation: a
\* second one aborts the whole transaction.
CommitClaim(r) ==
    /\ req[r].pc = "record"
    /\ req[r].kind = "match"
    /\ Goto(r, "done")
    /\ IF AlreadyClaimed(r)
       THEN UNCHANGED <<donations, campaign, booked>>
       ELSE /\ donations' = [donations EXCEPT ![r] =
                               [status |-> "SUCCEEDED", kind |-> "match",
                                amount |-> Share(r), tip |-> 0, of |-> req[r].of]]
            /\ campaign' = [campaign EXCEPT
                               !.raised = @ + Share(r),
                               !.status = IF /\ req[r].raised + Share(r) >= Goal
                                             /\ req[r].status # "FUNDED"
                                          THEN "FUNDED" ELSE @]
            /\ booked' = booked + Share(r)
    /\ UNCHANGED <<payout, announced, charged, transfers, adm>>

-----------------------------------------------------------------------------
(* captureCampaign: list the pledges, charge them one by one, mark them.   *)

\* Mutant: captures whatever counts.
CountingIds == {d \in Request : Counts(donations[d])}

\* The pledges a capture works on.
PledgedIds == {d \in Request : donations[d].status = "PLEDGED"}

ListPledges(r) ==
    /\ req[r].pc = "capture"
    /\ req' = [req EXCEPT ![r] = [@ EXCEPT !.pc = "capturing", !.todo = PledgedIds]]
    /\ UNCHANGED <<campaign, donations, payout, announced, charged, transfers,
                   adm, booked>>

CapturePledge(r, d) ==
    /\ req[r].pc = "capturing"
    /\ d \in req[r].todo
    /\ \/ /\ charged' = [charged EXCEPT ![d] = @ + 1]
          /\ req' = [req EXCEPT ![r] = [@ EXCEPT !.todo = req[r].todo \ {d},
                                                !.taken = req[r].taken \cup {d}]]
       \/ /\ ProviderFails
          /\ req' = [req EXCEPT ![r].todo = req[r].todo \ {d}]
          /\ UNCHANGED charged
    /\ UNCHANGED <<campaign, donations, payout, announced, transfers, adm, booked>>

\* summarizeCapture: the pledges whose charge succeeded.
CapturedIds(r) == req[r].taken

MarkCaptured(r) ==
    /\ req[r].pc = "capturing"
    /\ req[r].todo = {}
    /\ donations' = [d \in Request |->
                       IF d \in CapturedIds(r)
                       THEN [donations[d] EXCEPT !.status = "CAPTURED"]
                       ELSE donations[d]]
    /\ announced' = IF announced = 0 THEN 1 ELSE announced
    /\ Goto(r, "done")
    /\ UNCHANGED <<campaign, payout, charged, transfers, adm, booked>>

-----------------------------------------------------------------------------
(* Administration: review of the campaign and disbursement to the school.  *)

\* Verification and approval check nothing about the status they replace.
Verify ==
    /\ campaign' = [campaign EXCEPT !.status = "LIVE", !.verified = TRUE]
    /\ UNCHANGED <<donations, payout, announced, charged, transfers, req, adm, booked>>

Reject ==
    /\ campaign' = [campaign EXCEPT !.status = "REJECTED", !.verified = FALSE]
    /\ UNCHANGED <<donations, payout, announced, charged, transfers, req, adm, booked>>

\* Mutant: the payout row is not looked at.
DisbursableAgain == campaign.status \in {"FUNDED", "DISBURSED"}

\* The guards of a disbursement.
Disbursable == campaign.status = "FUNDED" /\ payout = None

Disburse(a) ==
    /\ adm[a].pc = "idle"
    /\ CanStart
    /\ Disbursable
    /\ adm' = [adm EXCEPT ![a] = [pc |-> "pay", raised |-> campaign.raised]]
    /\ UNCHANGED <<campaign, donations, payout, announced, charged, transfers,
                   req, booked>>

\* The result of createPayout is not looked at, only its reference.
CreatePayout(a) ==
    /\ adm[a].pc = "pay"
    /\ adm' = [adm EXCEPT ![a].pc = "record"]
    /\ \/ transfers' = transfers + 1
       \/ ProviderFails /\ UNCHANGED transfers
    /\ UNCHANGED <<campaign, donations, payout, announced, charged, req, booked>>

\* Payout is unique per campaign: a second row aborts the transaction.
RecordPayout(a) ==
    /\ adm[a].pc = "record"
    /\ adm' = [adm EXCEPT ![a].pc = "done"]
    /\ IF payout # None
       THEN UNCHANGED <<payout, campaign>>
       ELSE /\ payout' = adm[a].raised
            /\ campaign' = [campaign EXCEPT !.status = "DISBURSED"]
    /\ UNCHANGED <<donations, announced, charged, transfers, req, booked>>

\* A handler dies between two awaits: the process stops, or a call throws.
Crash ==
    /\ Crashes
    /\ \/ \E r \in Request \cap Serving : Goto(r, "done") /\ UNCHANGED adm
       \/ \E a \in Admin \cap Serving :
             adm' = [adm EXCEPT ![a].pc = "done"] /\ UNCHANGED req
    /\ UNCHANGED <<campaign, donations, payout, announced, charged, transfers, booked>>

-----------------------------------------------------------------------------
Init ==
    /\ campaign = [status |-> "PENDING_VERIFICATION", verified |-> FALSE,
                   raised |-> 0, tips |-> 0]
    /\ donations = [r \in Request |-> NoRow]
    /\ payout = None
    /\ announced = 0
    /\ charged = [r \in Request |-> 0]
    /\ transfers = 0
    /\ req = [r \in Request |-> Idle]
    /\ adm = [a \in Admin |-> [pc |-> "idle", raised |-> 0]]
    /\ booked = 0

\* The steps a started handler takes by itself.
RequestStep(r) ==
    \/ SavePledge(r)
    \/ ChargeNow(r)
    \/ RecordPledge(r)
    \/ RecordSponsorship(r)
    \/ RecordSuccess(r)
    \/ CommitClaim(r)
    \/ ListPledges(r)
    \/ \E d \in Request : CapturePledge(r, d)
    \/ MarkCaptured(r)

DisburseStep(a) == CreatePayout(a) \/ RecordPayout(a)

Next ==
    \/ \E r \in Request :
          \/ DonateCard(r)
          \/ DonateSepa(r)
          \/ Sponsor(r)
          \/ RunDue(r)
          \/ ClaimMatch(r)
          \/ RequestStep(r)
    \/ \E a \in Admin : Disburse(a) \/ DisburseStep(a)
    \/ Verify
    \/ Reject
    \/ Crash

Spec == Init /\ [][Next]_vars

\* Node runs every handler it has started; nobody is obliged to send a
\* request or to review a campaign.
FairSpec ==
    /\ Spec
    /\ \A r \in Request : WF_vars(RequestStep(r))
    /\ \A a \in Admin : WF_vars(DisburseStep(a))
-----------------------------------------------------------------------------
(* Properties that hold however the handlers interleave or die.            *)

\* The sum of the values of f over a set of requests.
SumOver(S, f) == MapThenSumSet(LAMBDA r : f[r], S)

CampaignRow == [status: CampaignStatus, verified: BOOLEAN, raised: Nat, tips: Nat]

DonationRow ==
    [status: DonationStatus, kind: Channels \cup {None}, amount: Nat, tip: Nat,
     of: Request \cup {None}]

RequestState ==
    [pc: {"idle", "pay", "record", "capture", "capturing", "done"},
     kind: Channels \cup {None}, raised: Nat, tips: Nat,
     status: CampaignStatus \cup {None}, amount: Nat, tip: Nat,
     of: Request \cup {None}, todo: SUBSET Request, taken: SUBSET Request]

\* The types of the rows and of the handlers' local state.
TypeOK ==
    /\ campaign \in CampaignRow
    /\ donations \in [Request -> DonationRow]
    /\ payout \in Nat \cup {None}
    /\ announced \in Nat
    /\ charged \in [Request -> Nat]
    /\ transfers \in Nat
    /\ req \in [Request -> RequestState]
    /\ adm \in [Admin -> [pc: {"idle", "pay", "record", "done"}, raised: Nat]]
    /\ booked \in Nat

\* The requests whose rows a reader of the database adds up.
CountedIds == {r \in Request : Counts(donations[r])}

\* The running total is the sum of the rows a reader of the database adds up:
\* what donations.service.ts books is never taken back.
BookedIsSum ==
    booked = SumOver(CountedIds, [r \in Request |-> donations[r].amount])

\* Lost updates may make raisedCents too small, never too large: the progress
\* shown is always backed by donation rows (recordPledge, recordSuccess,
\* sponsor, applyCharge, commitClaim).
RaisedNeverOverstates == campaign.raised <= booked

\* A campaign becomes FUNDED, and is paid out, only when the donation rows
\* really cover the goal, although every handler decides that on a stale row.
FundedIsCovered == campaign.status \in {"FUNDED", "DISBURSED"} => booked >= Goal

\* All-or-nothing (donateCard, captureCampaign): the card behind a pledge is
\* debited only when the contributions cover the goal.  If the goal is never
\* reached, no card is ever debited.
AllOrNothing ==
    \A d \in Request :
        donations[d].kind = "card" /\ charged[d] > 0 => booked >= Goal

\* A row that says the money was taken is true: CAPTURED after a capture,
\* SUCCEEDED after exactly one immediate charge (a match is the employer's).
TakenMeansCharged ==
    \A d \in Request :
        /\ donations[d].status = "CAPTURED" => charged[d] > 0
        /\ donations[d].status = "SUCCEEDED" /\ donations[d].kind # "match"
              => charged[d] = 1

\* MatchClaim is unique per donation (matching.service.ts claim): no donation
\* is matched twice, whatever two claims saw when they started.
MatchedOnce ==
    \A m, n \in Request :
        donations[m].kind = "match" /\ donations[n].kind = "match" /\ m # n
            => donations[m].of # donations[n].of

\* The school is never promised more than the donation rows add up to, and
\* never anything before they cover the goal (payouts.service.ts disburse).
PayoutIsCovered == payout # None => payout <= booked /\ booked >= Goal

\* What the campaign shows, what made it FUNDED and what the school is promised
\* are all backed by donation rows, although each is decided on rows that may be
\* stale by then (recordPledge, captureCampaign, disburse).
MoneyIsBacked == RaisedNeverOverstates /\ FundedIsCovered /\ PayoutIsCovered

\* What a handler remembers of the campaign is old but never too much: the
\* amount it read is covered by the rows written by now, and a handler that
\* captures or pays out does so after the rows covered the goal.
MemoryIsBacked ==
    /\ \A r \in Request :
          /\ req[r].raised <= booked
          /\ req[r].pc \in {"capture", "capturing"} => booked >= Goal
    /\ \A a \in Admin :
          adm[a].pc \in {"pay", "record"} => adm[a].raised <= booked /\ booked >= Goal

RowFollowsHandler(d) ==
    /\ req[d].pc \in {"idle", "pay", "record"} => donations[d].status = "NONE"
    /\ req[d].pc \in {"idle", "pay"} => charged[d] = 0
    /\ req[d].pc = "record" /\ req[d].kind \in ChargedUpFront => charged[d] = 1
    /\ donations[d].kind = "card" => req[d].kind = "card" /\ req[d].pc # "idle"
    /\ charged[d] > 0 => booked >= Goal \/ req[d].kind \in ChargedUpFront
    /\ \A e \in req[d].todo \cup req[d].taken :
          donations[e].status \in {"PLEDGED", "CAPTURED"}
    /\ \A e \in req[d].taken : charged[e] > 0

\* Row, money and handler of one donation agree, although other handlers
\* capture it: no row before the handler wrote it, one charge before an
\* immediate row, and a capture only ever touches card pledges.
RowsFollowHandlers == \A d \in Request : RowFollowsHandler(d)

\* A row that says how a donation ended is final: captures of two requests
\* that overlap may not reopen, re-amount or downgrade it.
DonationsAreFinal ==
    [][\A d \in Request :
          donations[d].status \in {"CAPTURED", "SUCCEEDED", "FAILED"}
              => donations'[d] = donations[d]]_donations

\* A pledge is debited only for a campaign that covers its goal, and how it ended
\* is never reopened, whatever handlers overlap or die (captureCampaign).
PledgesAreHonoured == []AllOrNothing /\ DonationsAreFinal

\* The cards that were debited for a pledge.
DebitedPledges == {d \in Request : req[d].kind = "card" /\ charged[d] > 0}

Promise == INSTANCE CampaignPromise
             WITH Donation <- Request, total <- booked, debited <- DebitedPledges,
                  paid <- payout

\* The handlers keep the promise of CampaignPromise, in every interleaving:
\* what they write from stale rows is a contribution, a debit or the payout.
KeepsPromise == Promise!Spec

-----------------------------------------------------------------------------
(* Properties of the handlers when the API serves one request at a time.   *)

\* Goal accounting: raisedCents and tipsCents are the sums of the rows.
RaisedIsExact ==
    /\ campaign.raised = booked
    /\ campaign.tips = SumOver(CountedIds, [r \in Request |-> donations[r].tip])

\* The over-funding rule: only the missing part of a contribution counts.
NeverOverFunded == booked <= Goal

\* The books balance: the sums of the campaign are those of its rows, and come to
\* the goal at most (recordPledge, splitContribution).
BooksBalance == RaisedIsExact /\ NeverOverFunded

\* captureCampaign takes the money of a pledge at most once, and so does every
\* other path.
ChargedOnce == \A d \in Request : charged[d] <= 1

\* The school is paid at most once, and what the payout row promises is the
\* sum of the donation rows.
PaidOutOnce == transfers <= 1 /\ (payout # None => payout = booked)

\* The row of request r is written and, to r's knowledge, closed the goal.
HasClosed(r) == donations[r].status # "NONE" /\ Closes(r)

\* "Goal reached" appears once on the campaign page, by whichever path the goal
\* is closed; only a match closes it without a word (commitClaim).
AnnouncedOnce ==
    /\ announced <= 1
    /\ campaign.status = "FUNDED" /\ Serving = {} /\ announced = 0
          => \E r \in Request : req[r].kind = "match" /\ HasClosed(r)

\* Money moves, and news is told, once (captureCampaign, disburse, announce).
EverythingOnce == ChargedOnce /\ PaidOutOnce /\ AnnouncedOnce

\* When a card pledge or a sponsorship closes the goal, every pledge is charged
\* in the end: the handler that closes the goal settles them all.
PledgesSettle ==
    \A r \in Request :
        (req[r].kind \in {"card", "sponsor"} /\ HasClosed(r))
            ~> (\A d \in Request : donations[d].status # "PLEDGED")

-----------------------------------------------------------------------------
(* What the documentation says and the code does not do.                   *)

\* FR-018: a disbursement is idempotent, the school is not paid twice.
NoDoublePayout == transfers <= 1

\* At rest after the goal was reached, no pledge is left uncharged.
NoPledgeLeftBehind ==
    campaign.status = "FUNDED" /\ Serving = {}
        => \A d \in Request : donations[d].status # "PLEDGED"

\* Contribution requests are interchangeable, and so are administrators (TLC).
Symmetry == Permutations(Request) \cup Permutations(Admin)
=============================================================================
