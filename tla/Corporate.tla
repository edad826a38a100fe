-------------------------------- MODULE Corporate --------------------------------
(***************************************************************************)
(* Companies (corporate.service.ts, sponsors.service.ts): a sponsorship is *)
(* charged, then booked with its donation and its invoice, and reported in *)
(* the company's figures.  The campaign is read before the charge, and     *)
(* its amounts are written as values.                                      *)
(***************************************************************************)
EXTENDS Integers, FiniteSets, FiniteSetsExt

CONSTANTS
    Request,        \* the requests that run at the same time
    Company, Campaign, Sponsorship,
    Goal,           \* Goal[c]
    CustomAmount,   \* what companies enter
    Wishes,         \* pairs: a scholarship is named, the logo is shown
    Student         \* Student[c]: the student of campaign c

CorporateAssumption ==
    /\ Goal \in [Campaign -> Nat \ {0}] /\ CustomAmount \subseteq Nat /\ DOMAIN Student = Campaign
    /\ Wishes \subseteq BOOLEAN \X BOOLEAN
    /\ IsFiniteSet(Request) /\ IsFiniteSet(Sponsorship)

VARIABLES
    profiles,       \* the companies that have a profile
    campaigns,      \* raised, tips and status
    sponsorships,   \* the sponsorships, each with donation and invoice
    charged,        \* what each company has paid
    request,        \* what each request has read
    alone           \* no two requests have run at the same time

vars == <<profiles, campaigns, sponsorships, charged, request, alone>>

Idle == [step |-> "idle"]
Tiers == {"SEMESTER", "YEAR", "FULL", "CUSTOM"}

TypeOK ==
    /\ profiles \subseteq Company
    /\ campaigns \in [Campaign -> [raised : Nat, tips : Nat, status : {"LIVE", "FUNDED"}]]
    /\ DOMAIN sponsorships \subseteq Sponsorship
    /\ \A s \in DOMAIN sponsorships :
          sponsorships[s] \in [company : Company, campaign : Campaign, amount : Nat, tip : Nat,
                               full : BOOLEAN, kind : {"NAMED", "LOGO", "ANONYMOUS"},
                               type : {"SPONSORING", "DONATION"}, vat : Nat,
                               invoice : {"PAID", "PENDING"}]
    /\ charged \in [Company -> Nat]
    /\ \A r \in Request : request[r].step \in {"idle", "charge", "book"}

Init ==
    /\ profiles = {}
    /\ campaigns = [c \in Campaign |-> [raised |-> 0, tips |-> 0, status |-> "LIVE"]]
    /\ sponsorships = <<>>
    /\ charged = [k \in Company |-> 0]
    /\ request = [r \in Request |-> Idle]
    /\ alone = TRUE

Continue(r, next) ==
    /\ request' = [request EXCEPT ![r] = next]
    /\ alone' = (alone /\ Cardinality({q \in Request : request'[q] # Idle}) <= 1)
-----------------------------------------------------------------------------
(* Amounts.                                                                *)

RoundDiv(n, d) == (2 * n + d) \div (2 * d)
Gap(c) == Max({0, Goal[c] - campaigns[c].raised})

\* giftTiers, tierAmount: a quarter, a half, or what is missing, and never more.
TierAmount(tier, c, custom) ==
    LET amounts == [SEMESTER |-> Min({Gap(c), RoundDiv(Goal[c], 4)}),
                    YEAR |-> Min({Gap(c), RoundDiv(Goal[c], 2)}),
                    FULL |-> Gap(c), CUSTOM |-> custom]
    IN  amounts[tier]

\* isFullTuition
IsFullTuition(c, amount) == Gap(c) > 0 /\ amount >= Gap(c)

\* Mutant: the whole amount is booked.
WholeAmount(c, amount) == amount

\* splitContribution: what is more than the gap is a tip.
AmountToGoal(c, amount) == Min({amount, Gap(c)})

\* recognitionKind, documentTypeFor
RecognitionKind(named, logo) == IF named THEN "NAMED" ELSE IF logo THEN "LOGO" ELSE "ANONYMOUS"
DocumentType(logo) == IF logo THEN "SPONSORING" ELSE "DONATION"

\* computeInvoiceAmounts: 19 percent, on sponsoring.
Vat(net, type) == IF type = "SPONSORING" THEN RoundDiv(net * 19, 100) ELSE 0
-----------------------------------------------------------------------------
(* What companies do.                                                      *)

\* upsertProfile
UpsertProfile(k) ==
    /\ profiles' = profiles \cup {k}
    /\ UNCHANGED <<campaigns, sponsorships, charged, request, alone>>

\* loadDonatable
Donatable(c) == campaigns[c].status = "LIVE" /\ campaigns[c].raised < Goal[c]

\* sponsor reads campaign and profile, and charges ...
Sponsor(r, s, k, c, tier, custom, card, named, logo) ==
    LET amount == TierAmount(tier, c, custom)
    IN  /\ request[r] = Idle
        /\ k \in profiles
        /\ Donatable(c)
        /\ amount > 0
        /\ Continue(r, [step |-> "charge", id |-> s, company |-> k, campaign |-> c,
                        amount |-> AmountToGoal(c, amount), paid |-> amount,
                        seen |-> campaigns[c],
                        full |-> IsFullTuition(c, amount), card |-> card,
                        kind |-> RecognitionKind(named, logo), type |-> DocumentType(logo)])
        /\ UNCHANGED <<profiles, campaigns, sponsorships, charged>>

\* ... which may fail: chargeImmediately, createSepaPledge ...
Charge(r, succeeds) ==
    /\ request[r].step = "charge"
    /\ IF succeeds
       THEN /\ charged' = [charged EXCEPT ![request[r].company] = @ + request[r].paid]
            /\ Continue(r, [request[r] EXCEPT !.step = "book"])
       ELSE charged' = charged /\ Continue(r, Idle)
    /\ UNCHANGED <<profiles, campaigns, sponsorships>>

\* ... and books donation, sponsorship, invoice and campaign together.
Book(r) ==
    /\ request[r].step = "book"
    /\ request[r].id \notin DOMAIN sponsorships
    /\ LET q == request[r]
           raised == q.seen.raised + q.amount
           tip == q.paid - q.amount
           row == [company |-> q.company, campaign |-> q.campaign, amount |-> q.amount,
                   tip |-> tip, full |-> q.full, kind |-> q.kind, type |-> q.type,
                   vat |-> Vat(q.amount, q.type),
                   invoice |-> IF q.card THEN "PAID" ELSE "PENDING"]
       IN  /\ sponsorships' = [s \in DOMAIN sponsorships \cup {q.id} |->
                               IF s = q.id THEN row ELSE sponsorships[s]]
           /\ campaigns' = [campaigns EXCEPT ![q.campaign] =
                [raised |-> raised, tips |-> q.seen.tips + tip,
                 status |-> IF raised >= Goal[q.campaign] THEN "FUNDED" ELSE @.status]]
    /\ Continue(r, Idle)
    /\ UNCHANGED <<profiles, charged>>

\* settle: a transfer that was announced has come in.
Settle(k, s) ==
    /\ sponsorships[s].company = k
    /\ sponsorships[s].invoice = "PENDING"
    /\ sponsorships' = [sponsorships EXCEPT ![s].invoice = "PAID"]
    /\ UNCHANGED <<profiles, campaigns, charged, request, alone>>
-----------------------------------------------------------------------------
(* What companies see.                                                     *)

Own(k) == {s \in DOMAIN sponsorships : sponsorships[s].company = k}
SumOver(S, f) == MapThenSumSet(LAMBDA x : f[x], S)
SumOf(ss, field) == SumOver(ss, [s \in ss |-> sponsorships[s][field]])

\* esgData, computeEsgMetrics
EsgMetrics(k) ==
    [students |-> {Student[sponsorships[s].campaign] : s \in Own(k)},
     total |-> SumOf(Own(k), "amount"),
     full |-> Cardinality({s \in Own(k) : sponsorships[s].full}),
     named |-> Cardinality({s \in Own(k) : sponsorships[s].kind = "NAMED"})]

\* impact: the donations of the company, campaign by campaign.
Impact(k) ==
    [total |-> SumOf(Own(k), "amount"),
     campaigns |-> [c \in {sponsorships[s].campaign : s \in Own(k)} |->
                        SumOf({s \in Own(k) : sponsorships[s].campaign = c}, "amount")]]

\* invoiceDoc, of a sponsorship of one's own
InvoiceDoc(k, s) ==
    [net |-> sponsorships[s].amount, vat |-> sponsorships[s].vat,
     gross |-> sponsorships[s].amount + sponsorships[s].vat, status |-> sponsorships[s].invoice]
\* receipt
Receipt(k, s) == [company |-> k, amount |-> sponsorships[s].amount,
                  campaign |-> sponsorships[s].campaign]
-----------------------------------------------------------------------------
\* The routes of companies.
SponsorStep(r) ==
    \/ \E s \in Sponsorship \ DOMAIN sponsorships, k \in Company, c \in Campaign, tier \in Tiers,
          custom \in CustomAmount, card \in BOOLEAN, w \in Wishes :
          Sponsor(r, s, k, c, tier, custom, card, w[1], w[2])
    \/ \E succeeds \in BOOLEAN : Charge(r, succeeds)
    \/ Book(r)
CompanyStep ==
    \/ \E k \in Company : UpsertProfile(k)
    \/ \E k \in Company, s \in DOMAIN sponsorships : Settle(k, s)

Next == CompanyStep \/ \E r \in Request : SponsorStep(r)

Spec == Init /\ [][Next]_vars
-----------------------------------------------------------------------------
(* What the checks are for.                                                *)

\* A campaign has at most one sponsor of the full tuition of what was missing,
\* with whom it is funded, and has raised what its sponsors gave (sponsor).
FullTuitionFunds ==
    \A c \in Campaign :
        LET here == {s \in DOMAIN sponsorships : sponsorships[s].campaign = c}
            full == {s \in here : sponsorships[s].full}
        IN  /\ Cardinality(full) <= 1
            /\ campaigns[c].status = "FUNDED" <=> full # {}
            /\ campaigns[c].raised = SumOf(here, "amount")
            /\ campaigns[c].raised <= Goal[c]

\* A company has paid what its donations and tips say, save for what is charged
\* and not yet booked (sponsor).
ChargesAreBooked ==
    \A k \in Company :
        LET booking == {r \in Request : request[r].step = "book" /\ request[r].company = k}
        IN  charged[k] = SumOf(Own(k), "amount") + SumOf(Own(k), "tip")
                         + SumOver(booking, [r \in booking |-> request[r].paid])

\* Whatever a company looks at adds up to the same: impact, ESG metrics, the
\* receipts and the net amounts of the invoices (impact, computeEsgMetrics,
\* receipt, invoiceDoc).
ReportsAgree ==
    \A k \in Company :
        LET i == Impact(k)
            total == EsgMetrics(k).total
        IN  /\ total = SumOver(DOMAIN i.campaigns, i.campaigns)
            /\ total = SumOver(Own(k), [s \in Own(k) |-> Receipt(k, s).amount])
            /\ total = SumOver(Own(k), [s \in Own(k) |-> InvoiceDoc(k, s).net])
            /\ \A s \in Own(k) : InvoiceDoc(k, s).gross - InvoiceDoc(k, s).vat = InvoiceDoc(k, s).net

=============================================================================
