---------------------------- MODULE WebCheckout -----------------------------
(***************************************************************************)
(* The page of a campaign in the web client, as a donor or a sponsor uses  *)
(* it: the donation card, the offer of an employer's match that follows a  *)
(* gift, the box in which a sponsor closes the gap, and the progress the   *)
(* page shows.                                                             *)
(*                                                                         *)
(* The page asks for the campaign once.  From then on it knows only what   *)
(* the answers to its own gifts tell, and it is these figures from which   *)
(* the sponsor box computes what a tier costs; the call names the tier     *)
(* only, and the server computes the amount again.                         *)
(***************************************************************************)
EXTENDS Integers, FiniteSets

CONSTANTS
  Goal,        \* the goal of the campaign
  Amount,      \* amounts typed on the card or given by other people
  Failing,     \* amounts the payment provider refuses
  MaxGifts,    \* bound on the gifts booked
  MaxCalls     \* bound on the calls the page makes

CheckoutAssumption ==
  /\ Goal \in Nat \ {0} /\ Amount \subseteq Nat \ {0} /\ Failing \subseteq Amount
  /\ MaxGifts \in Nat /\ MaxCalls \in Nat

VARIABLES
  role,       \* the role of the visitor
  raised,     \* raised on the server
  gifts,      \* gifts booked on the server
  detail,     \* what the page knows: [loaded, raised, donors]
  card,       \* the donation card: [amount, monthly, submitting, success, monthlyStarted, gift]
  box,        \* the sponsor box: [tier, submitting, result]
  offer,      \* the match offer below a gift
  calls,      \* calls in flight: [kind, nr, amount, tier, said, at, total]
  sent,       \* calls made
  charges,    \* what sponsorships were said to cost and what they cost
  quiet       \* nobody else gave, no two gifts overlapped, and no answer was lost

vars == <<role, raised, gifts, detail, card, box, offer, calls, sent, charges, quiet>>

Least(a, b) == IF a < b THEN a ELSE b
Gap(r) == IF Goal > r THEN Goal - r ELSE 0
Rounded(a, b) == (2 * a + b) \div (2 * b)

\* The same computation in the sponsor box and on the server.
TierAmount(tier, r) ==
  CASE tier = "SEMESTER" -> Least(Gap(r), Rounded(Goal, 4))
    [] tier = "YEAR" -> Least(Gap(r), Rounded(Goal, 2))
    [] tier = "FULL" -> Gap(r)

Tier == {"SEMESTER", "YEAR", "FULL"}

FreshCard(x) == [amount |-> x, monthly |-> FALSE, submitting |-> FALSE,
                 success |-> FALSE, monthlyStarted |-> FALSE, gift |-> 0]

Init ==
  /\ role \in {"DONOR", "SPONSOR"}
  /\ raised = 0 /\ gifts = 0
  /\ detail = [loaded |-> FALSE, raised |-> 0, donors |-> 0]
  /\ \E x \in Amount : card = FreshCard(x)
  /\ box = [tier |-> "FULL", submitting |-> FALSE, result |-> 0]
  /\ offer = "ask"
  /\ calls = {}
  /\ sent = 0
  /\ charges = {}
  /\ quiet = TRUE

IsGift(c) == c.kind \in {"donate", "sponsor"}
GiftInFlight == \E c \in calls : IsGift(c)

Send(kind, amount, tier, said) ==
  /\ sent < MaxCalls
  /\ sent' = sent + 1
  /\ calls' = calls \union {[kind |-> kind, nr |-> sent + 1, amount |-> amount,
                             tier |-> tier, said |-> said, at |-> "sent", total |-> 0]}

\* Somebody else gives; the page does not hear of it.
Elsewhere(x) ==
  /\ gifts < MaxGifts
  /\ gifts' = gifts + 1
  /\ raised' = raised + Least(x, Gap(raised))
  /\ quiet' = (quiet /\ ~detail.loaded)
  /\ UNCHANGED <<role, detail, card, box, offer, calls, sent, charges>>

PageLoaded ==
  /\ ~detail.loaded
  /\ detail' = [loaded |-> TRUE, raised |-> raised, donors |-> gifts]
  /\ UNCHANGED <<role, raised, gifts, card, box, offer, calls, sent, charges, quiet>>

\* The card -----------------------------------------------------------------
FillIn(x, monthly) ==
  /\ detail.loaded /\ ~card.success
  /\ card' = [card EXCEPT !.amount = x, !.monthly = monthly]
  /\ monthly => role = "DONOR"
  /\ UNCHANGED <<role, raised, gifts, detail, box, offer, calls, sent, charges, quiet>>

CanSubmit == card.amount > 0 /\ ~card.submitting

Submit ==
  /\ detail.loaded /\ ~card.success /\ CanSubmit
  /\ card' = [card EXCEPT !.submitting = TRUE]
  /\ IF card.monthly /\ role = "DONOR"
     THEN Send("monthly", card.amount, "NONE", 0) /\ UNCHANGED quiet
     ELSE /\ Send("donate", card.amount, "NONE", 0)
          /\ quiet' = (quiet /\ ~GiftInFlight)
  /\ UNCHANGED <<role, raised, gifts, detail, box, offer, charges>>

Reset ==
  /\ card.success
  /\ \E x \in Amount : card' = FreshCard(x)
  /\ offer' = "ask"
  /\ calls' = {c \in calls : c.kind \notin {"offer", "claim"}}
  /\ UNCHANGED <<role, raised, gifts, detail, box, sent, charges, quiet>>

\* The match offer ------------------------------------------------------------
CheckEmployer ==
  /\ card.success /\ card.gift # 0 /\ offer \in {"ask", "not found"}
  /\ offer' = "checking"
  /\ Send("offer", card.gift, "NONE", 0)
  /\ UNCHANGED <<role, raised, gifts, detail, card, box, charges, quiet>>

Claim ==
  /\ card.success /\ offer = "offered"
  /\ offer' = "claiming"
  /\ Send("claim", card.gift, "NONE", 0)
  /\ UNCHANGED <<role, raised, gifts, detail, card, box, charges, quiet>>

\* The sponsor box ------------------------------------------------------------
ChooseTier(tier) ==
  /\ detail.loaded /\ role = "SPONSOR" /\ box.result = 0
  /\ box' = [box EXCEPT !.tier = tier]
  /\ UNCHANGED <<role, raised, gifts, detail, card, offer, calls, sent, charges, quiet>>

\* What the button of the box says.
Said == TierAmount(box.tier, detail.raised)

Sponsor ==
  /\ detail.loaded /\ role = "SPONSOR" /\ box.result = 0
  /\ Said > 0 /\ ~box.submitting
  /\ box' = [box EXCEPT !.submitting = TRUE]
  /\ Send("sponsor", 0, box.tier, Said)
  /\ quiet' = (quiet /\ ~GiftInFlight)
  /\ UNCHANGED <<role, raised, gifts, detail, card, offer, charges>>

ResetBox ==
  /\ box.result # 0
  /\ box' = [tier |-> "FULL", submitting |-> FALSE, result |-> 0]
  /\ UNCHANGED <<role, raised, gifts, detail, card, offer, calls, sent, charges, quiet>>

\* The server -----------------------------------------------------------------
Cost(c) == IF c.kind = "sponsor" THEN TierAmount(c.tier, raised) ELSE c.amount

Booked(c) ==
  /\ c.at = "sent" /\ IsGift(c) /\ gifts < MaxGifts
  /\ Cost(c) > 0 /\ Cost(c) \notin Failing
  /\ raised' = raised + Least(Cost(c), Gap(raised))
  /\ gifts' = gifts + 1
  /\ calls' = (calls \ {c}) \union {[c EXCEPT !.at = "done", !.total = raised']}
  /\ charges' = IF c.kind = "sponsor"
                THEN charges \union {[said |-> c.said, cost |-> Cost(c), fair |-> quiet]}
                ELSE charges
  /\ UNCHANGED <<role, detail, card, box, offer, sent, quiet>>

\* The answers ----------------------------------------------------------------
\* Mutant: the gift is counted, the figures of the answer are not taken over.
CountOnly(c) == detail' = [detail EXCEPT !.donors = @ + 1]

\* The figures of the campaign in an answer replace the figures of the page.
ApplyResult(c) == detail' = [detail EXCEPT !.raised = c.total, !.donors = @ + 1]

GiftAnswered(c) ==
  /\ c.at = "done"
  /\ calls' = calls \ {c}
  /\ ApplyResult(c)
  /\ IF c.kind = "donate"
     THEN /\ card' = [card EXCEPT !.submitting = FALSE, !.success = TRUE, !.gift = c.amount]
          /\ offer' = "ask"
          /\ UNCHANGED box
     ELSE /\ box' = [box EXCEPT !.submitting = FALSE, !.result = c.said]
          /\ UNCHANGED <<card, offer>>
  /\ UNCHANGED <<role, raised, gifts, sent, charges, quiet>>

OtherAnswered(c) ==
  /\ ~IsGift(c)
  /\ calls' = calls \ {c}
  /\ \/ /\ c.kind = "monthly" /\ UNCHANGED offer
        /\ card' = [card EXCEPT !.submitting = FALSE, !.success = TRUE, !.monthlyStarted = TRUE]
     \/ /\ c.kind = "offer" /\ UNCHANGED card
        /\ offer' \in {"offered", "not found"}
     \/ c.kind = "claim" /\ offer' = "claimed" /\ UNCHANGED card
  /\ UNCHANGED <<role, raised, gifts, detail, box, sent, charges, quiet>>

\* A refusal or a lost answer: the form can be used again.
CallFailed(c) ==
  /\ calls' = calls \ {c}
  /\ quiet' = (quiet /\ c.at = "sent")
  /\ IF c.kind \in {"donate", "monthly"}
     THEN card' = [card EXCEPT !.submitting = FALSE] ELSE UNCHANGED card
  /\ IF c.kind = "sponsor" THEN box' = [box EXCEPT !.submitting = FALSE] ELSE UNCHANGED box
  /\ offer' = CASE c.kind = "offer" -> "ask" [] c.kind = "claim" -> "offered" [] OTHER -> offer
  /\ UNCHANGED <<role, raised, gifts, detail, sent, charges>>

Next ==
  \/ \E x \in Amount : Elsewhere(x) \/ \E m \in BOOLEAN : FillIn(x, m)
  \/ PageLoaded \/ Submit \/ Reset
  \/ CheckEmployer \/ Claim
  \/ \E tier \in Tier : ChooseTier(tier)
  \/ Sponsor \/ ResetBox
  \/ \E c \in calls : Booked(c) \/ GiftAnswered(c) \/ OtherAnswered(c) \/ CallFailed(c)

Spec == Init /\ [][Next]_vars

TypeOK ==
  /\ role \in {"DONOR", "SPONSOR"}
  /\ raised \in 0..Goal /\ gifts \in 0..MaxGifts
  /\ detail \in [loaded : BOOLEAN, raised : 0..Goal, donors : Nat]
  /\ card \in [amount : Amount, monthly : BOOLEAN, submitting : BOOLEAN, success : BOOLEAN,
               monthlyStarted : BOOLEAN, gift : Amount \union {0}]
  /\ box \in [tier : Tier, submitting : BOOLEAN, result : 0..Goal]
  /\ offer \in {"ask", "checking", "not found", "offered", "claiming", "claimed"}
  /\ sent \in 0..MaxCalls /\ Cardinality(calls) <= sent
  /\ quiet \in BOOLEAN

\* A sponsor pays what the button said, as long as nobody else gave since the
\* page was loaded, the sponsor waited for each gift before the next, and no
\* answer was lost: what one box on the page learns reaches the other.
ButtonTellsTheCharge == \A x \in charges : x.fair => x.said = x.cost

\* Under the same conditions the page shows what the server has, once it has
\* heard the answer.
QuietPageIsCurrent == quiet /\ detail.loaded /\ ~GiftInFlight => detail.raised = raised
=============================================================================
