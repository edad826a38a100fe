--------------------------------- MODULE Payments ---------------------------------
(***************************************************************************)
(* The payment provider (payments/): what a pledge, a charge, a capture or *)
(* a payout reports, and what it did at Stripe, whose answer may be lost.  *)
(* The mock provider keeps nothing and refuses amounts ending in 13 cents. *)
(***************************************************************************)
EXTENDS Integers, FiniteSets

CONSTANTS
    Call,           \* calls of the provider
    Amount,         \* in cents
    Refused         \* the amounts the mock refuses (FAIL_SENTINEL)

\* What is reported instead of the reference of a call that failed.
Failures == {"stripe_pledge_failed", "stripe_payout_failed", "stripe_charge_failed"}

PaymentsAssumption ==
    Amount \subseteq Nat /\ Refused \subseteq Amount /\ Call \cap Failures = {}

VARIABLES
    provider,       \* "mock" or "stripe"
    made,           \* what was made: [call, kind, amount]
    call,           \* call[c]: what was asked for, and what was reported
    lost            \* calls whose answer was lost

vars == <<provider, made, call, lost>>

Kinds == {"pledge", "charge", "capture", "payout"}
NotMade == [step |-> "none"]

TypeOK ==
    /\ provider \in {"mock", "stripe"}
    /\ made \subseteq [call : Call, kind : Kinds, amount : Amount]
    /\ \A c \in Call : call[c].step \in {"none", "asked", "retrieved", "reported"}
    /\ lost \subseteq Call

\* shouldUseStripe, createPaymentProvider: Stripe needs its key and its package;
\* the mock takes its place otherwise.
ProviderFor(wanted, key, installed) ==
    IF wanted = "stripe" /\ key /\ installed THEN "stripe" ELSE "mock"

Init ==
    /\ \E wanted \in {"mock", "stripe"}, key, installed \in BOOLEAN :
          provider = ProviderFor(wanted, key, installed)
    /\ made = {} /\ lost = {}
    /\ call = [c \in Call |-> NotMade]

FailureReference(kind) ==
    CASE kind = "pledge" -> "stripe_pledge_failed"
      [] kind = "payout" -> "stripe_payout_failed"
      [] OTHER -> "stripe_charge_failed"
Ok == [pledge |-> "AUTHORIZED", charge |-> "SUCCEEDED", capture |-> "SUCCEEDED", payout |-> "SENT"]
Report(c, status, reference) ==
    call' = [call EXCEPT ![c] = [step |-> "reported", kind |-> call[c].kind, amount |-> call[c].amount,
                                 pledge |-> call[c].pledge, status |-> status, reference |-> reference]]
ThisOne(c) == [call |-> c, kind |-> call[c].kind, amount |-> call[c].amount]
-----------------------------------------------------------------------------
\* A capture names the pledge that it is for; the other calls name none.
Ask(c, kind, amount, pledge) ==
    /\ call[c] = NotMade
    /\ IF kind = "capture" THEN call[pledge].step = "reported" /\ call[pledge].kind = "pledge"
                           ELSE pledge = c
    /\ call' = [call EXCEPT ![c] = [step |-> "asked", kind |-> kind, amount |-> amount, pledge |-> pledge]]
    /\ UNCHANGED <<provider, made, lost>>

\* The mock, which refuses no payout.
MockAnswers(c) ==
    /\ provider = "mock" /\ call[c].step = "asked"
    /\ LET ok == call[c].kind = "payout" \/ call[c].amount \notin Refused
       IN  /\ made' = IF ok THEN made \cup {ThisOne(c)} ELSE made
           /\ Report(c, IF ok THEN Ok[call[c].kind] ELSE "FAILED", c)
    /\ UNCHANGED <<provider, lost>>

\* captureOnGoalReached retrieves the pledge first; without one there is an error.
Retrieve(c) ==
    /\ provider = "stripe" /\ call[c].step = "asked" /\ call[c].kind = "capture"
    /\ IF \E m \in made : m.call = call[c].pledge /\ call[call[c].pledge].status = "AUTHORIZED"
       THEN call' = [call EXCEPT ![c].step = "retrieved"]
       ELSE Report(c, "FAILED", "stripe_charge_failed")
    /\ UNCHANGED <<provider, made, lost>>

ReadyToMake(c) ==
    /\ provider = "stripe"
    /\ IF call[c].step = "asked" THEN call[c].kind # "capture" ELSE call[c].step = "retrieved"

\* Stripe does it, and answers.
StripeMakes(c) ==
    /\ ReadyToMake(c)
    /\ made' = made \cup {ThisOne(c)}
    /\ Report(c, Ok[call[c].kind], c)
    /\ UNCHANGED <<provider, lost>>

\* Mutant: a refused payout is taken for one that was sent.
StatusOf(c, status) == IF call[c].kind = "payout" THEN "SENT" ELSE status
\* failPledge, failPayment, payout: an error is a failure.
StatusOfError(c, status) == status
\* Stripe refuses, or is not reached.
StripeFails(c) ==
    /\ ReadyToMake(c)
    /\ Report(c, StatusOfError(c, "FAILED"),
              FailureReference(call[c].kind))
    /\ UNCHANGED <<provider, made, lost>>

\* Stripe does it, and the answer is lost: an error like any other.
AnswerLost(c) ==
    /\ ReadyToMake(c)
    /\ made' = made \cup {ThisOne(c)}
    /\ lost' = lost \cup {c}
    /\ Report(c, "FAILED", FailureReference(call[c].kind))
    /\ UNCHANGED provider

Next ==
    \/ \E c, pledge \in Call, kind \in Kinds, amount \in Amount : Ask(c, kind, amount, pledge)
    \/ \E c \in Call :
          \/ MockAnswers(c)
          \/ Retrieve(c)
          \/ StripeMakes(c)
          \/ StripeFails(c)
          \/ AnswerLost(c)

Spec == Init /\ [][Next]_vars
-----------------------------------------------------------------------------
(* What the checks are for.                                                *)

Reported(c) == call[c].step = "reported"

\* Whatever is reported as done was done, with that amount and under a reference of
\* its own, and with Stripe a capture only for a pledge that was authorized.
SuccessIsReal ==
    \A c \in Call : Reported(c) /\ call[c].status # "FAILED" =>
        /\ ThisOne(c) \in made
        /\ \A d \in Call \ {c} : Reported(d) => call[d].reference # call[c].reference
        /\ provider = "stripe" /\ call[c].kind = "capture" => call[call[c].pledge].status = "AUTHORIZED"

\* What is reported as failed was not done, unless the answer was lost: there is no
\* idempotency key by which a second try would find the first.
FailureMeansNothingWasMade ==
    \A c \in Call : Reported(c) /\ call[c].status = "FAILED" => ThisOne(c) \notin made \/ c \in lost

=============================================================================
