---------------------------------- MODULE Fraud ----------------------------------
(***************************************************************************)
(* The score of a donation and the freeze of its donor (fraud.service.ts   *)
(* and its rules).  Of the donor's recent donations only the age and the   *)
(* status matter, so they are counted by age: the last ten minutes, the    *)
(* rest of the last hour, and before.                                      *)
(***************************************************************************)
EXTENDS Integers, FiniteSets, FiniteSetsExt

CONSTANTS
    Request,        \* the requests that run at the same time
    MaxDonations,   \* bound: donations, within RECENT_SAMPLE
    MaxChargebacks  \* bound: chargebacks of the donor

FraudAssumption == MaxDonations \in 0..25 /\ MaxChargebacks \in Nat

VARIABLES
    recent,         \* recent[age, status]: how many donations
    chargebackCount,
    donor,          \* riskScore and frozen of the user
    request         \* what each request has read

vars == <<recent, chargebackCount, donor, request>>

Ages == {"minutes", "hour", "older"}
Statuses == {"SUCCEEDED", "PLEDGED", "FAILED"}
Idle == [step |-> "idle"]
Histories == [Ages \X Statuses -> 0..MaxDonations]
\* What is known of the transaction that is scored.
Transactions == [sanctioned : BOOLEAN, high : BOOLEAN, prepaid : BOOLEAN]

Number(history, ages, statuses) ==
    MapThenSumSet(LAMBDA p : history[p], ages \X statuses)
Size(history) == Number(history, Ages, Statuses)

TypeOK ==
    /\ recent \in Histories
    /\ chargebackCount \in 0..MaxChargebacks
    /\ donor \in [risk : 0..100, frozen : BOOLEAN]
    /\ \A r \in Request : request[r].step \in {"idle", "score"}

Init ==
    /\ recent = [p \in Ages \X Statuses |-> 0]
    /\ chargebackCount = 0
    /\ donor = [risk |-> 0, frozen |-> FALSE]
    /\ request = [r \in Request |-> Idle]
-----------------------------------------------------------------------------
(* Rules.                                                                  *)

Points(condition, points) == IF condition THEN points ELSE 0
Clamp(score) == Min({score, 100})

HighFailureRatio(failed, rapid) == rapid >= 3 /\ 2 * failed >= rapid

\* detectCardTesting: "anything other than SUCCEEDED counts as failed".
CardTesting(history) ==
    LET failed == Number(history, {"minutes"}, Statuses \ {"SUCCEEDED"})
        rapid == Number(history, {"minutes"}, Statuses)
    IN  [flagged |-> failed >= 3 \/ rapid >= 5 \/ HighFailureRatio(failed, rapid),
         score |-> Points(failed >= 3, 20 + 10 * Min({failed - 3, 4}))
                   + Points(rapid >= 5, 20)
                   + Points(HighFailureRatio(failed, rapid), 15)]

\* exceedsVelocity, countWithinWindow
VelocityCount(history) == Number(history, {"minutes", "hour"}, Statuses)

FailedCount(history) == Number(history, Ages, {"FAILED"})

\* scoreDonorRisk
DonorRisk(history, t) ==
    Clamp(Points(t.sanctioned, 30) + Points(t.high, 40)
          + Points(VelocityCount(history) > 5, 25)
          + Points(t.prepaid, 15) + Points(FailedCount(history) >= 2, 20))

\* aggregateFraudScore
FraudScore(history, t) == Clamp(CardTesting(history).score + DonorRisk(history, t))

\* scoreToLevel
Level(score) ==
    CASE score >= 75 -> "CRITICAL"
      [] score >= 50 /\ score < 75 -> "HIGH"
      [] score >= 25 /\ score < 50 -> "MEDIUM"
      [] OTHER -> "LOW"

\* primaryKind
Kind(history, t) ==
    CASE CardTesting(history).flagged -> "CARD_TESTING"
      [] ~CardTesting(history).flagged /\ t.high -> "HIGH_VALUE"
      [] ~CardTesting(history).flagged /\ ~t.high /\ VelocityCount(history) > 5 -> "VELOCITY"
      [] OTHER -> "DONOR_RISK"

\* decideDonorFreeze
DecideDonorFreeze(failed, count) == failed >= 2 /\ count >= 1
-----------------------------------------------------------------------------
\* The donor donates.
Donate(status) ==
    /\ Size(recent) < MaxDonations
    /\ recent' = [recent EXCEPT ![<<"minutes", status>>] = @ + 1]
    /\ UNCHANGED <<chargebackCount, donor, request>>

\* Time passes.
Age ==
    /\ recent' = [p \in Ages \X Statuses |->
                     CASE p[1] = "minutes" -> 0
                       [] p[1] = "hour" -> recent[<<"minutes", p[2]>>]
                       [] p[1] = "older" -> recent[<<"hour", p[2]>>] + recent[p]]
    /\ recent' # recent
    /\ UNCHANGED <<chargebackCount, donor, request>>

\* A donation of the donor is disputed.
Dispute ==
    /\ chargebackCount < MaxChargebacks
    /\ chargebackCount' = chargebackCount + 1
    /\ UNCHANGED <<recent, donor, request>>

\* scoreTransaction reads the recent donations and stores a signal ...
ScoreTransaction(r, t) ==
    /\ request[r] = Idle
    /\ Size(recent) > 0
    /\ request' = [request EXCEPT ![r] =
                      [step |-> "score", failed |-> FailedCount(recent),
                       risk |-> DonorRisk(recent, t),
                       signal |-> [score |-> FraudScore(recent, t),
                                   level |-> Level(FraudScore(recent, t)),
                                   kind |-> Kind(recent, t)]]]
    /\ UNCHANGED <<recent, chargebackCount, donor>>

\* ... counts the chargebacks by now, and writes risk and freeze.
UpdateDonor(r) ==
    /\ request[r].step = "score"
    /\ donor' = [risk |-> request[r].risk,
                 frozen |-> \/ donor.frozen
                            \/ DecideDonorFreeze(request[r].failed, chargebackCount)]
    /\ request' = [request EXCEPT ![r] = Idle]
    /\ UNCHANGED <<recent, chargebackCount>>

Next ==
    \/ \E s \in Statuses : Donate(s)
    \/ Age
    \/ Dispute
    \/ \E r \in Request, t \in Transactions : ScoreTransaction(r, t)
    \/ \E r \in Request : UpdateDonor(r)

Spec == Init /\ [][Next]_vars
-----------------------------------------------------------------------------
(* What the checks are for.                                                *)

\* Another failed attempt right now never lowers a score, although it changes
\* counts, ratios and thresholds at once (detectCardTesting, scoreDonorRisk).
FailuresNeverHelp ==
    LET worse == [recent EXCEPT ![<<"minutes", "FAILED">>] = @ + 1]
    IN  \A t \in Transactions : FraudScore(worse, t) >= FraudScore(recent, t)

\* A donor is frozen only with both signs of the pattern, two failures and a
\* chargeback, whenever they were counted (scoreTransaction).
FrozenForThePattern ==
    donor.frozen => FailedCount(recent) >= 2 /\ chargebackCount >= 1

=============================================================================
