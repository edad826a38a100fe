------------------------------ MODULE TrustSafety ------------------------------
(***************************************************************************)
(* Trust and safety of campaigns: chargebacks that a webhook delivers, the *)
(* flags of visitors, the moderation case of a campaign, and the freeze    *)
(* that follows from chargebacks or from a verdict (chargeback.service.ts, *)
(* flag.service.ts, moderation.service.ts).                                *)
(***************************************************************************)
EXTENDS Integers, FiniteSets, FiniteSetsExt

CONSTANTS
    Request,        \* the requests that run at the same time
    Campaign,
    Dispute,        \* ids of disputes at the payment provider
    Against,        \* Against[d]: the campaign of a dispute
    Low,            \* disputes small enough for a refund (AUTO_REFUND_MAX_CENTS)
    Flag,
    Suspicion,      \* points a scan may find in the texts and the country
    MaxScans        \* bound: scans

TrustAssumption ==
    /\ Against \in [Dispute -> Campaign]
    /\ Low \subseteq Dispute
    /\ Suspicion \subseteq Nat
    /\ MaxScans \in Nat

VARIABLES
    chargebacks,    \* chargebacks[d]: the row of a dispute
    frozen,         \* the campaigns that are frozen
    flags,          \* flags[f]: the row of a flag
    moderation,     \* moderation[c]: the case of a campaign
    request,        \* what each request is about to store
    rejected,       \* history: campaigns that a reviewer rejected
    lost,           \* history: campaigns whose chargebacks a request was about to count
                    \* when the process ended
    scans           \* history: scans so far

vars == <<chargebacks, frozen, flags, moderation, request, rejected, lost, scans>>

Idle == [step |-> "idle"]
Steps == {"idle", "store", "count", "evidence", "refund", "scan", "verdict"}
Verdicts == [APPROVE |-> "APPROVED", REJECT |-> "REJECTED", ESCALATE |-> "ESCALATED"]
NoCase == [status |-> "NONE", score |-> 0]

TypeOK ==
    /\ DOMAIN chargebacks \subseteq Dispute
    /\ \A d \in DOMAIN chargebacks : chargebacks[d] \in
          [status : {"OPEN", "EVIDENCE_SUBMITTED", "REFUND_OFFERED"}, evidence : BOOLEAN,
           refund : BOOLEAN]
    /\ frozen \subseteq Campaign /\ rejected \subseteq Campaign /\ lost \subseteq Campaign
    /\ DOMAIN flags \subseteq Flag
    /\ \A f \in DOMAIN flags : flags[f] \in
          [campaign : Campaign, status : {"OPEN", "REVIEWED", "DISMISSED"}]
    /\ \A c \in Campaign : moderation[c].score \in 0..100 /\ moderation[c].status \in
          {"NONE", "OPEN", "APPROVED", "REJECTED", "ESCALATED"}
    /\ \A r \in Request : request[r].step \in Steps
    /\ scans \in 0..MaxScans

Init ==
    /\ chargebacks = <<>>
    /\ frozen = {}
    /\ flags = <<>>
    /\ moderation = [c \in Campaign |-> NoCase]
    /\ request = [r \in Request |-> Idle]
    /\ rejected = {}
    /\ lost = {}
    /\ scans = 0

Continue(r, next) == request' = [request EXCEPT ![r] = next]
With(table, key, row) ==
    [k \in DOMAIN table \cup {key} |-> IF k = key THEN row ELSE table[k]]
Cases == <<flags, moderation, rejected, lost, scans>>
-----------------------------------------------------------------------------
(* Chargebacks.                                                            *)

ChargebacksOf(c) == {d \in DOMAIN chargebacks : Against[d] = c}

\* Mutant: one more than the threshold.
FreezeAfter(count) == count > 3

\* decideCampaignFreeze: CAMPAIGN_CHARGEBACK_FREEZE_THRESHOLD.
DecideCampaignFreeze(count) == count >= 3

\* ingest: the provider delivers a dispute, once or more often; what is stored
\* already is not looked at again.
Deliver(r, d) ==
    /\ request[r] = Idle
    /\ d \notin DOMAIN chargebacks
    /\ Continue(r, [step |-> "store", dispute |-> d])
    /\ UNCHANGED <<chargebacks, frozen, Cases>>

\* providerEventId is unique: the second of two deliveries fails here.
StoreChargeback(r) ==
    /\ request[r].step = "store"
    /\ LET d == request[r].dispute
       IN  IF d \in DOMAIN chargebacks
           THEN Continue(r, Idle) /\ UNCHANGED chargebacks
           ELSE /\ chargebacks' = With(chargebacks, d,
                       [status |-> "OPEN", evidence |-> FALSE, refund |-> FALSE])
                /\ Continue(r, [step |-> "count", campaign |-> Against[d]])
    /\ UNCHANGED <<frozen, Cases>>

\* The chargebacks are counted after the new one is stored.
CountChargebacks(r) ==
    /\ request[r].step = "count"
    /\ LET c == request[r].campaign
       IN  frozen' = IF DecideCampaignFreeze(Cardinality(ChargebacksOf(c)))
                     THEN frozen \cup {c} ELSE frozen
    /\ Continue(r, Idle)
    /\ UNCHANGED <<chargebacks, Cases>>

\* shouldOfferAutoRefund
RefundSmall(d) == d \in Low

\* submitEvidence and offerRefund look at the status ...
SubmitEvidence(r, d) ==
    /\ request[r] = Idle
    /\ chargebacks[d].status = "OPEN"
    /\ Continue(r, [step |-> "evidence", dispute |-> d])
    /\ UNCHANGED <<chargebacks, frozen, Cases>>

OfferRefund(r, d) ==
    /\ request[r] = Idle
    /\ chargebacks[d].status = "OPEN"
    /\ RefundSmall(d)
    /\ Continue(r, [step |-> "refund", dispute |-> d])
    /\ UNCHANGED <<chargebacks, frozen, Cases>>

\* ... and write the next one.
StoreEvidence(r) ==
    /\ request[r].step = "evidence"
    /\ LET d == request[r].dispute
       IN  chargebacks' = [chargebacks EXCEPT ![d].status = "EVIDENCE_SUBMITTED",
                                              ![d].evidence = TRUE]
    /\ Continue(r, Idle)
    /\ UNCHANGED <<frozen, Cases>>

StoreRefund(r) ==
    /\ request[r].step = "refund"
    /\ LET d == request[r].dispute
       IN  chargebacks' = [chargebacks EXCEPT ![d].status = "REFUND_OFFERED",
                                              ![d].refund = TRUE]
    /\ Continue(r, Idle)
    /\ UNCHANGED <<frozen, Cases>>
-----------------------------------------------------------------------------
(* Flags and moderation.                                                   *)

CreateFlag(f, c) ==
    /\ f \notin DOMAIN flags
    /\ flags' = With(flags, f, [campaign |-> c, status |-> "OPEN"])
    /\ UNCHANGED <<chargebacks, frozen, moderation, request, rejected, lost, scans>>

\* decide of a flag, as often as one likes.
DecideFlag(f, status) ==
    /\ f \in DOMAIN flags
    /\ flags' = [flags EXCEPT ![f].status = status]
    /\ UNCHANGED <<chargebacks, frozen, moderation, request, rejected, lost, scans>>

OpenFlags(c) == Cardinality({f \in DOMAIN flags :
                                flags[f].campaign = c /\ flags[f].status = "OPEN"})

\* evaluateCampaign: flags add ten points each, thirty at the most.
RiskScore(suspicion, count) == Min({100, suspicion + Min({count * 10, 30})})

\* scan reads the campaign and counts its flags ...
Scan(r, c, suspicion) ==
    /\ request[r] = Idle
    /\ scans < MaxScans
    /\ Continue(r, [step |-> "scan", campaign |-> c,
                    score |-> RiskScore(suspicion, OpenFlags(c))])
    /\ scans' = scans + 1
    /\ UNCHANGED <<chargebacks, frozen, flags, moderation, rejected, lost>>

\* ... and opens the case, again if there is one.
StoreScan(r) ==
    /\ request[r].step = "scan"
    /\ moderation' = [moderation EXCEPT ![request[r].campaign] =
                          [status |-> "OPEN", score |-> request[r].score]]
    /\ Continue(r, Idle)
    /\ UNCHANGED <<chargebacks, frozen, flags, rejected, lost, scans>>

\* decide of a case: open cases only ...
DecideModeration(r, c, verdict) ==
    /\ request[r] = Idle
    /\ moderation[c].status = "OPEN"
    /\ Continue(r, [step |-> "verdict", campaign |-> c, verdict |-> verdict])
    /\ UNCHANGED <<chargebacks, frozen, Cases>>

FreezesCampaign(verdict) == verdict = "REJECT"

\* ... and one transaction for the verdict and the freeze.
StoreVerdict(r) ==
    /\ request[r].step = "verdict"
    /\ LET c == request[r].campaign  verdict == request[r].verdict
       IN  /\ moderation' = [moderation EXCEPT ![c].status = Verdicts[verdict]]
           /\ frozen' = IF FreezesCampaign(verdict) THEN frozen \cup {c} ELSE frozen
           /\ rejected' = IF verdict = "REJECT" THEN rejected \cup {c} ELSE rejected
    /\ Continue(r, Idle)
    /\ UNCHANGED <<chargebacks, flags, lost, scans>>

\* A request that is about to count the chargebacks of a campaign.
Counted(c) == \E r \in Request : request[r].step = "count" /\ request[r].campaign = c

\* The process ends, and every request with it; the provider delivers again, but
\* what is stored is not counted again.
Stop ==
    /\ request' = [r \in Request |-> Idle]
    /\ lost' = lost \cup {c \in Campaign : Counted(c)}
    /\ UNCHANGED <<chargebacks, frozen, flags, moderation, rejected, scans>>
-----------------------------------------------------------------------------
\* The webhook of the payment provider.
WebhookStep(r) ==
    \/ \E d \in Dispute : Deliver(r, d)
    \/ StoreChargeback(r)
    \/ CountChargebacks(r)

\* The routes of administrators.
AdminStep(r) ==
    \/ \E d \in DOMAIN chargebacks : SubmitEvidence(r, d) \/ OfferRefund(r, d)
    \/ StoreEvidence(r)
    \/ StoreRefund(r)
    \/ \E c \in Campaign, suspicion \in Suspicion : Scan(r, c, suspicion)
    \/ StoreScan(r)
    \/ \E c \in Campaign, verdict \in DOMAIN Verdicts : DecideModeration(r, c, verdict)
    \/ StoreVerdict(r)

Next ==
    \/ \E r \in Request : WebhookStep(r) \/ AdminStep(r)
    \/ \E f \in Flag, c \in Campaign : CreateFlag(f, c)
    \/ \E f \in Flag, status \in {"REVIEWED", "DISMISSED"} : DecideFlag(f, status)
    \/ Stop

Spec == Init /\ [][Next]_vars
-----------------------------------------------------------------------------
(* What the checks are for.                                                *)

\* "auto-freezes a campaign at 3+ chargebacks": once no delivery is under way,
\* the campaign is frozen, in whatever order deliveries store and count, unless
\* the process ended between the two (ingest).
ThirdChargebackFreezes ==
    \A c \in Campaign :
        Cardinality(ChargebacksOf(c)) >= 3 => c \in frozen \/ Counted(c) \/ c \in lost

\* A campaign is frozen for its chargebacks or for a verdict, and a verdict
\* stays frozen when the campaign is scanned again (decide, scan).
FreezeHasACause ==
    \A c \in Campaign :
        /\ c \in frozen => c \in rejected \/ Cardinality(ChargebacksOf(c)) >= 3
        /\ moderation[c].status = "REJECTED" => c \in frozen

\* As long as requests do not overlap, evidence and the offer of a refund exclude
\* each other; and only small disputes are offered one (canSubmitEvidence,
\* canOfferRefund look at the status, which is written later).
EvidenceOrRefund ==
    \A d \in DOMAIN chargebacks :
        /\ ~(chargebacks[d].evidence /\ chargebacks[d].refund)
        /\ chargebacks[d].refund => d \in Low

=============================================================================
