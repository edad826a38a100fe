------------------------------- MODULE Observability -------------------------------
(***************************************************************************)
(* Analytics and monitoring (observability/ and the analytics of the web   *)
(* client): the tabs of a browser report events if the visitor agreed, an  *)
(* interceptor samples the requests that reach a handler, and admins are   *)
(* shown funnels, figures and alerts.                                      *)
(***************************************************************************)
EXTENDS Integers, Sequences, FiniteSets, FiniteSetsExt

CONSTANTS
    Tab,            \* the tabs of one browser
    EventType,      \* what tabs report, of ANALYTICS_EVENT_TYPES
    Route,          \* the routes of the API, "webhook" and "donation" among them
    Duration,       \* how long a request takes
    Capacity,       \* of the store of samples
    Windows,        \* Windows[w]: how far window w reaches back
    CriticalWebhooks, MinCards,     \* WEBHOOK_FAIL_CRIT, CARD_WAVE_MIN_SAMPLE
    MaxEvents, MaxRequests, MaxTime \* bounds

ObservabilityAssumption ==
    /\ {Capacity, CriticalWebhooks, MinCards, MaxEvents, MaxRequests, MaxTime} \subseteq Nat
    /\ Capacity > 0 /\ Duration \subseteq Nat
    /\ Windows \in [{"fast", "fast_short", "slow", "slow_short"} -> Nat]

VARIABLES
    stored,         \* the consent in the storage of the browser
    consent,        \* consent[t]: what tab t knows of it, or "closed"
    events,         \* the rows of AnalyticsEvent
    samples,        \* the samples of the interceptor
    cards,          \* the states of card donations, the latest last
    turnedAway,     \* webhooks that the guard turned away
    requests,       \* how many requests there were
    now

vars == <<stored, consent, events, samples, cards, turnedAway, requests, now>>

Consents == {"unset", "granted", "denied"}
Essential == {"donate_success"}
DonationFunnel == <<"gallery_view", "campaign_view", "donate_start", "donate_success">>

TypeOK ==
    /\ stored \in Consents /\ consent \in [Tab -> Consents \cup {"closed"}]
    /\ events \in Seq([type : EventType, tab : Tab])
    /\ samples \in Seq([route : Route, status : {200, 400, 500}, ms : Duration, at : 0..MaxTime])
    /\ cards \in Seq({"CAPTURED", "FAILED"})
    /\ turnedAway \in Nat /\ requests \in 0..MaxRequests /\ now \in 0..MaxTime

Init ==
    /\ stored = "unset" /\ consent = [t \in Tab |-> "closed"]
    /\ events = <<>> /\ samples = <<>> /\ cards = <<>>
    /\ turnedAway = 0 /\ requests = 0 /\ now = 0
-----------------------------------------------------------------------------
(* The browser.                                                            *)

\* A tab reads the consent once (readConsent).
Open(t) ==
    /\ consent[t] = "closed"
    /\ consent' = [consent EXCEPT ![t] = stored]
    /\ UNCHANGED <<stored, events, samples, cards, turnedAway, requests, now>>

\* The banner is there until a decision; writeConsent.
Decide(t, granted) ==
    /\ consent[t] = "unset"
    /\ stored' = IF granted THEN "granted" ELSE "denied"
    /\ consent' = [consent EXCEPT ![t] = stored']
    /\ UNCHANGED <<events, samples, cards, turnedAway, requests, now>>

\* Mutant: silence is taken for agreement.
MayUnlessDenied(type, state) == type \in Essential \/ state # "denied"
\* mayTrack
MayTrack(type, state) == type \in Essential \/ state = "granted"

\* track, and the route that records: if the database fails, nobody is told.
Track(t, type) ==
    /\ consent[t] # "closed"
    /\ MayTrack(type, consent[t])
    /\ Len(events) < MaxEvents
    /\ \/ events' = Append(events, [type |-> type, tab |-> t])
       \/ UNCHANGED events
    /\ UNCHANGED <<stored, consent, samples, cards, turnedAway, requests, now>>
-----------------------------------------------------------------------------
(* The server.                                                             *)

\* MetricsStore: the oldest sample makes room.
Record(sample) ==
    LET kept == IF Len(samples) >= Capacity THEN Tail(samples) ELSE samples
    IN  samples' = Append(kept, sample)

\* A request that a handler answers, or fails to (intercept).
Serve(route, status, ms) ==
    /\ requests < MaxRequests
    /\ requests' = requests + 1
    /\ Record([route |-> route, status |-> status, ms |-> ms, at |-> now])
    /\ UNCHANGED <<stored, consent, events, cards, turnedAway, now>>

\* Guards come before interceptors: what a guard turns away is not sampled
\* (canActivate throws).
TurnAway(route) ==
    /\ requests < MaxRequests
    /\ requests' = requests + 1
    /\ turnedAway' = IF route = "webhook" THEN turnedAway + 1 ELSE turnedAway
    /\ UNCHANGED <<stored, consent, events, samples, cards, now>>

\* A donation by card was charged, or not.
CardDonation(status) ==
    /\ Len(cards) < MinCards + 1
    /\ cards' = Append(cards, status)
    /\ UNCHANGED <<stored, consent, events, samples, turnedAway, requests, now>>

Tick ==
    /\ now < MaxTime
    /\ now' = now + 1
    /\ UNCHANGED <<stored, consent, events, samples, cards, turnedAway, requests>>
-----------------------------------------------------------------------------
(* What admins see.                                                        *)

\* Tenths of a percent, rounded.
Pct(part, whole) == IF whole <= 0 THEN 0 ELSE (2000 * part + whole) \div (2 * whole)

\* buildFunnel
Count(type) == Cardinality({i \in DOMAIN events : events[i].type = type})
BuildFunnel(steps) ==
    [i \in DOMAIN steps |->
        [count |-> Count(steps[i]), conversion |-> Pct(Count(steps[i]), Count(steps[1])),
         dropOff |-> IF i = 1 THEN 0
                     ELSE Max({0, Pct(Count(steps[i - 1]) - Count(steps[i]), Count(steps[i - 1]))})]]

Failed(s) == s.status >= 400
\* The sorted values of a field: how many samples are at most v.
AtMost(v) == Cardinality({i \in DOMAIN samples : samples[i].ms <= v})
\* percentile: the value at the rank, which is rounded up.
RankOf(p) == Max({1, (p * Len(samples) + 99) \div 100})
Percentile(p) ==
    IF samples = <<>> THEN 0
    ELSE Min({samples[i].ms : i \in {j \in DOMAIN samples : AtMost(samples[j].ms) >= RankOf(p)}})

\* aggregate
Snapshot ==
    LET errors == {i \in DOMAIN samples : samples[i].status >= 500}
        payments == {i \in DOMAIN samples : samples[i].route \in {"webhook", "donation"}}
    IN  [total |-> Len(samples), errorRate |-> Pct(Cardinality(errors), Len(samples)),
         p50 |-> Percentile(50), p95 |-> Percentile(95),
         paymentFailures |-> Pct(Cardinality({i \in payments : Failed(samples[i])}), Cardinality(payments))]

\* slo, evaluateWindow: the objective is 99.9 percent; how fast its budget burns,
\* compared with a threshold in tenths.
Since(w) == {i \in DOMAIN samples : samples[i].at >= now - Windows[w]}
Burns(w, tenths) ==
    10000 * Cardinality({i \in Since(w) : samples[i].status >= 500}) >= tenths * Cardinality(Since(w))
        /\ Since(w) # {}
\* evaluateSlo
SloAlert ==
    IF Burns("fast", 144) /\ Burns("fast_short", 144) THEN "page"
    ELSE IF Burns("slow", 60) /\ Burns("slow_short", 60) THEN "ticket" ELSE "none"

\* webhookFailures
WebhookFailures == Cardinality({i \in DOMAIN samples : samples[i].route = "webhook" /\ Failed(samples[i])})

\* What PaymentMonitorService counts, over the latest donations by card.
CardFailed == Cardinality({i \in DOMAIN cards : cards[i] = "FAILED"})

\* derivePaymentAlerts
CardAlert ==
    LET rate == Pct(CardFailed, Len(cards))
    IN  IF Len(cards) < MinCards \/ rate < 300 THEN "none" ELSE IF rate >= 500 THEN "critical" ELSE "warning"
WebhookAlert ==
    IF WebhookFailures = 0 THEN "none"
    ELSE IF WebhookFailures >= CriticalWebhooks THEN "critical" ELSE "warning"

\* ObservabilityController
Dashboard ==
    [funnel |-> BuildFunnel(DonationFunnel), metrics |-> Snapshot, slo |-> SloAlert,
     alerts |-> [cards |-> CardAlert, webhooks |-> WebhookAlert]]
-----------------------------------------------------------------------------
Next ==
    \/ \E t \in Tab : Open(t) \/ (\E granted \in BOOLEAN : Decide(t, granted))
    \/ \E t \in Tab, type \in EventType : Track(t, type)
    \/ \E route \in Route, status \in {200, 400, 500}, ms \in Duration : Serve(route, status, ms)
    \/ \E route \in Route : TurnAway(route)
    \/ \E status \in {"CAPTURED", "FAILED"} : CardDonation(status)
    \/ Tick

Spec == Init /\ [][Next]_vars
-----------------------------------------------------------------------------
(* What the checks are for.                                                *)

\* A tab whose visitor has not agreed, or declined, has reported nothing but
\* finished donations, whatever happened in other tabs (mayTrack).
SilentWithoutConsent ==
    \A t \in Tab : consent[t] \in {"closed", "unset", "denied"} =>
        \A i \in DOMAIN events : events[i].tab = t => events[i].type \in Essential

\* The percentile that admins read is a duration that occurred, reached by enough
\* of the requests and by no smaller one (percentile, over what the store kept).
PercentileIsReached ==
    samples # <<>> =>
        \A p \in {50, 95} :
            /\ 100 * AtMost(Percentile(p)) >= p * Len(samples)
            /\ \A v \in {samples[i].ms : i \in DOMAIN samples} :
                  v < Percentile(p) => 100 * AtMost(v) < p * Len(samples)

\* What admins are alarmed about is going on: an alarm about the objective names an
\* error of the shortest window that it looks at, one about webhooks a sample that is
\* still kept, and no step of the funnel loses more than it had (evaluateSlo,
\* derivePaymentAlerts, buildFunnel).
AlarmsHaveACause ==
    LET d == Dashboard
        ErrorSince(w) == \E i \in Since(w) : samples[i].status >= 500
    IN  /\ d.slo = "page" => ErrorSince("fast_short")
        /\ d.slo = "ticket" => ErrorSince("slow_short")
        /\ d.alerts.webhooks # "none" => d.metrics.total > 0
        /\ d.alerts.cards # "none" => "FAILED" \in {cards[i] : i \in DOMAIN cards}
        /\ \A i \in DOMAIN d.funnel : d.funnel[i].dropOff \in 0..1000

=============================================================================
