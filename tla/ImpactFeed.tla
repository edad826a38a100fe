------------------------------- MODULE ImpactFeed -------------------------------
(***************************************************************************)
(* What the supporters of one campaign are told (notifications.service.ts, *)
(* impact-feed.service.ts): a thank-you for a gift, the milestones of the  *)
(* campaign, its updates, and the voice messages of the student, which are *)
(* moderated, shown in the feed and sent to messengers.                    *)
(***************************************************************************)
EXTENDS Integers, FiniteSets

CONSTANTS
    Request,        \* the requests that run at the same time
    Donor,
    Amount,         \* what can be given
    Goal,           \* of the campaign
    Voice,          \* voice messages: what moderation finds in each of them
    Channel,        \* the messengers
    Wanted,         \* what the environment may ask for: "mock", "whatsapp", "telegram"
    MaxStops,       \* bound: how often a request ends in the middle
    MaxGifts,       \* bound
    MaxUpdates      \* bound: updates of the campaign

ImpactFeedAssumption ==
    /\ IsFiniteSet(Donor) /\ Wanted \subseteq {"mock", "whatsapp", "telegram"}
    /\ Amount \subseteq Nat \ {0} /\ Goal \in Nat \ {0}
    /\ MaxStops \in Nat /\ MaxGifts \in Nat /\ MaxUpdates \in Nat

VARIABLES
    raised,         \* raisedCents
    gifts,          \* gifts[u]: how often u gave
    subscribers,    \* the subscriptions of the campaign
    told,           \* told[u][m]: how often u was told of m
    prefs,          \* the messengers each donor has opted into
    voices,         \* the voice messages and their status
    sent,           \* what went out to messengers
    seen,           \* the items of the feed each donor has read
    provider,       \* the provider of messengers
    task,           \* what each request has read and not yet written
    stops           \* how many requests ended in the middle

vars == <<raised, gifts, subscribers, told, prefs, voices, sent, seen, provider, task, stops>>

\* Milestones are told by their percentage, the rest by a number of its own.
Milestones == {80, 90, 100}
ThankYou == 1
Update == 2
Events == Milestones \cup {ThankYou, Update}
Idle == [step |-> "idle"]

TypeOK ==
    /\ raised \in 0..Goal
    /\ gifts \in [Donor -> 0..MaxGifts]
    /\ subscribers \subseteq Donor
    /\ told \in [Donor -> [Events -> Nat]]
    /\ prefs \in [Donor -> SUBSET Channel]
    /\ voices \in [DOMAIN voices -> {"APPROVED", "REJECTED"}] /\ DOMAIN voices \subseteq Voice
    /\ sent \subseteq [to : Donor, channel : Channel, voice : Voice]
    /\ \A r \in Request : task[r].step \in {"idle", "record", "thank", "announce", "update", "fan", "send"}
    /\ stops \in 0..MaxStops /\ provider \in {"mock", "whatsapp", "telegram"}

\* selectMessagingProvider: without its credentials the mock takes its place.
SelectProvider(kind, credentials) == IF credentials THEN kind ELSE "mock"
\* SUPPORTED
Supports(ch) ==
    provider = "mock" \/ (provider = "whatsapp" /\ ch = "WHATSAPP") \/ (provider = "telegram" /\ ch = "TELEGRAM")

Init ==
    /\ raised = 0
    /\ gifts = [u \in Donor |-> 0]
    /\ subscribers = {}
    /\ told = [u \in Donor |-> [e \in Events |-> 0]]
    /\ prefs = [u \in Donor |-> {}]
    /\ voices = <<>>
    /\ sent = {}
    /\ seen = [u \in Donor |-> {}]
    /\ \E kind \in Wanted, credentials \in BOOLEAN : provider = SelectProvider(kind, credentials)
    /\ task = [r \in Request |-> Idle]
    /\ stops = 0

Continue(r, next) == task' = [task EXCEPT ![r] = next]
Given == {u \in Donor : gifts[u] > 0}
Total == Cardinality({g \in Donor \X (1..MaxGifts) : g[2] <= gifts[g[1]]})
-----------------------------------------------------------------------------
(* A gift and what follows from it.                                        *)

\* donateCard reads the campaign, which takes no more than it lacks ...
Give(r, u, amount) ==
    /\ task[r] = Idle
    /\ raised < Goal
    /\ Continue(r, [step |-> "record", donor |-> u, prev |-> raised,
                    new |-> IF raised + amount > Goal THEN Goal ELSE raised + amount])
    /\ UNCHANGED <<raised, gifts, subscribers, told, prefs, voices, sent, seen, provider, stops>>

\* ... and writes what is raised by its own count.
Record(r) ==
    /\ task[r].step = "record"
    /\ Total < MaxGifts
    /\ raised' = task[r].new
    /\ gifts' = [gifts EXCEPT ![task[r].donor] = @ + 1]
    /\ Continue(r, [task[r] EXCEPT !.step = "thank"])
    /\ UNCHANGED <<subscribers, told, prefs, voices, sent, seen, provider, stops>>

\* onDonation: the donor is subscribed and thanked.
Thank(r) ==
    /\ task[r].step = "thank"
    /\ subscribers' = subscribers \cup {task[r].donor}
    /\ told' = [told EXCEPT ![task[r].donor][ThankYou] = @ + 1]
    /\ Continue(r, [task[r] EXCEPT !.step = "announce"])
    /\ UNCHANGED <<raised, gifts, prefs, voices, sent, seen, provider, stops>>

\* Mutant: the milestone that is met exactly is left out.
Passed(prev, new) == {m \in Milestones : 100 * prev < m * Goal /\ 100 * new > m * Goal}

\* crossedMilestones
Crossed(prev, new) == {m \in Milestones : 100 * prev < m * Goal /\ 100 * new >= m * Goal}

\* deliver, to each of them, in one loop.
Deliver(pairs) ==
    told' = [u \in Donor |-> [e \in Events |-> told[u][e] + (IF <<u, e>> \in pairs THEN 1 ELSE 0)]]

\* The milestones between what the request had read and what it wrote.
Announce(r) ==
    /\ task[r].step = "announce"
    /\ Deliver(subscribers \X Crossed(task[r].prev, task[r].new))
    /\ Continue(r, Idle)
    /\ UNCHANGED <<raised, gifts, subscribers, prefs, voices, sent, seen, provider, stops>>

\* onImpactUpdate: an update is posted, and all who subscribed are told.
PostUpdate(r) ==
    /\ task[r] = Idle
    /\ \A u \in Donor : told[u][Update] < MaxUpdates
    /\ Deliver(subscribers \X {Update})
    /\ UNCHANGED <<raised, gifts, subscribers, prefs, voices, sent, seen, provider, task, stops>>
-----------------------------------------------------------------------------
(* The voice of the student.                                               *)

\* moderateVoice: any reason rejects.
ModerateVoice(voice) == IF voice = {} THEN "APPROVED" ELSE "REJECTED"

\* submitVoice stores the message, and goes on if it is approved.
SubmitVoice(r, voice) ==
    /\ task[r] = Idle
    /\ voice \notin DOMAIN voices
    /\ voices' = [v \in DOMAIN voices \cup {voice} |->
                     IF v = voice THEN ModerateVoice(voice) ELSE voices[v]]
    /\ Continue(r, IF ModerateVoice(voice) = "APPROVED" THEN [step |-> "fan", voice |-> voice]
                   ELSE Idle)
    /\ UNCHANGED <<raised, gifts, subscribers, told, prefs, sent, seen, provider, stops>>

\* fanOutVoice reads who gave or subscribed, and their messengers ...
FanOut(r) ==
    /\ task[r].step = "fan"
    /\ Continue(r, [step |-> "send", voice |-> task[r].voice,
                    to |-> {x \in (subscribers \cup Given) \X Channel : x[2] \in prefs[x[1]]}])
    /\ UNCHANGED <<raised, gifts, subscribers, told, prefs, voices, sent, seen, provider, stops>>

\* ... and sends to one after the other; one that the provider does not support, or
\* refuses, is skipped ...
Send(r) ==
    /\ task[r].step = "send"
    /\ \/ \E target \in task[r].to :
             /\ Continue(r, [task[r] EXCEPT !.to = @ \ {target}])
             /\ \/ /\ Supports(target[2])
                   /\ sent' = sent \cup {[to |-> target[1], channel |-> target[2], voice |-> task[r].voice]}
                \/ UNCHANGED sent
       \/ task[r].to = {} /\ Continue(r, Idle) /\ UNCHANGED sent
    /\ UNCHANGED <<raised, gifts, subscribers, told, prefs, voices, seen, provider, stops>>

\* ... and one that is not reached ends the request: fetch throws.
MessengerFails(r) ==
    /\ task[r].step = "send" /\ task[r].to # {}
    /\ provider # "mock"
    /\ Continue(r, Idle)
    /\ UNCHANGED <<raised, gifts, subscribers, told, prefs, voices, sent, seen, provider, stops>>

\* setChannelPref: opting out takes the messenger out.
SetPref(r, u, ch, in) ==
    /\ task[r] = Idle
    /\ prefs' = [prefs EXCEPT ![u] = IF in THEN @ \cup {ch} ELSE @ \ {ch}]
    /\ UNCHANGED <<raised, gifts, subscribers, told, voices, sent, seen, provider, task, stops>>
-----------------------------------------------------------------------------
(* The feed.                                                               *)

\* feedSources, buildFeed: the highest milestone that is reached, and the voice
\* messages that are approved.
Items == {<<"MILESTONE", m>> : m \in {m \in Crossed(0, raised) : \A n \in Crossed(0, raised) : n <= m}}
            \cup {<<"VOICE", v>> : v \in {v \in DOMAIN voices : voices[v] = "APPROVED"}}

\* feed: only what the donor supports.
Feed(u) == IF u \in subscribers \cup Given THEN Items ELSE {}


MarkRead(u) ==
    /\ \E item \in Feed(u) \ seen[u] : seen' = [seen EXCEPT ![u] = @ \cup {item}]
    /\ UNCHANGED <<raised, gifts, subscribers, told, prefs, voices, sent, provider, task, stops>>

\* A request ends in the middle; what it has written stays, and of a loop any
\* part may be done.
Stop(r) ==
    /\ stops < MaxStops
    /\ task[r] # Idle
    /\ \/ /\ task[r].step = "announce"
          /\ \E part \in SUBSET (subscribers \X Crossed(task[r].prev, task[r].new)) : Deliver(part)
       \/ UNCHANGED told
    /\ Continue(r, Idle)
    /\ stops' = stops + 1
    /\ UNCHANGED <<raised, gifts, subscribers, prefs, voices, sent, seen, provider>>
-----------------------------------------------------------------------------
\* The routes of donors and of the student.
DonorStep(r) ==
    \/ \E u \in Donor, amount \in Amount : Give(r, u, amount)
    \/ Record(r) \/ Thank(r) \/ Announce(r)
    \/ \E u \in Donor, ch \in Channel, in \in BOOLEAN : SetPref(r, u, ch, in)

StudentStep(r) ==
    \/ PostUpdate(r)
    \/ \E voice \in Voice : SubmitVoice(r, voice)
    \/ FanOut(r) \/ Send(r) \/ MessengerFails(r)

Next ==
    \/ \E r \in Request : DonorStep(r) \/ StudentStep(r) \/ Stop(r)
    \/ \E u \in Donor : MarkRead(u)

Spec == Init /\ [][Next]_vars
-----------------------------------------------------------------------------
(* What the checks are for.                                                *)

Announcing == {r \in Request : task[r].step \in {"thank", "announce"}}

\* A milestone that is reached is announced by someone, unless a request ended in
\* the middle: requests count from what they have read, which may be stale, but
\* none of them starts beyond a milestone that nobody has crossed
\* (crossedMilestones, onDonation).
NoMilestoneIsMissed ==
    \A m \in {m \in Milestones : 100 * raised >= m * Goal} :
        \/ stops > 0
        \/ \E u \in Donor : told[u][m] > 0
        \/ \E r \in Announcing : m \in Crossed(task[r].prev, task[r].new)

\* Nobody is told twice of the same milestone; requests that overlap count it
\* twice (onDonation).
MilestonesOnce == \A u \in Donor, m \in Milestones : told[u][m] <= 1

\* What moderation rejects reaches nobody, neither in a feed nor by messenger
\* (moderateVoice, submitVoice, feedSources).
RejectedStaysHidden ==
    \A v \in Voice :
        v # {} => /\ \A u \in Donor : <<"VOICE", v>> \notin Feed(u)
                  /\ \A s \in sent : s.voice # v

=============================================================================
