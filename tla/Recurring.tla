------------------------------- MODULE Recurring -------------------------------
(***************************************************************************)
(* Monthly pledges (recurring.service.ts).  A donor creates, pauses,       *)
(* resumes and cancels pledges and starts the runs that charge what is     *)
(* due.  A run reads the due pledges once and then, for one pledge after   *)
(* the other, reads the campaign, charges the card and stores the donation *)
(* with the pledge's new schedule; runs of one donor may overlap.          *)
(*                                                                         *)
(* What the campaign's total becomes is the subject of module Funding;     *)
(* here the campaign only takes donations or does not.                     *)
(***************************************************************************)
EXTENDS Integers, FiniteSets

CONSTANTS
    Pledge,         \* the pledges of one donor, for one campaign
    Run,            \* the runs that may be going on at the same time
    Amount, Goal,   \* what a pledge pays each month, what the campaign needs
    Outcomes,       \* what the payment provider may answer
    MaxTime,        \* bound: months
    MaxChanges,     \* bound: how often the donor changes a pledge
    MaxStops        \* bound: how many runs may die

ASSUME RecurringAssumption ==
    /\ Amount \in Nat \ {0} /\ Goal \in Nat \ {0}
    /\ Outcomes \subseteq {"SUCCEEDED", "FAILED"}
    /\ MaxTime \in Nat /\ MaxChanges \in Nat /\ MaxStops \in Nat

VARIABLES
    time,       \* the month
    pledge,     \* the rows, of the pledges created so far
    raised,     \* raisedCents of the campaign
    open,       \* is the campaign live and verified?
    charged,    \* how often the provider charged the card for a pledge
    donations,  \* how many donations are stored for a pledge
    run,        \* local state of the runs
    changes,    \* how often the donor changed a pledge
    stops       \* how many runs died

vars == <<time, pledge, raised, open, charged, donations, run, changes, stops>>

Status == {"ACTIVE", "PAUSED", "CANCELLED"}
Row == [status : Status, charges : Nat, next : Nat, created : Nat]
Created == DOMAIN pledge

Idle == [at |-> "idle"]

\* A run remembers when it started, and the charges of the due pledges it has
\* read and not dealt with.
NotListed == -1
Listed(r) == {p \in Pledge : run[r].todo[p] # NotListed}
Looping(todo, now) == [at |-> "loop", todo |-> todo, now |-> now]

Todo == [Pledge -> Nat \cup {NotListed}]
RunState ==
    {Idle}
    \cup [at : {"loop"}, todo : Todo, now : Nat]
    \cup [at : {"cancel", "charge", "apply", "dead"}, todo : Todo, now : Nat,
          cur : Pledge, seen : 0 .. Goal]

TypeOK ==
    /\ time \in 0 .. MaxTime
    /\ Created \subseteq Pledge
    /\ pledge \in [Created -> Row]
    /\ raised \in 0 .. Goal
    /\ open \in BOOLEAN
    /\ charged \in [Pledge -> Nat] /\ donations \in [Pledge -> Nat]
    /\ run \in [Run -> RunState]
    /\ changes \in 0 .. MaxChanges
    /\ stops \in 0 .. MaxStops

Init ==
    /\ time = 0
    /\ pledge = [p \in {} |-> {}]
    /\ raised = 0
    /\ open = TRUE
    /\ charged = [p \in Pledge |-> 0]
    /\ donations = [p \in Pledge |-> 0]
    /\ run = [r \in Run |-> Idle]
    /\ changes = 0
    /\ stops = 0

-----------------------------------------------------------------------------
(* The donor, the calendar and the campaign.                               *)

Create(p) ==
    /\ p \notin Created
    /\ open
    /\ pledge' = [q \in Created \cup {p} |->
                    IF q = p THEN [status |-> "ACTIVE", charges |-> 0, next |-> time, created |-> time]
                    ELSE pledge[q]]
    /\ UNCHANGED <<time, raised, open, charged, donations, run, changes, stops>>

\* pause, resume and cancel write the status, whatever it was.
SetStatus(p, status) ==
    /\ p \in Created
    /\ changes < MaxChanges
    /\ pledge' = [pledge EXCEPT ![p].status = status]
    /\ changes' = changes + 1
    /\ UNCHANGED <<time, raised, open, charged, donations, run, stops>>

Tick ==
    /\ time < MaxTime
    /\ time' = time + 1
    /\ UNCHANGED <<pledge, raised, open, charged, donations, run, changes, stops>>

\* The campaign is closed, funded by others, or loses its verification.
CampaignCloses ==
    /\ open
    /\ open' = FALSE
    /\ UNCHANGED <<time, pledge, raised, charged, donations, run, changes, stops>>

-----------------------------------------------------------------------------
(* A run.                                                                  *)

\* Mutant: a run takes the active pledges, due or not.
ActivePledges == {p \in Created : pledge[p].status = "ACTIVE"}

DuePledges == {p \in Created : pledge[p].status = "ACTIVE" /\ pledge[p].next <= time}

\* runDue reads the due pledges.
RunDue(r) ==
    /\ run[r] = Idle
    /\ run' = [run EXCEPT ![r] = 
                 Looping([p \in Pledge |-> IF p \in DuePledges THEN pledge[p].charges ELSE NotListed],
                         time)]
    /\ UNCHANGED <<time, pledge, raised, open, charged, donations, changes, stops>>

\* The loop reads the campaign for the next pledge.
ReadCampaign(r, p) ==
    /\ run[r].at = "loop"
    /\ p \in Listed(r)
    /\ run' = [run EXCEPT ![r] =
                 [at |-> IF open /\ raised < Goal THEN "charge" ELSE "cancel",
                  todo |-> run[r].todo, now |-> run[r].now, cur |-> p, seen |-> raised]]
    /\ UNCHANGED <<time, pledge, raised, open, charged, donations, changes, stops>>

\* Nothing is left: the run answers.
Answer(r) ==
    /\ run[r].at = "loop"
    /\ Listed(r) = {}
    /\ run' = [run EXCEPT ![r] = Idle]
    /\ UNCHANGED <<time, pledge, raised, open, charged, donations, changes, stops>>

\* On with the next pledge.
Continue(r) ==
    run' = [run EXCEPT ![r] = Looping([run[r].todo EXCEPT ![run[r].cur] = NotListed], run[r].now)]

\* The campaign takes no donations any more: the pledge ends.
CancelPledge(r) ==
    /\ run[r].at = "cancel"
    /\ pledge' = [pledge EXCEPT ![run[r].cur].status = "CANCELLED"]
    /\ Continue(r)
    /\ UNCHANGED <<time, raised, open, charged, donations, changes, stops>>

\* Mutant: a failed charge is tried again in the same run.
RetryCharge(r) ==
    /\ run[r].at = "charge"
    /\ \E outcome \in Outcomes :
          IF outcome = "SUCCEEDED"
          THEN /\ charged' = [charged EXCEPT ![run[r].cur] = @ + 1]
               /\ run' = [run EXCEPT ![r].at = "apply"]
          ELSE run' = [run EXCEPT ![r].at = "loop"] /\ UNCHANGED charged
    /\ UNCHANGED <<time, pledge, raised, open, donations, changes, stops>>

\* The card is charged; a failed charge is only reported.
Charge(r) ==
    /\ run[r].at = "charge"
    /\ \E outcome \in Outcomes :
          IF outcome = "SUCCEEDED"
          THEN /\ charged' = [charged EXCEPT ![run[r].cur] = @ + 1]
               /\ run' = [run EXCEPT ![r].at = "apply"]
          ELSE Continue(r) /\ UNCHANGED charged
    /\ UNCHANGED <<time, pledge, raised, open, donations, changes, stops>>

\* advance: the count the run has read, plus one.
NextCount(counted) == counted + 1

\* addMonth.
NextRun(now) == now + 1

\* splitContribution: what the goal still needs; the rest is a tip.
ToGoal(seen) == IF Amount < Goal - seen THEN Amount ELSE Goal - seen

\* applyCharge, one transaction: the donation, the campaign, the schedule.
ApplyCharge(r) ==
    /\ run[r].at = "apply"
    /\ LET p == run[r].cur
           total == run[r].seen + ToGoal(run[r].seen)
       IN  /\ donations' = [donations EXCEPT ![p] = @ + 1]
           /\ raised' = total
           /\ open' = (open /\ total < Goal)
           /\ pledge' = [pledge EXCEPT ![p] =
                           [status |-> pledge[p].status, created |-> pledge[p].created,
                            charges |-> NextCount(run[r].todo[p]), next |-> NextRun(run[r].now)]]
    /\ Continue(r)
    /\ UNCHANGED <<time, charged, changes, stops>>

\* A run dies with its request.
Stop(r) ==
    /\ run[r].at \in {"cancel", "charge", "apply"}
    /\ stops < MaxStops
    /\ stops' = stops + 1
    /\ run' = [run EXCEPT ![r].at = "dead"]
    /\ UNCHANGED <<time, pledge, raised, open, charged, donations, changes>>

Proceed(r) ==
    \/ \E p \in Pledge : ReadCampaign(r, p)
    \/ Answer(r)
    \/ CancelPledge(r)
    \/ Charge(r)
    \/ ApplyCharge(r)

Next ==
    \/ \E p \in Pledge : Create(p)
    \/ \E p \in Pledge, status \in Status : SetStatus(p, status)
    \/ Tick
    \/ CampaignCloses
    \/ \E r \in Run : RunDue(r) \/ Proceed(r) \/ Stop(r)

Spec == Init /\ [][Next]_vars

\* A run that has started goes on: the event loop and the provider answer.
Fairness == \A r \in Run : WF_vars(Proceed(r))

-----------------------------------------------------------------------------
(* What the service promises.                                              *)

\* A pledge is charged at most once a month, from the month it was created in
\* (runDue, nextRunAt).
MonthlyAtMostOnce == \A p \in Created : charged[p] <= time - pledge[p].created + 1

\* While no run is at work, the chargesCount of a pledge is the number of its
\* charges and of its donations (applyCharge).
CountIsCharges ==
    (\A r \in Run : run[r] = Idle) =>
        \A p \in Created : pledge[p].charges = charged[p] /\ donations[p] = charged[p]

\* Overlapping runs may lose a count but never invent one: chargesCount is at
\* most the number of donations (applyCharge).
CountNeverOverstates == \A p \in Created : pledge[p].charges <= donations[p]

\* Every charge is a donation, except those whose run is about to store it or
\* died before it could (runDue, applyCharge).
ChargesAreAccounted ==
    \A p \in Pledge :
        LET before == {r \in Run : run[r].at = "apply" /\ run[r].cur = p}
            died == {r \in Run : run[r].at = "dead" /\ run[r].cur = p}
        IN  /\ donations[p] + Cardinality(before) <= charged[p]
            /\ charged[p] <= donations[p] + Cardinality(before) + Cardinality(died)

\* The schedule never runs ahead: whatever the runs do, a pledge is due again
\* within a month (addMonth).
NeverSkipsAMonth == \A p \in Created : pledge[p].next <= time + 1

\* A run that was started ends, also when charges fail, unless it dies (runDue).
RunsEnd == \A r \in Run : run[r].at = "loop" ~> run[r].at \in {"idle", "dead"}
=============================================================================
