--------------------------- MODULE ScholarshipReview ---------------------------
(***************************************************************************)
(* A scholarship program (scholarship.service.ts) from its application     *)
(* form to the scholars it tracks: reviewers are added and score the       *)
(* applications, the service keeps a consensus score with each of them,    *)
(* the owner decides the awards of a yearly cycle, follows the scholars    *)
(* and renews the program for the next year.                               *)
(*                                                                         *)
(* Most handlers read the database in one step and write it in a later     *)
(* one, and nothing makes the two atomic.  A handler of this module serves *)
(* one request at a time and is then free for the next.                    *)
(***************************************************************************)
EXTENDS Integers, FiniteSets, FiniteSetsExt

CONSTANTS
    Handler,        \* the requests that run at the same time
    Application,    \* application ids, whose order breaks ties
    Reviewer,       \* e-mail addresses of reviewers
    MaxReviewers,   \* MAX_REVIEWERS
    Field,          \* keys of the form's fields
    Forms,          \* the forms the owner may set: the rubric weight of each field
    LateForms,      \* bound: is the form set once there are reviewers?
    Score,          \* the scores reviewers give
    Aggregate(_, _),    \* the consensus of a form's weights and the given scores
    Plans,          \* budget, slots and award of a cycle, as the owner may set them
    MaxYear         \* bound: the program is renewed up to this year

Plan == [budget : Nat, slots : Nat, award : Nat]

ASSUME ReviewAssumption ==
    /\ Application \subseteq Nat /\ IsFiniteSet(Application)
    /\ IsFiniteSet(Reviewer) /\ IsFiniteSet(Field)
    /\ MaxReviewers \in Nat
    /\ Forms \subseteq [Field -> Nat]
    /\ LateForms \in BOOLEAN
    /\ Score \subseteq 0 .. 5
    /\ Plans \subseteq Plan
    /\ MaxYear \in Nat \ {0}

Unscored == -1
NoForm == [f \in {} |-> 0]
Sheet == [Reviewer \X Field -> Score \cup {Unscored}]

\* What the process needs to know of aggregateRubric (RubricConsensus).
ASSUME AggregateAssumption ==
    \A weights \in Forms \cup {NoForm}, given \in Sheet : Aggregate(weights, given) \in 0 .. 100

\* rubric-aggregator.ts: "given" holds what each reviewer gave for each field, by
\* <<v, f>>; "weights" holds the rubric weight of each field of the form.

\* Math.round of n / d.
RoundedQuotient(n, d) == (2 * n + d) \div (2 * d)

\* The sum of the values of g over a set.
SumOver(S, g) == MapThenSumSet(LAMBDA x : g[x], S)

\* The mean of the scores given for a field, rounded to tenths, in tenths.
Average(given, f) ==
    LET rated == {vf \in DOMAIN given : vf[2] = f /\ given[vf] # Unscored}
    IN  IF rated = {} THEN 0
        ELSE RoundedQuotient(10 * SumOver(rated, given), Cardinality(rated))

\* aggregateRubric: the weighted mean, brought from 0..5 to 0..100.
RubricConsensus(weights, given) ==
    LET total == SumOver(DOMAIN weights, weights)
        sum == SumOver(DOMAIN weights, [f \in DOMAIN weights |-> Average(given, f) * weights[f]])
    IN  IF total = 0 THEN 0 ELSE RoundedQuotient(2 * sum, total)

VARIABLES
    cycles,     \* cycles[y]: the plan of year y
    form,       \* the rubric weights, or NoForm
    reviewers,  \* the reviewers of the program
    app,        \* the applications that exist
    scores,     \* scores[a][v, f]: what v gave a for f
    scholar,    \* the scholars, by the application that was awarded
    task        \* what each handler is doing

vars == <<cycles, form, reviewers, app, scores, scholar, task>>

Idle == [step |-> "idle"]

AppStatus == {"SUBMITTED", "UNDER_REVIEW", "AWARDED"}
ScholarStatus == {"AWARDED", "ENROLLED", "GRADUATED", "WORKING", "WITHDRAWN"}

Awarded == DOMAIN scholar
LastYear == CHOOSE y \in DOMAIN cycles : \A z \in DOMAIN cycles : z <= y

-----------------------------------------------------------------------------
(* The pure functions the service calls: award-decision.ts, scholar-status.ts *)

\* sortRanked: by consensus, then by id.
Ahead(a, b) ==
    \/ app[a].consensus > app[b].consensus
    \/ app[a].consensus = app[b].consensus /\ a < b

\* Mutant: the budget is not looked at.
PlacesBySlots(plan) == plan.slots

\* How many awards of its fixed amount a cycle has.
Places(plan) ==
    IF plan.award = 0 THEN 0
    ELSE IF plan.budget \div plan.award < plan.slots THEN plan.budget \div plan.award
    ELSE plan.slots

\* decideAwards: the first in the ranking, as far as the places go.
Winners(candidates, plan) ==
    {a \in candidates : Cardinality({b \in candidates : Ahead(b, a)}) < Places(plan)}

\* nextScholarStatus.
Transition == [
    enroll   |-> [from |-> {"AWARDED"}, to |-> "ENROLLED"],
    graduate |-> [from |-> {"ENROLLED"}, to |-> "GRADUATED"],
    employ   |-> [from |-> {"GRADUATED"}, to |-> "WORKING"],
    withdraw |-> [from |-> ScholarStatus \ {"WITHDRAWN"}, to |-> "WITHDRAWN"]]

JoinsAlumni(status) == status \in {"GRADUATED", "WORKING"}

-----------------------------------------------------------------------------

Tasks ==
    {Idle}
    \cup [step : {"addReviewer"}, reviewer : Reviewer]
    \cup [step : {"aggregate"}, of : Application]
    \cup [step : {"storeConsensus"}, of : Application, consensus : 0 .. 100]
    \cup [step : {"award"}, winners : SUBSET Application]
    \cup [step : {"storeStatus"}, of : Application, to : ScholarStatus]
    \cup [step : {"createCycle"}, year : Nat, plan : Plan]

TypeOK ==
    /\ DOMAIN cycles \subseteq 1 .. MaxYear
    /\ cycles \in [DOMAIN cycles -> Plan]
    /\ form \in Forms \cup {NoForm}
    /\ reviewers \subseteq Reviewer
    /\ DOMAIN app \subseteq Application
    /\ app \in [DOMAIN app -> [status : AppStatus, consensus : 0 .. 100]]
    /\ scores \in [Application -> Sheet]
    /\ Awarded \subseteq DOMAIN app
    /\ scholar \in [Awarded -> [status : ScholarStatus, alumni : BOOLEAN,
                                withdrawnAt : BOOLEAN]]
    /\ task \in [Handler -> Tasks]

Init ==
    /\ \E plan \in Plans : cycles = [y \in {1} |-> plan]
    /\ form = NoForm
    /\ reviewers = {}
    /\ app = [a \in {} |-> {}]
    /\ scores = [a \in Application |-> [vf \in Reviewer \X Field |-> Unscored]]
    /\ scholar = [a \in {} |-> {}]
    /\ task = [h \in Handler |-> Idle]

Continue(h, next) == task' = [task EXCEPT ![h] = next]

\* A row more, or another one for the same key.
With(table, key, row) ==
    [k \in DOMAIN table \cup {key} |-> IF k = key THEN row ELSE table[k]]

-----------------------------------------------------------------------------
(* The program and its applications.                                       *)

\* setForm replaces the form in one transaction.
SetForm(h, weights) ==
    /\ task[h] = Idle
    /\ LateForms \/ reviewers = {}
    /\ form' = weights
    /\ UNCHANGED <<cycles, reviewers, app, scores, scholar, task>>

\* createApplicationSlot: a blank application, which counts as submitted.
CreateApplicationSlot(h, a) ==
    /\ task[h] = Idle
    /\ a \notin DOMAIN app
    /\ app' = With(app, a, [status |-> "SUBMITTED", consensus |-> 0])
    /\ UNCHANGED <<cycles, form, reviewers, scores, scholar, task>>

\* The applicant hands in the answers, for the first time or again.
SubmitApplication(h, a) ==
    /\ task[h] = Idle
    /\ a \in DOMAIN app
    /\ form # NoForm
    /\ app' = [app EXCEPT ![a].status = "SUBMITTED"]
    /\ UNCHANGED <<cycles, form, reviewers, scores, scholar, task>>

RoomForReviewer == Cardinality(reviewers) < MaxReviewers

\* addReviewer counts the reviewers ...
AddReviewer(h, v) ==
    /\ task[h] = Idle
    /\ RoomForReviewer
    /\ Continue(h, [step |-> "addReviewer", reviewer |-> v])
    /\ UNCHANGED <<cycles, form, reviewers, app, scores, scholar>>

\* ... and then creates one, unless the address is in use.
CreateReviewer(h) ==
    /\ task[h].step = "addReviewer"
    /\ reviewers' = reviewers \cup {task[h].reviewer}
    /\ Continue(h, Idle)
    /\ UNCHANGED <<cycles, form, app, scores, scholar>>

-----------------------------------------------------------------------------
(* Reviews.                                                                *)

\* scoreApplication stores the scores in one transaction ...
ScoreApplication(h, a, v, given) ==
    /\ task[h] = Idle
    /\ a \in DOMAIN app
    /\ v \in reviewers
    /\ scores' = [scores EXCEPT ![a] =
                    [vf \in Reviewer \X Field |->
                        IF vf[1] = v /\ vf[2] \in DOMAIN given THEN given[vf[2]]
                        ELSE scores[a][vf]]]
    /\ Continue(h, [step |-> "aggregate", of |-> a])
    /\ UNCHANGED <<cycles, form, reviewers, app, scholar>>

\* ... then recomputeConsensus reads the scores of all reviewers ...
ReadScores(h) ==
    /\ task[h].step = "aggregate"
    /\ LET a == task[h].of
       IN  Continue(h, [step |-> "storeConsensus", of |-> a,
                        consensus |-> Aggregate(form, scores[a])])
    /\ UNCHANGED <<cycles, form, reviewers, app, scores, scholar>>

\* Mutant: a consensus is stored only once.
StoreFirstConsensus(h) ==
    /\ task[h].step = "storeConsensus"
    /\ LET a == task[h].of
       IN  app' = IF app[a].status = "SUBMITTED"
                  THEN [app EXCEPT ![a] = [status |-> "UNDER_REVIEW",
                                           consensus |-> task[h].consensus]]
                  ELSE app
    /\ Continue(h, Idle)
    /\ UNCHANGED <<cycles, form, reviewers, scores, scholar>>

\* ... and writes what it has computed, whatever the application's status.
StoreConsensus(h) ==
    /\ task[h].step = "storeConsensus"
    /\ app' = [app EXCEPT ![task[h].of] = [status |-> "UNDER_REVIEW",
                                           consensus |-> task[h].consensus]]
    /\ Continue(h, Idle)
    /\ UNCHANGED <<cycles, form, reviewers, scores, scholar>>

-----------------------------------------------------------------------------
(* Awards.                                                                 *)

\* decide reads every application of the program without an award ...
Decide(h, year) ==
    /\ task[h] = Idle
    /\ year \in DOMAIN cycles
    /\ Continue(h, [step |-> "award",
                    winners |-> Winners(DOMAIN app \ Awarded, cycles[year])])
    /\ UNCHANGED <<cycles, form, reviewers, app, scores, scholar>>

\* ... and gives the winners their awards in one transaction, which is rolled
\* back when one of them has an award by now.
AwardWinners(h) ==
    /\ task[h].step = "award"
    /\ LET winners == task[h].winners
       IN  IF winners \cap Awarded # {} THEN UNCHANGED <<app, scholar>>
           ELSE /\ app' = [a \in DOMAIN app |->
                             IF a \in winners THEN [app[a] EXCEPT !.status = "AWARDED"]
                             ELSE app[a]]
                /\ scholar' = [a \in Awarded \cup winners |->
                                 IF a \in winners
                                 THEN [status |-> "AWARDED", alumni |-> FALSE,
                                       withdrawnAt |-> FALSE]
                                 ELSE scholar[a]]
    /\ Continue(h, Idle)
    /\ UNCHANGED <<cycles, form, reviewers, scores>>

\* setScholarStatus checks the event against the status it has read ...
SetScholarStatus(h, a, event) ==
    /\ task[h] = Idle
    /\ a \in Awarded
    /\ scholar[a].status \in Transition[event].from
    /\ Continue(h, [step |-> "storeStatus", of |-> a, to |-> Transition[event].to])
    /\ UNCHANGED <<cycles, form, reviewers, app, scores, scholar>>

\* ... and writes the new one.
StoreStatus(h) ==
    /\ task[h].step = "storeStatus"
    /\ LET a == task[h].of  to == task[h].to
       IN  scholar' = [scholar EXCEPT ![a] =
                         [status |-> to,
                          alumni |-> scholar[a].alumni \/ JoinsAlumni(to),
                          withdrawnAt |-> scholar[a].withdrawnAt \/ to = "WITHDRAWN"]]
    /\ Continue(h, Idle)
    /\ UNCHANGED <<cycles, form, reviewers, app, scores>>

-----------------------------------------------------------------------------
(* Renewal.                                                                *)

\* renew plans the year after the last, with new figures or the old ones ...
Renew(h, plan) ==
    /\ task[h] = Idle
    /\ LastYear < MaxYear
    /\ Continue(h, [step |-> "createCycle", year |-> LastYear + 1, plan |-> plan])
    /\ UNCHANGED <<cycles, form, reviewers, app, scores, scholar>>

\* ... and creates its cycle, unless there is one by now.
CreateCycle(h) ==
    /\ task[h].step = "createCycle"
    /\ cycles' = IF task[h].year \in DOMAIN cycles THEN cycles
                 ELSE With(cycles, task[h].year, task[h].plan)
    /\ Continue(h, Idle)
    /\ UNCHANGED <<form, reviewers, app, scores, scholar>>

Serve(h) ==
    \/ \E weights \in Forms : SetForm(h, weights)
    \/ \E a \in Application : CreateApplicationSlot(h, a) \/ SubmitApplication(h, a)
    \/ \E v \in Reviewer : AddReviewer(h, v)
    \/ CreateReviewer(h)
    \/ \E a \in Application, v \in Reviewer, fs \in SUBSET Field :
          \E given \in [fs -> Score] : ScoreApplication(h, a, v, given)
    \/ ReadScores(h)
    \/ StoreConsensus(h)
    \/ \E year \in 1 .. MaxYear : Decide(h, year)
    \/ AwardWinners(h)
    \/ \E a \in Application, event \in DOMAIN Transition : SetScholarStatus(h, a, event)
    \/ StoreStatus(h)
    \/ \E plan \in Plans \cup {cycles[LastYear]} : Renew(h, plan)
    \/ CreateCycle(h)

Next == \E h \in Handler : Serve(h)

Spec == Init /\ [][Next]_vars

-----------------------------------------------------------------------------
(* What the service promises.                                              *)

Scored(a) == \E vf \in Reviewer \X Field : scores[a][vf] # Unscored

BeingScored(a) ==
    \E h \in Handler : task[h].step \in {"aggregate", "storeConsensus"} /\ task[h].of = a

\* Once nobody is scoring an application, the consensus stored with it is the
\* one its scores and the program's form give (recomputeConsensus): decide
\* ranks by the stored one.
ConsensusIsCurrent ==
    \A a \in DOMAIN app :
        Scored(a) /\ ~BeingScored(a) => app[a].consensus = Aggregate(form, scores[a])

\* Reviewers who agree on every field are the consensus, on the scale of 0 to
\* 100, however many of them have scored (aggregateRubric, no null bias).
UnanimityIsConsensus ==
    \A a \in DOMAIN app, s \in Score :
        /\ ~BeingScored(a) /\ form # NoForm
        /\ \E f \in Field : form[f] > 0
        /\ \A f \in Field : form[f] > 0 =>
              /\ \E v \in Reviewer : scores[a][<<v, f>>] = s
              /\ \A v \in Reviewer : scores[a][<<v, f>>] \in {s, Unscored}
        => app[a].consensus = 20 * s

\* A decision leaves nobody without an award who ranks before somebody it
\* gives one to, and a tie goes to the smaller id (decide, decideAwards).
BestAreAwarded ==
    \A a \in Awarded' \ Awarded, b \in DOMAIN app \ Awarded' :
        \/ app[a].consensus > app[b].consensus
        \/ app[a].consensus = app[b].consensus /\ a < b

\* One decision stays within the slots and the budget of one cycle (decide,
\* decideAwards).
DecisionFits ==
    [][LET number == Cardinality(Awarded' \ Awarded)
       IN  number > 0 => \E y \in DOMAIN cycles :
              number <= cycles[y].slots /\ number * cycles[y].award <= cycles[y].budget]_vars

\* A scholar who graduated or works belongs to the alumni, whatever events
\* arrive at the same time (setScholarStatus).
GraduatesAreAlumni ==
    \A a \in Awarded : scholar[a].status \in {"GRADUATED", "WORKING"} => scholar[a].alumni

\* Renewals that run at the same time never change the figures of a year that
\* was created, nor skip one (renew).
CyclesAreKept ==
    [][/\ \A y \in DOMAIN cycles : y \in DOMAIN cycles' /\ cycles'[y] = cycles[y]
       /\ \A y \in DOMAIN cycles' : y = 1 \/ y - 1 \in DOMAIN cycles']_vars
=============================================================================
