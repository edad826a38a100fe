---------------------------- MODULE MCApplications ----------------------------
(*****************************************************************************)
(* Instances of ScholarshipReview, and of the form and the coach that        *)
(* candidates write with, for TLC.                                           *)
(*                                                                           *)
(* The parts share no state, and each is explored on its own: focus is the   *)
(* part whose steps a behaviour consists of; a part that waits stays in an   *)
(* initial state.                                                            *)
(*****************************************************************************)
EXTENDS ScholarshipReview, TLC, Sequences

CONSTANTS
    Hand,   \* the requests of students that run at the same time
    f1,     \* a field of the form
    Slot, Key, Fields, MaxFields, Value, Blank, Fits(_), MaxForms, MaxSubmits, \* of ApplicationForm
    User, Kind, Locale, Hints, Template, Reply, Window, InputLength,    \* of Coach
    CharsPerToken, MinTokens, TokenLimit, MaxGenerations

\* A form with one rubric field.
OneForm == {[f \in Field |-> 2]}

\* A cycle whose budget ends before its slots, and one with a single slot.
OnePlan == {[budget |-> 3, slots |-> 2, award |-> 2]}
TwoPlans == OnePlan \cup {[budget |-> 9, slots |-> 1, award |-> 3]}

\* Fields of a form, some of which depend on others.
FormField(key, type, required, showIf) ==
    [key |-> key, labelled |-> TRUE, type |-> type, required |-> required,
     options |-> IF type = "SELECT" THEN {"yes", "no"} ELSE {}, weight |-> 0,
     showIf |-> showIf, showIfValue |-> "yes"]
FormFields ==
    {FormField("a", "SELECT", TRUE, "none"), FormField("b", "SELECT", FALSE, "a"),
     FormField("b", "NUMBER", FALSE, "none"), FormField("c", "NUMBER", TRUE, "b"),
     FormField("1st", "TEXT", FALSE, "none")}
FitsType(type) == IF type = "NUMBER" THEN {"12"} ELSE {}

\* Texts of the mock provider and of Claude, and one length that is wanted.
Templates ==
    [TITLE |-> <<<<"a", "dash", "b">>, <<"a", "hyphen", "b">>, <<"fuer">>>>,
     STORY |-> <<<<"a", "break", "slop", "phrase", "b", "break", "hype", "c">>>>,
     SHARE |-> <<<<"a">>, <<"a", "b">>>>]
Replies ==
    {<<"a", "slop", "hype", "phrase">>, <<"a", "break", "hype", "break", "a", "b">>}
SomeWindow == [kind \in {"TITLE", "STORY"} |-> [min |-> 2, max |-> 4]]

Symmetry == Permutations(Reviewer) \cup Permutations(Handler)

-----------------------------------------------------------------------------
\* A form, some of whose fields depend on others, and submissions.
VARIABLES applyForm, applyFormsSet, applySlots, applyPage, applySent,
    applySubmits
apply == <<applyForm, applyFormsSet, applySlots, applyPage, applySent, applySubmits>>
Form == INSTANCE ApplicationForm WITH
    Slot <- Slot, Key <- Key, Fields <- Fields, MaxFields <- MaxFields,
    Value <- Value, Blank <- Blank, Fits <- Fits,
    MaxForms <- MaxForms, MaxSubmits <- MaxSubmits,
    form <- applyForm, formsSet <- applyFormsSet, slots <- applySlots,
    page <- applyPage, sent <- applySent, submits <- applySubmits

\* Requests of students, and what was generated for them.
VARIABLES coachProvider, coachBudget, coachLog, coachRequest
coach == <<coachProvider, coachBudget, coachLog, coachRequest>>
Coach == INSTANCE Coach WITH
    Request <- Hand, User <- User, Kind <- Kind, Locale <- Locale, Hints <- Hints,
    Template <- Template, Reply <- Reply, Window <- Window,
    InputLength <- InputLength, CharsPerToken <- CharsPerToken,
    MinTokens <- MinTokens, TokenLimit <- TokenLimit, MaxGenerations <- MaxGenerations,
    provider <- coachProvider, budget <- coachBudget, log <- coachLog,
    request <- coachRequest

\* The instances are of the kind that the modules are made for.
ASSUME ApplicationsAssumption ==
    /\ Form!FormAssumption
    /\ Coach!CoachAssumption

-----------------------------------------------------------------------------
VARIABLE coachAlone   \* history: no two requests of a student have run at the same time

VARIABLE focus   \* the part that a behaviour is about

Part == {"review", "awards", "apply", "coach"}
allVars == <<focus, coachAlone, vars, apply, coach>>

AllInit ==
    /\ focus \in Part /\ coachAlone = TRUE
    \* Of a part that waits, one initial state will do.
    /\ Init /\ (focus # "awards" => cycles[1] \in OnePlan)
    /\ Form!Init
    /\ Coach!Init /\ (focus # "coach" => coachProvider = "mock")

\* ScholarshipReview twice: the reviews of one year, one request at a time ...
ReviewNext ==
    \E h \in Handler :
        /\ Serve(h) /\ task'[h].step # "createCycle"
        /\ \A g \in Handler \ {h} : task[g] = Idle

\* ... and decisions, scholars and renewals of a program without reviewers, with
\* requests at the same time.
AwardsNext == \E h \in Handler : Serve(h) /\ task'[h].step # "addReviewer"

\* The other parts wait.
OtherParts(part) ==
    /\ UNCHANGED focus
    /\ IF part \in {"review", "awards"} THEN TRUE ELSE UNCHANGED vars
    /\ IF part = "apply" THEN TRUE ELSE UNCHANGED apply
    /\ IF part = "coach" THEN TRUE ELSE UNCHANGED coach

PartNext ==
    \/ focus = "review" /\ ReviewNext /\ OtherParts("review")
    \/ focus = "awards" /\ AwardsNext /\ OtherParts("awards")
    \/ focus = "apply" /\ Form!Next /\ OtherParts("apply")
    \/ focus = "coach" /\ Coach!Next /\ OtherParts("coach")

AllNext ==
    /\ PartNext
    /\ coachAlone' = (coachAlone /\ Cardinality({h \in Hand : coachRequest'[h] # Coach!Idle}) <= 1)

AllSpec == AllInit /\ [][AllNext]_allVars
-----------------------------------------------------------------------------
(* What the checks are for.  Each property includes the types of its part. *)

\* Once nobody is scoring an application, the consensus stored with it is the one
\* its scores and the form give, and reviewers who agree are the consensus
\* (recomputeConsensus, aggregateRubric).
ConsensusIsRight == focus = "review" => TypeOK /\ ConsensusIsCurrent /\ UnanimityIsConsensus

\* Decisions go by rank, one request at a time; and, with requests at the same
\* time, one decision stays within one cycle, renewals keep the years that were
\* planned, and graduates are alumni (decide, renew, setScholarStatus).
AwardsAreFair ==
    /\ [][focus = "review" => BestAreAwarded]_vars
    /\ DecisionFits
    /\ CyclesAreKept
    /\ [](focus = "awards" => TypeOK /\ GraduatesAreAlumni)

\* What a candidate was shown and filled in is stored, and what is stored is
\* complete by the form it was judged by (submitApplication, visibleFields).
FormsAreComplete == focus = "apply" =>
    Form!TypeOK /\ Form!NothingShownIsDropped /\ Form!StoredAnswersAreComplete

\* As long as a student waits for one answer before asking again, the budget is
\* what the generations cost, and the variant that is recommended is the best
\* (guardBudget, charge, rankVariants).
CoachIsFair == focus = "coach" =>
    /\ Coach!TypeOK
    /\ Coach!TheBestIsRecommended
    /\ coachAlone => Coach!UsedIsWhatWasGenerated
===============================================================================
