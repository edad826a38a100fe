-------------------------- MODULE MCRecurringWizard ---------------------------
(*****************************************************************************)
(* Instances of Recurring and of the campaign wizard, the parts whose        *)
(* promises include that something happens, for TLC.                         *)
(*                                                                           *)
(* The parts share no state, and each is explored on its own: focus is the   *)
(* part whose steps a behaviour consists of; the part that waits stays in an *)
(* initial state.                                                            *)
(*****************************************************************************)
EXTENDS Recurring, TLC

CONSTANTS   \* of the campaign wizard
    Tab,                   \* tabs in which the student has the dashboard open
    Text, Offer, Empty,    \* what is typed, the text of the coach, nothing
    NoDraft,               \* nothing stored in the browser
    MaxBudget,             \* generations the budget of the coach allows
    MaxReloads             \* bound on the times a tab is loaded anew

-----------------------------------------------------------------------------
(* History: did every run so far start after the end of the one before?    *)

VARIABLE alone

MCInit == Init /\ alone = TRUE

MCNext ==
    /\ Next
    /\ alone' = (alone /\ stops' = 0 /\ Cardinality({r \in Run : run'[r] # Idle}) <= 1)

MCSpec == MCInit /\ [][MCNext]_<<vars, alone>> /\ Fairness

\* As long as runs do not overlap or die, a pledge is charged at most once a
\* month (runDue, nextRunAt).
MonthlyAtMostOnceAlone == alone => MonthlyAtMostOnce

\* As long as runs do not overlap or die, the chargesCount of a pledge is the
\* number of its charges and of its donations (applyCharge).
CountIsChargesAlone == alone => CountIsCharges

-----------------------------------------------------------------------------
VARIABLES wizardProfile, wizardCampaign, wizardBudget, wizardStored,
    wizardScreen, wizardDraft, wizardCommitted, wizardCall, wizardCoach,
    wizardRemaining, wizardTyped, wizardReloads
wizard == <<wizardProfile, wizardCampaign, wizardBudget, wizardStored, wizardScreen,
    wizardDraft, wizardCommitted, wizardCall, wizardCoach, wizardRemaining,
    wizardTyped, wizardReloads>>
Wizard == INSTANCE WebWizard WITH
    profile <- wizardProfile, campaign <- wizardCampaign,
    budget <- wizardBudget, stored <- wizardStored, screen <- wizardScreen,
    draft <- wizardDraft, committed <- wizardCommitted, call <- wizardCall,
    coach <- wizardCoach, remaining <- wizardRemaining, typed <- wizardTyped,
    reloads <- wizardReloads

\* The instances are of the kind that the modules are made for.
ASSUME RecurringWizardAssumption ==
    /\ Wizard!WizardAssumption

-----------------------------------------------------------------------------
VARIABLE focus   \* the part that a behaviour is about

Part == {"recurring", "wizard"}
allVars == <<focus, <<vars, alone>>, wizard>>

AllInit ==
    /\ focus \in Part
    /\ MCInit /\ Wizard!Init

\* The other parts wait.
OtherParts(part) ==
    /\ UNCHANGED focus
    /\ IF part = "recurring" THEN TRUE ELSE UNCHANGED <<vars, alone>>
    /\ IF part = "wizard" THEN TRUE ELSE UNCHANGED wizard

AllNext ==
    \/ focus = "recurring" /\ MCNext /\ OtherParts("recurring")
    \/ focus = "wizard" /\ Wizard!Next /\ OtherParts("wizard")

\* Runs go on unless they die; the browser answers the page that is open.
AllFairness ==
    /\ Fairness
    /\ \A t \in Tab : WF_allVars(focus = "wizard" /\ Wizard!Answer(t) /\ OtherParts("wizard"))

AllSpec == AllInit /\ [][AllNext]_allVars /\ AllFairness
-----------------------------------------------------------------------------
(* What the checks are for.                                                *)

\* A pledge is charged at most once a month, and counted as often as it was
\* charged, as long as runs do not overlap or die; and whatever they do, its count
\* never overstates and a charge that nothing accounts for is due again (runDue,
\* applyCharge).
ChargesAreRight == focus = "recurring" =>
    /\ TypeOK
    /\ CountNeverOverstates
    /\ ChargesAreAccounted
    /\ MonthlyAtMostOnceAlone
    /\ CountIsChargesAlone

\* What the student types survives reloads, failed calls and answers of the
\* coach (saveWizardState, loadWizardState, create).
DraftsSurvive == focus = "wizard" => Wizard!TypeOK /\ Wizard!ProgressSurvives

\* A run of due pledges ends with all of its list unless it dies (runDue), and
\* every form that waits for the server can be used again or has given way to
\* what comes after it (create, save, submit).
RunsAndCallsEnd ==
    /\ RunsEnd
    /\ focus = "wizard" => Wizard!FormsComeBack
===============================================================================
