----------------------------- MODULE WebWizard ------------------------------
(***************************************************************************)
(* The dashboard of a student in the web client: the profile form, the     *)
(* campaign wizard with its autosave in localStorage and its AI coach, and *)
(* the status page that submits the campaign.                              *)
(*                                                                         *)
(* What is on the screen follows from the last answer about "me".  A call  *)
(* that changes something is in flight until its answer comes: the server  *)
(* may have acted although the answer is a failure, and a tab that is      *)
(* reloaded meanwhile never hears of it.                                   *)
(***************************************************************************)
EXTENDS Naturals

CONSTANTS
  Tab,         \* tabs in which the student has the dashboard open
  Text,        \* titles and stories a student may type
  Offer,       \* the text the coach comes up with
  Empty,       \* nothing typed
  NoDraft,     \* no draft in localStorage
  MaxBudget,   \* generations the budget of the coach allows
  MaxReloads   \* bound on the times a tab is loaded anew

VARIABLES
  profile,     \* the server has the profile
  campaign,    \* the status of the campaign on the server, or NONE
  budget,      \* generations left on the server
  stored,      \* the draft in localStorage, shared by the tabs
  screen,      \* what each tab shows
  draft,       \* the fields of the wizard of each tab
  committed,   \* the wizard has created its campaign and saves no more
  call,        \* the call a tab waits for: [what, at], what = NONE for no call
  coach,       \* the panel of the coach: idle, asking or offered
  remaining,   \* the generations the panel believes are left
  typed,       \* what the student last saw in a wizard that was not finished
  reloads

vars == <<profile, campaign, budget, stored, screen, draft, committed, call,
          coach, remaining, typed, reloads>>

Draft == [step : 1..3, title : Text \union {Empty, Offer},
          story : Text \union {Empty, Offer}, videoInvalid : BOOLEAN]

WizardAssumption ==
  /\ Empty \notin Text /\ Offer \notin Text \union {Empty}
  /\ NoDraft \notin Draft
  /\ MaxBudget \in Nat /\ MaxReloads \in Nat

EmptyWizardState == [step |-> 1, title |-> Empty, story |-> Empty, videoInvalid |-> FALSE]

\* A draft is kept until the campaign is created; localStorage holds the last save.
LoadWizardState == IF stored = NoDraft THEN EmptyWizardState ELSE stored

Step1Valid(d) == d.title # Empty
StoryReady(d) == d.story # Empty

CurrentStepValid(d) ==
  CASE d.step = 1 -> Step1Valid(d)
    [] d.step = 2 -> StoryReady(d)
    [] OTHER -> ~d.videoInvalid

CanCreate(d) == Step1Valid(d) /\ StoryReady(d) /\ ~d.videoInvalid

NoCall == [what |-> "NONE", at |-> "NONE"]
Sent(what) == [what |-> what, at |-> "sent"]

Init ==
  /\ profile = FALSE
  /\ campaign = "NONE"
  /\ budget = MaxBudget
  /\ stored = NoDraft
  /\ screen = [t \in Tab |-> "loading"]
  /\ draft = [t \in Tab |-> EmptyWizardState]
  /\ committed = [t \in Tab |-> FALSE]
  /\ call = [t \in Tab |-> Sent("me")]
  /\ coach = [t \in Tab |-> "idle"]
  /\ remaining = [t \in Tab |-> 0]
  /\ typed = EmptyWizardState
  /\ reloads = 0

Load(t) == /\ screen' = [screen EXCEPT ![t] = "loading"]
           /\ call' = [call EXCEPT ![t] = Sent("me")]

\* The server acts on a call.
Upsert(t) == /\ call[t].what = "profile" /\ profile' = TRUE
             /\ UNCHANGED campaign

CreateForUser(t) == /\ call[t].what = "create" /\ profile /\ campaign = "NONE"
                    /\ campaign' = "DRAFT"
                    /\ UNCHANGED profile

SubmitForUser(t) == /\ call[t].what = "submit" /\ campaign = "DRAFT"
                    /\ campaign' = "PENDING_VERIFICATION"
                    /\ UNCHANGED profile

Served(t) ==
  /\ call[t].at = "sent"
  /\ Upsert(t) \/ CreateForUser(t) \/ SubmitForUser(t)
  /\ call' = [call EXCEPT ![t].at = "done"]
  /\ UNCHANGED <<budget, stored, screen, draft, committed, coach, remaining, typed, reloads>>

\* The wizard starts from localStorage and saves what it starts with; the panel
\* of the coach asks for its budget when it comes up.
Mount(t) ==
  /\ draft' = [draft EXCEPT ![t] = LoadWizardState]
  /\ committed' = [committed EXCEPT ![t] = FALSE]
  /\ stored' = LoadWizardState
  /\ coach' = [coach EXCEPT ![t] = "idle"]
  /\ remaining' = [remaining EXCEPT ![t] = 0]

\* The answer about "me" decides which part comes up.
MeAnswered(t) ==
  /\ call[t].what = "me"
  /\ call' = [call EXCEPT ![t] = NoCall]
  /\ screen' = [screen EXCEPT ![t] = IF ~profile THEN "profile"
                                     ELSE IF campaign = "NONE" THEN "wizard"
                                     ELSE IF campaign = "DRAFT" THEN "status" ELSE "submitted"]
  /\ IF profile /\ campaign = "NONE" THEN Mount(t)
     ELSE UNCHANGED <<stored, draft, committed, coach, remaining>>
  /\ UNCHANGED <<profile, campaign, budget, typed, reloads>>

Saved(t) ==
  /\ call[t].what \in {"profile", "create", "submit"} /\ call[t].at = "done"
  /\ IF call[t].what = "create"
     THEN /\ committed' = [committed EXCEPT ![t] = TRUE]
          /\ stored' = NoDraft
          /\ typed' = EmptyWizardState
     ELSE UNCHANGED <<committed, stored, typed>>
  /\ Load(t)
  /\ UNCHANGED <<profile, campaign, budget, draft, coach, remaining, reloads>>

\* A refusal, or a failure on the way there or back: the form is usable again.
CallFailed(t) ==
  /\ call[t] # NoCall
  /\ call' = [call EXCEPT ![t] = NoCall]
  /\ screen' = [screen EXCEPT ![t] = IF call[t].what = "me" THEN "error" ELSE @]
  /\ UNCHANGED <<profile, campaign, budget, stored, draft, committed, coach, remaining,
                 typed, reloads>>

TryAgain(t) ==
  /\ screen[t] = "error"
  /\ Load(t)
  /\ UNCHANGED <<profile, campaign, budget, stored, draft, committed, coach, remaining,
                 typed, reloads>>

\* The page is loaded anew: the call is on its own and the fields are gone.
Reload(t) ==
  /\ reloads < MaxReloads
  /\ reloads' = reloads + 1
  /\ Load(t)
  /\ draft' = [draft EXCEPT ![t] = EmptyWizardState]
  /\ committed' = [committed EXCEPT ![t] = FALSE]
  /\ \/ UNCHANGED <<profile, campaign>>
     \/ call[t].at = "sent" /\ (Upsert(t) \/ CreateForUser(t) \/ SubmitForUser(t))
  /\ UNCHANGED <<budget, stored, coach, remaining, typed>>

SaveProfile(t) ==
  /\ screen[t] = "profile" /\ call[t] = NoCall
  /\ call' = [call EXCEPT ![t] = Sent("profile")]
  /\ UNCHANGED <<profile, campaign, budget, stored, screen, draft, committed, coach,
                 remaining, typed, reloads>>

\* Mutant: only another step is saved, not what is typed in between.
EditUnsaved(t, d) ==
  /\ screen[t] = "wizard"
  /\ draft' = [draft EXCEPT ![t] = d]
  /\ stored' = IF committed[t] \/ d.step = draft[t].step THEN stored ELSE d
  /\ typed' = IF committed[t] THEN typed ELSE d

\* The student changes the wizard; the effect saves the change.
Edit(t, d) ==
  /\ screen[t] = "wizard"
  /\ draft' = [draft EXCEPT ![t] = d]
  /\ stored' = IF committed[t] THEN stored ELSE d
  /\ typed' = IF committed[t] THEN typed ELSE d

Type(t) ==
  /\ \/ \E x \in Text \union {Empty} :
          \/ draft[t].step = 1 /\ Edit(t, [draft[t] EXCEPT !.title = x])
          \/ draft[t].step = 2 /\ Edit(t, [draft[t] EXCEPT !.story = x])
     \/ draft[t].step = 3 /\ Edit(t, [draft[t] EXCEPT !.videoInvalid = ~@])
  /\ UNCHANGED <<profile, campaign, budget, screen, committed, call, coach, remaining, reloads>>

\* The panel of the coach belongs to the second step and goes with it.
Turn(t) ==
  /\ \/ CurrentStepValid(draft[t]) /\ draft[t].step < 3
        /\ Edit(t, [draft[t] EXCEPT !.step = @ + 1])
     \/ draft[t].step > 1 /\ Edit(t, [draft[t] EXCEPT !.step = @ - 1])
  /\ coach' = [coach EXCEPT ![t] = "idle"]
  /\ remaining' = [remaining EXCEPT ![t] = 0]
  /\ UNCHANGED <<profile, campaign, budget, screen, committed, call, reloads>>

Create(t) ==
  /\ screen[t] = "wizard" /\ draft[t].step = 3
  /\ CanCreate(draft[t]) /\ call[t] = NoCall
  /\ call' = [call EXCEPT ![t] = Sent("create")]
  /\ UNCHANGED <<profile, campaign, budget, stored, screen, draft, committed, coach,
                 remaining, typed, reloads>>

Submit(t) ==
  /\ screen[t] = "status" /\ call[t] = NoCall
  /\ call' = [call EXCEPT ![t] = Sent("submit")]
  /\ UNCHANGED <<profile, campaign, budget, stored, screen, draft, committed, coach,
                 remaining, typed, reloads>>

PanelShown(t) == screen[t] = "wizard" /\ draft[t].step = 2

BudgetKnown(t) ==
  /\ PanelShown(t) /\ coach[t] = "idle" /\ remaining[t] = 0 /\ budget > 0
  /\ remaining' = [remaining EXCEPT ![t] = budget]
  /\ UNCHANGED <<profile, campaign, budget, stored, screen, draft, committed, call, coach,
                 typed, reloads>>

Generate(t) ==
  /\ PanelShown(t) /\ coach[t] # "asking" /\ remaining[t] > 0
  /\ coach' = [coach EXCEPT ![t] = "asking"]
  /\ UNCHANGED <<profile, campaign, budget, stored, screen, draft, committed, call,
                 remaining, typed, reloads>>

\* The variants are shown; the text of the student is left alone.
CoachAnswered(t) ==
  /\ coach[t] = "asking" /\ PanelShown(t)
  /\ \/ /\ budget > 0 /\ budget' = budget - 1
        /\ remaining' = [remaining EXCEPT ![t] = budget - 1]
        /\ coach' = [coach EXCEPT ![t] = "offered"]
     \/ /\ coach' = [coach EXCEPT ![t] = "idle"]
        /\ remaining' = [remaining EXCEPT ![t] = IF budget = 0 THEN 0 ELSE @]
        /\ UNCHANGED budget
  /\ UNCHANGED <<profile, campaign, stored, screen, draft, committed, call, typed, reloads>>

ApplyStory(t) ==
  /\ PanelShown(t) /\ coach[t] = "offered"
  /\ Edit(t, [draft[t] EXCEPT !.story = Offer]) \/ Edit(t, [draft[t] EXCEPT !.title = Offer])
  /\ UNCHANGED <<profile, campaign, budget, screen, committed, call, coach, remaining, reloads>>

Answer(t) == Served(t) \/ MeAnswered(t) \/ Saved(t) \/ CallFailed(t)

Next ==
  \E t \in Tab :
    \/ Answer(t) \/ TryAgain(t) \/ Reload(t)
    \/ SaveProfile(t) \/ Type(t) \/ Turn(t) \/ Create(t) \/ Submit(t)
    \/ BudgetKnown(t) \/ Generate(t) \/ CoachAnswered(t) \/ ApplyStory(t)

\* Every call is answered, or fails when the browser gives up on it.  The
\* student owes the page nothing.
Fairness == \A t \in Tab : WF_vars(Answer(t))

Spec == Init /\ [][Next]_vars /\ Fairness

TypeOK ==
  /\ profile \in BOOLEAN
  /\ campaign \in {"NONE", "DRAFT", "PENDING_VERIFICATION"}
  /\ budget \in 0..MaxBudget
  /\ stored \in Draft \union {NoDraft}
  /\ screen \in [Tab -> {"loading", "error", "profile", "wizard", "status", "submitted"}]
  /\ draft \in [Tab -> Draft]
  /\ committed \in [Tab -> BOOLEAN]
  /\ call \in [Tab -> [what : {"NONE", "me", "profile", "create", "submit"},
                       at : {"NONE", "sent", "done"}]]
  /\ coach \in [Tab -> {"idle", "asking", "offered"}]
  /\ remaining \in [Tab -> 0..MaxBudget]
  /\ typed \in Draft
  /\ reloads \in 0..MaxReloads

\* Only with one tab: whenever the wizard is on the screen with its campaign
\* still to be created, it shows what the student last made of it, through
\* reloads, failed calls and answers of the coach.  Two tabs save over each
\* other's draft.
ProgressSurvives ==
  (\A s, t \in Tab : s = t) =>
    \A t \in Tab : screen[t] = "wizard" /\ ~committed[t] => draft[t] = typed

\* A page that waits for the server does not wait forever: every form can be
\* used again or has given way to what comes after it.
FormsComeBack == \A t \in Tab : call[t] # NoCall ~> call[t] = NoCall
=============================================================================
