--------------------------------- MODULE Schools ---------------------------------
(***************************************************************************)
(* Schools and the campaigns of their students: a school enters its        *)
(* payout data and signs (school-onboarding.service.ts), imports           *)
(* admissions and decides on them (school-admissions.service.ts), and      *)
(* approves campaigns (school-campaigns.service.ts) that students draft    *)
(* and submit (campaigns.service.ts).  Handlers read, wait and write.      *)
(***************************************************************************)
EXTENDS Integers, FiniteSets, Sequences

CONSTANTS
    Handler,        \* the requests that run at the same time
    School,
    Token,          \* onboarding links
    Student,        \* a student has one campaign at most
    Goals,          \* what a campaign may ask for
    Ref,            \* admission references
    Fold,           \* Fold[f]: f in lower case
    File            \* the files to import: sequences of rows

SchoolsAssumption ==
    /\ Goals \subseteq Nat
    /\ \A file \in File : \A i \in DOMAIN file : file[i].ref \in Ref

VARIABLES
    school,         \* the rows of the schools
    tokens,         \* the links that were made
    admissions,     \* admissions[s]: the imported references and their status
    campaigns,      \* the campaigns, by student
    events,         \* the webhook events that are logged
    task,           \* what each handler has read and not yet written
    approved        \* history: the terms of each campaign when it was approved

vars == <<school, tokens, admissions, campaigns, events, task, approved>>

Statuses == {"NOT_STARTED", "IN_PROGRESS", "SUBMITTED", "ACTIVE"}
Verdicts == {"PENDING", "VERIFIED", "REJECTED"}
CampaignStatuses == {"DRAFT", "PENDING_VERIFICATION", "LIVE", "FUNDED", "DISBURSED", "REJECTED"}
Idle == [step |-> "idle"]

TypeOK ==
    /\ school \in [School -> [status : Statuses, payout : BOOLEAN, data : BOOLEAN, signed : BOOLEAN]]
    /\ DOMAIN tokens \subseteq Token
    /\ \A t \in DOMAIN tokens : tokens[t] \in [school : School, used : BOOLEAN, old : BOOLEAN]
    /\ \A s \in School : admissions[s] \in [DOMAIN admissions[s] -> Verdicts]
    /\ \A c \in DOMAIN campaigns :
          campaigns[c] \in [school : School, goal : Goals, status : CampaignStatuses,
                            verified : Verdicts \cup {"NONE"}]
    /\ \A h \in Handler :
          task[h].step \in {"idle", "payout", "sign", "complete", "update", "submit", "approve", "lookup"}

NewSchool == [status |-> "NOT_STARTED", payout |-> FALSE, data |-> FALSE, signed |-> FALSE]

Init ==
    /\ school = [s \in School |-> NewSchool]
    /\ tokens = <<>>
    /\ admissions = [s \in School |-> <<>>]
    /\ campaigns = <<>>
    /\ events = {}
    /\ task = [h \in Handler |-> Idle]
    /\ approved = <<>>

Continue(h, next) == task' = [task EXCEPT ![h] = next]
With(table, key, row) ==
    [k \in DOMAIN table \cup {key} |-> IF k = key THEN row ELSE table[k]]

\* emit: a webhook that cannot be logged is lost, and the request goes on.
Emit(event) == events' \in {events, events \cup {event}}

Terms(c) == [goal |-> campaigns[c].goal, school |-> campaigns[c].school]
-----------------------------------------------------------------------------
(* Onboarding.                                                             *)

\* TRANSITIONS: no event leaves ACTIVE.
Transition(status, event) ==
    CASE event = "start" /\ status \in {"NOT_STARTED", "IN_PROGRESS"} -> {"IN_PROGRESS"}
      [] event = "submit" /\ status # "ACTIVE" -> {"SUBMITTED"}
      [] event = "activate" /\ status = "SUBMITTED" -> {"ACTIVE"}
      [] OTHER -> {}

\* savePayout reads the school ...
SavePayout(h, s) ==
    /\ task[h] = Idle
    /\ \E to \in IF Transition(school[s].status, "start") = {} THEN {school[s].status}
                 ELSE Transition(school[s].status, "start") :
          Continue(h, [step |-> "payout", school |-> s, to |-> to])
    /\ UNCHANGED <<school, tokens, admissions, campaigns, events, approved>>

\* ... and writes the data and the status that follows from what it read.
StorePayout(h) ==
    /\ task[h].step = "payout"
    /\ school' = [school EXCEPT ![task[h].school].data = TRUE,
                                ![task[h].school].status = task[h].to]
    /\ Continue(h, Idle)
    /\ UNCHANGED <<tokens, admissions, campaigns, events, approved>>

\* isPayoutDataComplete
IsPayoutDataComplete(s) == school[s].data

\* signAgreement waits for the provider of signatures ...
SignAgreement(h, s) ==
    /\ task[h] = Idle
    /\ IsPayoutDataComplete(s)
    /\ Continue(h, [step |-> "sign", school |-> s])
    /\ UNCHANGED <<school, tokens, admissions, campaigns, events, approved>>

\* ... which answers, or fails.
StoreAgreement(h) ==
    /\ task[h].step = "sign"
    /\ school' \in {school, [school EXCEPT ![task[h].school].signed = TRUE,
                                           ![task[h].school].payout = TRUE,
                                           ![task[h].school].status = "ACTIVE"]}
    /\ Continue(h, Idle)
    /\ UNCHANGED <<tokens, admissions, campaigns, events, approved>>

\* generateLink, createOnboardingToken
GenerateLink(s, t) ==
    /\ t \notin DOMAIN tokens
    /\ tokens' = With(tokens, t, [school |-> s, used |-> FALSE, old |-> FALSE])
    /\ UNCHANGED <<school, admissions, campaigns, events, task, approved>>

LinkExpires(t) ==
    /\ tokens' = [tokens EXCEPT ![t].old = TRUE]
    /\ UNCHANGED <<school, admissions, campaigns, events, task, approved>>

\* validateOnboardingToken
ValidToken(t) == ~tokens[t].used /\ ~tokens[t].old

\* completeViaToken checks the link and waits for the signature ...
CompleteViaToken(h, t) ==
    /\ task[h] = Idle
    /\ ValidToken(t)
    /\ Continue(h, [step |-> "complete", token |-> t])
    /\ UNCHANGED <<school, tokens, admissions, campaigns, events, approved>>

\* ... and stores everything in one transaction, or nothing if that failed.
StoreCompletion(h) ==
    /\ task[h].step = "complete"
    /\ LET t == task[h].token
       IN  \/ /\ tokens' = [tokens EXCEPT ![t].used = TRUE]
              /\ school' = [school EXCEPT ![tokens[t].school] =
                    [status |-> "ACTIVE", payout |-> TRUE, data |-> TRUE, signed |-> TRUE]]
           \/ UNCHANGED <<tokens, school>>
    /\ Continue(h, Idle)
    /\ UNCHANGED <<admissions, campaigns, events, approved>>

\* verifyPayout: an administrator sets the flag either way.
VerifyPayout(s, verified) ==
    /\ school' = [school EXCEPT ![s].payout = verified]
    /\ UNCHANGED <<tokens, admissions, campaigns, events, task, approved>>

\* onboardingChecklist, onboardingProgressPct
Checklist(s) == {step \in {"payout", "agreement", "activation"} :
                    CASE step = "payout" -> IsPayoutDataComplete(s)
                      [] step = "agreement" -> school[s].signed
                      [] OTHER -> school[s].status = "ACTIVE"}
ProgressPct(s) == (200 * Cardinality(Checklist(s)) + 3) \div 6
-----------------------------------------------------------------------------
(* Admissions.                                                             *)

\* parseAdmissionCsv: rows with errors are left out, and so are references that
\* came before, in whatever case.
Parse(file) ==
    LET good == {i \in DOMAIN file : file[i].ok}
        again == {i \in good : \E j \in good : j < i /\ Fold[file[j].ref] = Fold[file[i].ref]}
    IN  [records |-> {file[i].ref : i \in good \ again},
         duplicates |-> Cardinality(again),
         errors |-> Cardinality(DOMAIN file \ good)]

\* Mutant: an import starts the review again.
StartAgain(old, refs) == [f \in DOMAIN old \cup refs |-> IF f \in refs THEN "PENDING" ELSE old[f]]

\* upsert: a reference that is known keeps its status.
Upsert(old, refs) == [f \in DOMAIN old \cup refs |-> IF f \in DOMAIN old THEN old[f] ELSE "PENDING"]

\* import: one transaction.
Import(s, file) ==
    /\ admissions' = [admissions EXCEPT ![s] = Upsert(@, Parse(file).records)]
    /\ UNCHANGED <<school, tokens, campaigns, events, task, approved>>

\* verify finds the record and asks the registrar ...
VerifyAdmission(h, s, f) ==
    /\ task[h] = Idle
    /\ f \in DOMAIN admissions[s]
    /\ Continue(h, [step |-> "lookup", school |-> s, ref |-> f])
    /\ UNCHANGED <<school, tokens, admissions, campaigns, events, approved>>

Report(s, f) == [type |-> "student.reported", school |-> s, about |-> f]

\* ... who knows the reference or not.
StoreVerified(h) ==
    /\ task[h].step = "lookup"
    /\ LET s == task[h].school  f == task[h].ref
       IN  \/ /\ admissions' = [admissions EXCEPT ![s][f] = "VERIFIED"]
              /\ Emit(Report(s, f))
           \/ UNCHANGED <<admissions, events>>
    /\ Continue(h, Idle)
    /\ UNCHANGED <<school, tokens, campaigns, approved>>

RejectAdmission(s, f) ==
    /\ f \in DOMAIN admissions[s]
    /\ admissions' = [admissions EXCEPT ![s][f] = "REJECTED"]
    /\ Emit(Report(s, f))
    /\ UNCHANGED <<school, tokens, campaigns, task, approved>>
-----------------------------------------------------------------------------
(* Campaigns.                                                              *)

\* createForUser; studentProfileId is unique.
CreateCampaign(c, s, goal) ==
    /\ c \notin DOMAIN campaigns
    /\ campaigns' = With(campaigns, c, [school |-> s, goal |-> goal, status |-> "DRAFT",
                                        verified |-> "NONE"])
    /\ UNCHANGED <<school, tokens, admissions, events, task, approved>>

\* ownedDraft
IsDraft(c) == campaigns[c].status = "DRAFT"

\* updateForUser reads the status ...
UpdateCampaign(h, c, s, goal) ==
    /\ task[h] = Idle
    /\ IsDraft(c)
    /\ Continue(h, [step |-> "update", campaign |-> c, school |-> s, goal |-> goal])
    /\ UNCHANGED <<school, tokens, admissions, campaigns, events, approved>>

\* ... and writes the terms.
StoreUpdate(h) ==
    /\ task[h].step = "update"
    /\ campaigns' = [campaigns EXCEPT ![task[h].campaign].school = task[h].school,
                                      ![task[h].campaign].goal = task[h].goal]
    /\ Continue(h, Idle)
    /\ UNCHANGED <<school, tokens, admissions, events, approved>>

SubmitCampaign(h, c) ==
    /\ task[h] = Idle
    /\ IsDraft(c)
    /\ Continue(h, [step |-> "submit", campaign |-> c])
    /\ UNCHANGED <<school, tokens, admissions, campaigns, events, approved>>

StoreSubmitted(h) ==
    /\ task[h].step = "submit"
    /\ campaigns' = [campaigns EXCEPT ![task[h].campaign].status = "PENDING_VERIFICATION",
                                      ![task[h].campaign].verified = "PENDING"]
    /\ Continue(h, Idle)
    /\ UNCHANGED <<school, tokens, admissions, events, approved>>

\* canApproveCampaigns
CanApproveCampaigns(s) == school[s].status = "ACTIVE" /\ school[s].payout

\* approve looks at the school and for the campaign, whatever its status ...
ApproveCampaign(h, c) ==
    /\ task[h] = Idle
    /\ CanApproveCampaigns(campaigns[c].school)
    /\ Continue(h, [step |-> "approve", campaign |-> c, school |-> campaigns[c].school])
    /\ UNCHANGED <<school, tokens, admissions, campaigns, events, approved>>

\* ... and puts it live.
StoreApproval(h) ==
    /\ task[h].step = "approve"
    /\ LET c == task[h].campaign
       IN  /\ campaigns' = [campaigns EXCEPT ![c].status = "LIVE", ![c].verified = "VERIFIED"]
           /\ Emit([type |-> "campaign.approved", school |-> task[h].school, about |-> c])
           /\ approved' = With(approved, c, Terms(c))
    /\ Continue(h, Idle)
    /\ UNCHANGED <<school, tokens, admissions>>

RejectCampaign(c) ==
    /\ campaigns' = [campaigns EXCEPT ![c].status = "REJECTED", ![c].verified = "REJECTED"]
    /\ UNCHANGED <<school, tokens, admissions, events, task, approved>>

\* Donors fund a campaign, and it is paid out.
MoneyMoves(c) ==
    /\ \/ campaigns[c].status = "LIVE" /\ campaigns' = [campaigns EXCEPT ![c].status = "FUNDED"]
       \/ campaigns[c].status = "FUNDED" /\ campaigns' = [campaigns EXCEPT ![c].status = "DISBURSED"]
    /\ UNCHANGED <<school, tokens, admissions, events, task, approved>>

\* VISIBLE_STATUSES, gallery, detail
Gallery == {c \in DOMAIN campaigns : /\ campaigns[c].status \in {"LIVE", "FUNDED", "DISBURSED"}
                                     /\ campaigns[c].verified = "VERIFIED"}

\* stats
Stats == [studentsFunded |-> Cardinality({c \in Gallery : campaigns[c].status \in {"FUNDED", "DISBURSED"}}),
          campaignsLive |-> Cardinality({c \in Gallery : campaigns[c].status = "LIVE"}),
          schools |-> Cardinality({campaigns[c].school : c \in Gallery})]

\* deriveStudentPayoutStatus, where no payout has a row of its own.
PayoutStatus(status) ==
    CASE status = "DISBURSED" -> "SENT"
      [] status = "FUNDED" -> "READY"
      [] status \in {"LIVE", "PENDING_VERIFICATION", "DRAFT"} -> "AWAITING_FUNDING"
      [] OTHER -> "NONE"

\* buildSchoolDashboard
Dashboard(s) ==
    LET own == {c \in DOMAIN campaigns : campaigns[c].school = s}
        In(status) == {c \in own : PayoutStatus(campaigns[c].status) = status}
    IN  [totalStudents |-> Cardinality(own),
         live |-> Cardinality(In("AWAITING_FUNDING")),
         funded |-> Cardinality(In("READY")),
         paid |-> Cardinality(In("SENT"))]
-----------------------------------------------------------------------------
\* The routes of a school, and of the link it is sent.
SchoolStep(h) ==
    \/ \E s \in School : SavePayout(h, s) \/ SignAgreement(h, s)
    \/ StorePayout(h) \/ StoreAgreement(h)
    \/ \E t \in DOMAIN tokens : CompleteViaToken(h, t)
    \/ StoreCompletion(h)
    \/ \E s \in School, f \in Ref : VerifyAdmission(h, s, f)
    \/ StoreVerified(h)
    \/ \E c \in DOMAIN campaigns : ApproveCampaign(h, c)
    \/ StoreApproval(h)
    \/ task[h] = Idle /\ \E s \in School, file \in File : Import(s, file)
    \/ task[h] = Idle /\ \E s \in School, f \in Ref : RejectAdmission(s, f)
    \/ task[h] = Idle /\ \E c \in DOMAIN campaigns : RejectCampaign(c)

\* The routes of administrators.
AdminStep ==
    \/ \E s \in School, t \in Token : GenerateLink(s, t)
    \/ \E s \in School, verified \in BOOLEAN : VerifyPayout(s, verified)

\* The routes of students.
StudentStep(h) ==
    \/ task[h] = Idle /\ \E c \in Student, s \in School, goal \in Goals : CreateCampaign(c, s, goal)
    \/ \E c \in DOMAIN campaigns, s \in School, goal \in Goals : UpdateCampaign(h, c, s, goal)
    \/ \E c \in DOMAIN campaigns : SubmitCampaign(h, c)
    \/ StoreUpdate(h) \/ StoreSubmitted(h)

Next ==
    \/ \E h \in Handler : SchoolStep(h) \/ StudentStep(h)
    \/ AdminStep
    \/ \E t \in DOMAIN tokens : LinkExpires(t)
    \/ \E c \in DOMAIN campaigns : MoneyMoves(c)

Spec == Init /\ [][Next]_vars
-----------------------------------------------------------------------------
(* What the checks are for.                                                *)

\* A school that is active has signed and has said where money goes, however
\* its requests overlap: a status that is written late never makes it active
\* (savePayout, signAgreement, completeViaToken).
ActiveIsSigned ==
    \A s \in School :
        school[s].status = "ACTIVE" =>
            Checklist(s) = {"payout", "agreement", "activation"} /\ ProgressPct(s) = 100

\* A school that has signed stays active (savePayout).
SignedIsActive == \A s \in School : school[s].signed => school[s].status = "ACTIVE"

\* What the public sees of a campaign, its goal and its school, is what the
\* school approved (updateForUser, approve).
ApprovedTermsStand ==
    \A c \in Gallery : c \in DOMAIN approved /\ approved[c] = Terms(c)

\* Only a review changes the status of an admission: importing the same list
\* again does not (import, verify, reject).
OnlyReviewsDecide ==
    [][\A s \in School : \A f \in DOMAIN admissions[s] :
          admissions[s][f] # "PENDING" => admissions'[s][f] # "PENDING"]_vars

\* Every campaign of a school is in one of the columns of its dashboard, and
\* nothing is shown to the public that the school has not let go live
\* (buildSchoolDashboard, stats, gallery).
ViewsAgree ==
    /\ \A s \in School :
          LET board == Dashboard(s)
          IN  board.live + board.funded + board.paid
                + Cardinality({c \in DOMAIN campaigns :
                                 campaigns[c].school = s /\ campaigns[c].status = "REJECTED"})
              = board.totalStudents
    /\ Stats.studentsFunded + Stats.campaignsLive = Cardinality(Gallery)

=============================================================================
