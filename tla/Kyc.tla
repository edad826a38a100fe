---------------------------------- MODULE Kyc ----------------------------------
(***************************************************************************)
(* Verification cases (kyc.service.ts, kyc-review.service.ts): a student   *)
(* passes a liveness check and a document check, a sponsor is screened,    *)
(* and what neither settles is put before a reviewer.  A handler reads the *)
(* case, waits for a provider, stores the result and then the status.      *)
(* Letters are numbers, names are sequences of them.                       *)
(***************************************************************************)
EXTENDS Integers, FiniteSets, FiniteSetsExt, SequencesExt

CONSTANTS
    Request,        \* the requests that run at the same time
    Case,
    Name,           \* what students claim, and documents and admissions say
    NoName,         \* a document without a name
    MaxStops        \* bound: ends of the process

KycAssumption ==
    /\ \A n \in Name : n \in Seq(Nat)
    /\ NoName \notin Name
    /\ MaxStops \in Nat

VARIABLES
    cases,          \* cases[c]: the row of a case and of its results
    request,        \* what each request is about to store
    stops           \* history: ends of the process

vars == <<cases, request, stops>>

Statuses == {"STARTED", "LIVENESS_PASSED", "DOCUMENT_VERIFIED", "AML_CLEARED",
             "MANUAL_REVIEW", "VERIFIED", "REJECTED"}
Queues == {"NOT_REQUIRED", "PENDING", "APPROVED", "REJECTED"}
Levels == {"LOW", "MEDIUM", "HIGH", "CRITICAL"}
Decisions == {"CLEAR", "HIT", "BLOCKED"}
Countries == {"CLEAR", "ELEVATED", "SANCTIONED"}
\* Around LIVENESS_MIN_CONFIDENCE.
Confidences == {69, 70}
Idle == [step |-> "idle"]
Steps == {"idle", "liveness", "document", "status", "review"}

Row == [subject : {"STUDENT", "SPONSOR"}, admission : Name \cup {NoName},
        status : Statuses, queue : Queues, risk : Levels,
        liveness : {"none", "passed", "failed"},
        document : {"none", "matched", "mismatch"},
        aml : {"none"} \cup Decisions]

TypeOK ==
    /\ DOMAIN cases \subseteq Case
    /\ \A c \in DOMAIN cases : cases[c] \in Row
    /\ \A r \in Request : request[r].step \in Steps
    /\ stops \in 0..MaxStops

NewCase == [subject |-> "STUDENT", admission |-> NoName, status |-> "STARTED",
            queue |-> "NOT_REQUIRED", risk |-> "LOW", liveness |-> "none",
            document |-> "none", aml |-> "none"]

Init ==
    /\ cases = <<>>
    /\ request = [r \in Request |-> Idle]
    /\ stops = 0

Continue(r, next) == request' = [request EXCEPT ![r] = next]
Insert(c, row) == cases' = [d \in DOMAIN cases \cup {c} |-> IF d = c THEN row ELSE cases[d]]
-----------------------------------------------------------------------------
(* Rules.                                                                  *)

\* evaluateLiveness
Passes(confidence) == confidence >= 70

\* levenshtein: the distances of a prefix of the one name to all prefixes of
\* the other, one letter further.
NextRow(row, letter, b) ==
    LET next[j \in 0..Len(b)] ==
            IF j = 0 THEN row[0] + 1
            ELSE Min({next[j - 1] + 1, row[j] + 1,
                      row[j - 1] + (IF b[j] = letter THEN 0 ELSE 1)})
    IN  next

Levenshtein(a, b) ==
    FoldLeft(LAMBDA row, letter : NextRow(row, letter, b),
             [j \in 0..Len(b) |-> j], a)[Len(b)]

\* matchName: the similarity in whole percent is NAME_MATCH_MIN_SCORE at least.
MatchName(a, b) ==
    /\ a # <<>> /\ b # <<>>
    /\ LET most == Max({Len(a), Len(b)})
       IN  (200 * (most - Levenshtein(a, b)) + most) \div (2 * most) >= 80

\* scoreStudentRisk, scoreToLevel: an unknown school is all that counts here.
RiskLevel(accredited) == IF accredited THEN "LOW" ELSE "MEDIUM"

\* decideAml, requiresAmlScreening: small amounts are not looked at.
DecideAml(large, country, hit) ==
    CASE ~large -> "CLEAR"
      [] large /\ country = "SANCTIONED" -> "BLOCKED"
      [] large /\ country # "SANCTIONED" /\ (country = "ELEVATED" \/ hit) -> "HIT"
      [] OTHER -> "CLEAR"

\* reviewQueueFor
QueueFor(status) == IF status = "MANUAL_REVIEW" THEN "PENDING" ELSE "NOT_REQUIRED"

NextAfterLiveness(passed) == IF passed THEN "LIVENESS_PASSED" ELSE "MANUAL_REVIEW"

\* Mutant: a mismatch is verified too.
VerifyAll(matched) == "VERIFIED"

NextAfterDocument(matched) == IF matched THEN "VERIFIED" ELSE "MANUAL_REVIEW"

NextAfterAml(decision) ==
    CASE decision = "CLEAR" -> "VERIFIED"
      [] decision = "HIT" -> "MANUAL_REVIEW"
      [] OTHER -> "REJECTED"
-----------------------------------------------------------------------------
(* The steps of a student, one after the other.                            *)

StartCase(r, c, admission) ==
    /\ request[r] = Idle
    /\ c \notin DOMAIN cases
    /\ Insert(c, [NewCase EXCEPT !.admission = admission])
    /\ UNCHANGED <<request, stops>>

\* runLiveness reads the case and asks the provider.
RunLiveness(r, c) ==
    /\ request[r] = Idle
    /\ cases[c].subject = "STUDENT"
    /\ cases[c].status = "STARTED"
    /\ Continue(r, [step |-> "liveness", case |-> c])
    /\ UNCHANGED <<cases, stops>>

\* The provider answers, and the result is stored: one per case.
StoreLiveness(r, confidence) ==
    /\ request[r].step = "liveness"
    /\ LET c == request[r].case
       IN  /\ cases[c].liveness = "none"
           /\ cases' = [cases EXCEPT ![c].liveness =
                            IF Passes(confidence) THEN "passed" ELSE "failed"]
           /\ Continue(r, [step |-> "status", case |-> c, risk |-> cases[c].risk,
                           to |-> NextAfterLiveness(Passes(confidence))])
    /\ UNCHANGED stops

\* runDocument needs the liveness check passed.
RunDocument(r, c, claimed) ==
    /\ request[r] = Idle
    /\ cases[c].subject = "STUDENT"
    /\ cases[c].status = "LIVENESS_PASSED"
    /\ Continue(r, [step |-> "document", case |-> c, claimed |-> claimed])
    /\ UNCHANGED <<cases, stops>>

\* One result per case: its caseId is unique.
OneDocument(c) == cases[c].document = "none"

\* The provider reads a name, or repeats the one claimed; it has to match the
\* admission if there is one.  The registrar knows an admission or not.
StoreDocument(r, read, found) ==
    /\ request[r].step = "document"
    /\ LET c == request[r].case
           admission == cases[c].admission
           extracted == IF read = NoName THEN request[r].claimed ELSE read
           matched == MatchName(extracted,
                          IF admission = NoName THEN request[r].claimed ELSE admission)
           confirmed == admission # NoName /\ found
       IN  /\ OneDocument(c)
           /\ cases' = [cases EXCEPT ![c].document = IF matched THEN "matched" ELSE "mismatch"]
           /\ Continue(r, [step |-> "status", case |-> c,
                           risk |-> RiskLevel(confirmed \/ matched),
                           to |-> NextAfterDocument(matched)])
    /\ UNCHANGED stops

\* The provider fails, or the result of the case is there already.
Fail(r) ==
    /\ request[r].step \in {"liveness", "document"}
    /\ Continue(r, Idle)
    /\ UNCHANGED <<cases, stops>>

\* screenSponsor: provider first; the case and its screening are one statement.
ScreenSponsor(r, c, large, country, hit) ==
    /\ request[r] = Idle
    /\ c \notin DOMAIN cases
    /\ LET decision == DecideAml(large, country, hit)
       IN  /\ Insert(c, [NewCase EXCEPT !.subject = "SPONSOR", !.aml = decision])
           /\ Continue(r, [step |-> "status", case |-> c, risk |-> "LOW",
                           to |-> NextAfterAml(decision)])
    /\ UNCHANGED stops

\* applyStatus: whatever the status is by now.
ApplyStatus(r) ==
    /\ request[r].step = "status"
    /\ LET c == request[r].case
       IN  cases' = [cases EXCEPT ![c].status = request[r].to,
                                  ![c].queue = QueueFor(request[r].to),
                                  ![c].risk = request[r].risk]
    /\ Continue(r, Idle)
    /\ UNCHANGED stops
-----------------------------------------------------------------------------
(* The reviewer.                                                           *)

\* decide reads the case ...
Decide(r, c, verdict) ==
    /\ request[r] = Idle
    /\ cases[c].queue = "PENDING"
    /\ Continue(r, [step |-> "review", case |-> c, verdict |-> verdict])
    /\ UNCHANGED <<cases, stops>>

\* ... and writes status and queue.
StoreDecision(r) ==
    /\ request[r].step = "review"
    /\ LET c == request[r].case
           approved == request[r].verdict = "APPROVE"
       IN  cases' = [cases EXCEPT
                        ![c].status = IF approved THEN "VERIFIED" ELSE "REJECTED",
                        ![c].queue = IF approved THEN "APPROVED" ELSE "REJECTED"]
    /\ Continue(r, Idle)
    /\ UNCHANGED stops

\* dashboard
Dashboard ==
    [total |-> Cardinality(DOMAIN cases),
     byStatus |-> [s \in Statuses |-> Cardinality({c \in DOMAIN cases : cases[c].status = s})],
     pendingReview |-> Cardinality({c \in DOMAIN cases : cases[c].queue = "PENDING"}),
     risk |-> [l \in Levels |-> Cardinality({c \in DOMAIN cases : cases[c].risk = l})]]

\* The process ends, and every request with it.
Stop ==
    /\ stops < MaxStops
    /\ request' = [r \in Request |-> Idle]
    /\ stops' = stops + 1
    /\ UNCHANGED cases
-----------------------------------------------------------------------------
\* The routes of students, each with the rest of its handler.
StudentStep(r) ==
    \/ \E c \in Case, admission \in Name \cup {NoName} : StartCase(r, c, admission)
    \/ \E c \in DOMAIN cases : RunLiveness(r, c)
    \/ \E confidence \in Confidences : StoreLiveness(r, confidence)
    \/ \E c \in DOMAIN cases, claimed \in Name : RunDocument(r, c, claimed)
    \/ \E read \in Name \cup {NoName}, found \in BOOLEAN : StoreDocument(r, read, found)
    \/ Fail(r)

\* The route of sponsors.
SponsorStep(r) ==
    \E c \in Case, large, hit \in BOOLEAN, country \in Countries :
        ScreenSponsor(r, c, large, country, hit)

\* The routes of reviewers.
ReviewStep(r) ==
    \/ \E c \in DOMAIN cases, verdict \in {"APPROVE", "REJECT"} : Decide(r, c, verdict)
    \/ StoreDecision(r)

Next ==
    \/ \E r \in Request : StudentStep(r) \/ SponsorStep(r) \/ ApplyStatus(r) \/ ReviewStep(r)
    \/ Stop

Spec == Init /\ [][Next]_vars
-----------------------------------------------------------------------------
(* What the checks are for.                                                *)

Approved(c) == cases[c].queue = "APPROVED"

\* Nobody is verified who has not passed both checks, or been cleared by the
\* screening, or been approved by a reviewer, however requests overlap or end
\* (applyStatus, decide).
VerifiedIsEarned ==
    \A c \in DOMAIN cases :
        cases[c].status = "VERIFIED" =>
            \/ cases[c].liveness = "passed" /\ cases[c].document = "matched"
            \/ cases[c].aml = "CLEAR"
            \/ Approved(c)

\* A result that is stored is used: unless the process ended in between, the
\* status of the case moves on.  A case that does not could never be checked
\* again, because the result is unique (runLiveness, runDocument).
ResultsAreUsed ==
    \A c \in DOMAIN cases :
        \/ stops > 0
        \/ \E r \in Request : request[r].step = "status" /\ request[r].case = c
        \/ /\ cases[c].status = "STARTED" => cases[c].liveness = "none" /\ cases[c].aml = "none"
           /\ cases[c].status = "LIVENESS_PASSED" => cases[c].document = "none"

\* The queue of the dashboard is what waits for a reviewer, no more and no less.
PendingIsManual == Dashboard.pendingReview = Dashboard.byStatus["MANUAL_REVIEW"]

\* The ways to set letters of one name against letters of the other, in order.
Alignments(a, b) ==
    {m \in UNION {[S -> 1..Len(b)] : S \in SUBSET (1..Len(a))} :
        \A i, j \in DOMAIN m : i < j => m[i] < m[j]}

\* What the distance is: the fewest letters changed, dropped and put in.
EditDistance(a, b) ==
    Min({Cardinality({i \in DOMAIN m : a[i] # b[m[i]]})
         + Len(a) + Len(b) - 2 * Cardinality(DOMAIN m) : m \in Alignments(a, b)})

\* Two names match when at most a fifth of the letters of the longer differ
\* (levenshtein, nameSimilarity).
MatchForgivesAFifth ==
    \A a, b \in Name :
        MatchName(a, b) <=> 5 * EditDistance(a, b) <= Max({Len(a), Len(b)})

=============================================================================
