-------------------------------- MODULE Payroll --------------------------------
(***************************************************************************)
(* Payroll giving (payroll.service.ts).  A company sets a match rule and   *)
(* its employees opt in.  A run of the program reads the rule, the         *)
(* campaign and the active employees once and then books one employee's    *)
(* match after the other: a transaction that updates the campaign, with    *)
(* an entry of the ledger in the middle that is committed on its own.      *)
(***************************************************************************)
EXTENDS Integers, FiniteSets

CONSTANTS
    Employee,       \* numbers: the order in which a run takes them
    Run,            \* the requests that run the program
    Gift,           \* what the rule's ratio makes of the contribution of a run
    Caps,           \* the annual caps per employee a rule may have
    Goal,           \* what the campaign needs
    Others,         \* what other donors give
    MaxYear,        \* bound: years
    MaxFailures     \* bound: runs that fail half-way

ASSUME PayrollAssumption ==
    /\ Employee \subseteq Nat
    /\ Gift \subseteq Nat /\ Caps \subseteq Nat /\ Others \subseteq Nat
    /\ Goal \in Nat \ {0} /\ MaxYear \in Nat \ {0} /\ MaxFailures \in Nat

VARIABLES
    year,
    rule,       \* the caps of the rule: none yet, or one
    active,     \* the employees who opted in
    used,       \* matchUsedCents of an employee
    usedYear,   \* matchYear: the year it is about
    raised,     \* raisedCents of the campaign
    status,     \* of the campaign
    run,        \* local state of the runs
    entered,    \* ledger: the entries, by run and employee
    booked,     \* the rows PayrollContribution, by run and employee
    matched     \* history: what was matched for an employee in a year

vars == <<year, rule, active, used, usedYear, raised, status, run, entered, booked, matched>>

Year == 1 .. MaxYear
Status == {"PENDING_VERIFICATION", "LIVE", "FUNDED", "DISBURSED"}

Idle == [at |-> "idle", gift |-> 0, cap |-> 0, raised |-> 0, status |-> "LIVE",
         year |-> 0, todo |-> {}, used |-> [e \in Employee |-> 0]]

RunState ==
    [at : {"idle", "employees", "loop", "append", "commit", "done", "failed"},
     gift : Nat, cap : Nat, raised : Nat, status : Status,
     year : 0 .. MaxYear, todo : SUBSET Employee, used : [Employee -> Nat]]

TypeOK ==
    /\ year \in Year
    /\ rule \in SUBSET Caps
    /\ active \in SUBSET Employee
    /\ used \in [Employee -> Nat] /\ usedYear \in [Employee -> 0 .. MaxYear]
    /\ raised \in Nat /\ status \in Status
    /\ run \in [Run -> RunState]
    /\ entered \subseteq Run \X Employee /\ booked \subseteq Run \X Employee
    /\ matched \in [Employee -> [Year -> Nat]]

Init ==
    /\ year = 1
    /\ rule = {}
    /\ active = {}
    /\ used = [e \in Employee |-> 0] /\ usedYear = [e \in Employee |-> 0]
    /\ raised = 0 /\ status = "PENDING_VERIFICATION"
    /\ run = [r \in Run |-> Idle]
    /\ entered = {} /\ booked = {}
    /\ matched = [e \in Employee |-> [y \in Year |-> 0]]

-----------------------------------------------------------------------------
(* The company, the calendar, and what others do with the campaign.        *)

Program == <<year, rule, active, used, usedYear>>
Campaign == <<raised, status>>
Books == <<entered, booked, matched>>

ConfigureRule(cap) ==
    /\ rule' = {cap}
    /\ UNCHANGED <<year, active, used, usedYear, Campaign, run, Books>>

ActivateEmployee(e) ==
    /\ active' = active \cup {e}
    /\ UNCHANGED <<year, rule, used, usedYear, Campaign, run, Books>>

NewYear ==
    /\ year < MaxYear
    /\ year' = year + 1
    /\ UNCHANGED <<rule, active, used, usedYear, Campaign, run, Books>>

Verify ==
    /\ status = "PENDING_VERIFICATION"
    /\ status' = "LIVE"
    /\ UNCHANGED <<Program, raised, run, Books>>

-----------------------------------------------------------------------------
(* What a run computes.                                                    *)

\* Mutant: what was used before is forgotten.
UsedByNobody(r) == 0

\* A run takes its employees in order.
NextOf(r) == CHOOSE e \in run[r].todo : \A o \in run[r].todo : e <= o

\* usedThisYear of the next employee, as the run read it.
UsedSoFar(r) == run[r].used[NextOf(r)]

\* applyPayrollMatchRule, computeMatch: the match, within the rest of the cap.
Remaining(r) == IF UsedSoFar(r) < run[r].cap THEN run[r].cap - UsedSoFar(r) ELSE 0
Match(r) == IF run[r].gift < Remaining(r) THEN run[r].gift ELSE Remaining(r)

\* splitContribution: of the match, what the campaign needed when the run began.
Gap(r) == IF run[r].raised < Goal THEN Goal - run[r].raised ELSE 0
Booked(r) == IF Match(r) < Gap(r) THEN Match(r) ELSE Gap(r)

\* Mutant: funded one cent early.
FundsEarly(r) == Booked(r) > 0 /\ run[r].raised + Booked(r) + 1 >= Goal

Funds(r) == Booked(r) > 0 /\ run[r].raised + Booked(r) >= Goal

\* The runs whose transaction has updated the campaign and is still open.
Locks(r) == run[r].at \in {"append", "commit"} /\ Booked(r) > 0
Locked == \E r \in Run : Locks(r)

-----------------------------------------------------------------------------
(* A run.                                                                  *)

\* runCampaign reads the rule and the campaign, of any status.
RunCampaign(r, gift) ==
    /\ run[r].at = "idle"
    /\ \E cap \in rule :
          run' = [run EXCEPT ![r] =
                    [Idle EXCEPT !.at = "employees", !.gift = gift, !.cap = cap,
                                 !.raised = raised, !.status = status]]
    /\ UNCHANGED <<Program, Campaign, Books>>

\* It reads the active employees, and the clock.
ReadEmployees(r) ==
    /\ run[r].at = "employees"
    /\ run' = [run EXCEPT ![r] =
                 [run[r] EXCEPT !.at = IF active = {} THEN "done" ELSE "loop",
                           !.year = year, !.todo = active,
                           !.used = [e \in Employee |-> IF usedYear[e] = year THEN used[e] ELSE 0]]]
    /\ UNCHANGED <<Program, Campaign, Books>>

\* commitContribution opens its transaction; the row of the campaign is locked
\* until it ends.
Begin(r) ==
    /\ run[r].at = "loop"
    /\ run[r].todo # {}
    /\ Booked(r) > 0 => ~Locked
    /\ run' = [run EXCEPT ![r].at = "append"]
    /\ UNCHANGED <<Program, Campaign, Books>>

\* The entry of the ledger, in a transaction of its own.
Append(r) ==
    /\ run[r].at = "append"
    /\ entered' = entered \cup {<<r, NextOf(r)>>}
    /\ run' = [run EXCEPT ![r].at = "commit"]
    /\ UNCHANGED <<Program, Campaign, booked, matched>>

\* The transaction commits: donation, campaign, contribution, balance.
Commit(r) ==
    /\ run[r].at = "commit"
    /\ LET e == NextOf(r)
           y == run[r].year
       IN  /\ raised' = raised + Booked(r)
           /\ status' = IF Funds(r) /\ run[r].status # "FUNDED" THEN "FUNDED" ELSE status
           /\ booked' = booked \cup {<<r, e>>}
           /\ used' = [used EXCEPT ![e] = UsedSoFar(r) + Match(r)]
           /\ usedYear' = [usedYear EXCEPT ![e] = y]
           /\ matched' = [matched EXCEPT ![e] = [matched[e] EXCEPT ![y] = matched[e][y] + Booked(r)]]
           /\ run' = [run EXCEPT ![r] = [run[r] EXCEPT !.at = "loop", !.todo = run[r].todo \ {e}]]
    /\ UNCHANGED <<year, rule, active, entered>>

\* Nobody is left: the run is audited and answers.
Finish(r) ==
    /\ run[r].at = "loop"
    /\ run[r].todo = {}
    /\ run' = [run EXCEPT ![r].at = "done"]
    /\ UNCHANGED <<Program, Campaign, Books>>

Proceed(r) == ReadEmployees(r) \/ Begin(r) \/ Append(r) \/ Commit(r) \/ Finish(r)

\* The ledger refuses the entry, the transaction times out or the process ends:
\* what is not committed is rolled back and the run is over.
Fail(r) ==
    /\ run[r].at \in {"append", "commit"}
    /\ Cardinality({q \in Run : run[q].at = "failed"}) < MaxFailures
    /\ run' = [run EXCEPT ![r].at = "failed"]
    /\ UNCHANGED <<Program, Campaign, Books>>

\* Other donors fill the campaign, which is funded and paid out.
OthersGive(amount) ==
    /\ status = "LIVE" /\ raised < Goal
    /\ ~Locked
    /\ raised' = IF raised + amount < Goal THEN raised + amount ELSE Goal
    /\ status' = IF raised' >= Goal THEN "FUNDED" ELSE status
    /\ UNCHANGED <<Program, run, Books>>

Disburse ==
    /\ status = "FUNDED"
    /\ ~Locked
    /\ status' = "DISBURSED"
    /\ UNCHANGED <<Program, raised, run, Books>>

Next ==
    \/ \E cap \in Caps : ConfigureRule(cap)
    \/ \E e \in Employee : ActivateEmployee(e)
    \/ NewYear
    \/ Verify
    \/ \E r \in Run, gift \in Gift : RunCampaign(r, gift)
    \/ \E r \in Run : Proceed(r) \/ Fail(r)
    \/ \E amount \in Others : OthersGive(amount)
    \/ Disburse

Spec == Init /\ [][Next]_vars

-----------------------------------------------------------------------------
(* What the service promises.                                              *)

\* The campaign is funded only when the goal is covered, although runs decide
\* that on what they read at their start (commitContribution).
FundedIsCovered == status \in {"FUNDED", "DISBURSED"} => raised >= Goal

\* FR-5: in a year, no employee is matched beyond the cap (applyPayrollMatchRule).
WithinCap == \A e \in Employee, y \in Year : \E cap \in Caps \cup {0} : matched[e][y] <= cap

\* Every contribution has its entry in the ledger, and an entry without one is
\* the last of a run that failed or is about to commit (commitContribution).
LedgerShowsGifts ==
    /\ booked \subseteq entered
    /\ \A g \in entered \ booked :
          run[g[1]].at \in {"commit", "failed"} /\ g[2] = NextOf(g[1])

\* Runs that decide on old snapshots, and fail in the middle, leave a campaign
\* that is funded only if its goal is covered, and a ledger that shows every gift.
GiftsAreAccounted == FundedIsCovered /\ LedgerShowsGifts

\* Accounting rule 4: a campaign at its goal is funded, once no run is at work.
GoalIsFunded ==
    raised >= Goal /\ (\A r \in Run : run[r].at \in {"idle", "done", "failed"})
        => status \in {"FUNDED", "DISBURSED"}
=============================================================================
