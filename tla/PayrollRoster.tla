---------------------------- MODULE PayrollRoster ----------------------------
(***************************************************************************)
(* The employees of a payroll-giving program (payroll.service.ts): a       *)
(* company connects its HR system with read-only scopes, the service       *)
(* copies the employees from it one by one, a webhook of the HR system     *)
(* reports its state, employees opt in, and a run of the program decides   *)
(* for each of them who takes part and what is deducted before tax.        *)
(* Module Payroll follows the money of a run; this one the people in it.   *)
(*                                                                         *)
(* A sync and a run read in one step and write in many later ones.         *)
(***************************************************************************)
EXTENDS Integers, FiniteSets

CONSTANTS
    Handler,        \* the requests that run at the same time
    Employee,       \* employee ids of the HR system, numbers
    Account,        \* the e-mail addresses of registered users
    Records,        \* what the HR system may hold of an employee
    Scopes,         \* the scopes a company may ask for
    Deductions,     \* what a run may ask for: contribution, pre-tax, tax rate
    MaxStarts       \* bound: requests in all

NoEmail == "none"
Gone == [present |-> FALSE]
NotSynced == [synced |-> FALSE]
ConnectMarkers == {"write", "update", "delete", "create", "admin", "manage", "modify"}
LogMarkers == ConnectMarkers \ {"modify"}
Status == {"NONE", "CONNECTED", "SYNCED", "ERROR"}

\* A scope is the set of markers its text contains, or {"blank"}.
RosterAssumption ==
    /\ IsFiniteSet(Handler) /\ Employee \subseteq Nat /\ IsFiniteSet(Employee)
    /\ Records \subseteq [present : {TRUE}, band : Nat, preTax : BOOLEAN, email : Account \cup {NoEmail}]
    /\ Scopes \subseteq SUBSET SUBSET (ConnectMarkers \cup {"blank"})
    /\ Deductions \subseteq [amount : Nat \ {0}, preTax : BOOLEAN, rate : Int]
    /\ MaxStarts \in Nat

VARIABLES
    hris,       \* the HR system's records (external)
    status,     \* of the connection; NONE before there is one
    scopes,     \* of the connection
    profile,    \* the copies of the employees
    log,        \* the audit log's entries of syncs
    lines,      \* what the runs deducted
    task,       \* what each handler is doing
    starts,
    alone       \* history: no two handlers were ever at work together

vars == <<hris, status, scopes, profile, log, lines, task, starts, alone>>

Idle == [step |-> "idle"]
Profile == [synced : {TRUE}, active : BOOLEAN, band : Nat, preTax : BOOLEAN, user : Account \cup {NoEmail}]
Synced == {e \in Employee : profile[e].synced}
FirstOf(set) == CHOOSE e \in set : \A f \in set : e <= f

-----------------------------------------------------------------------------
(* The pure rules                                                          *)

\* validateReadOnlyScopes.
ReadOnlyScopes(asked) == asked # {} /\ \A s \in asked : s # {"blank"} /\ s \cap ConnectMarkers = {}

\* buildSyncLog: its own, shorter list of markers.
AllReadOnly(asked) == \A s \in asked : s \cap LogMarkers = {}

\* resolveEligibility: no caller sets a floor for the salary band.
Eligible(p) == p.active /\ p.band >= 0

\* Mutant: whether the employee may is not asked.
PreTaxAsAsked(d, p) == d.preTax

PreTax(d, p) == d.preTax /\ p.preTax

\* clampPercent, computeDeduction.
Percent(rate) == IF rate < 0 THEN 0 ELSE IF rate > 100 THEN 100 ELSE rate
Saving(d, p) == IF PreTax(d, p) THEN (d.amount * Percent(d.rate)) \div 100 ELSE 0
Net(d, p) == d.amount - Saving(d, p)

-----------------------------------------------------------------------------

TypeOK ==
    /\ hris \in [Employee -> Records \cup {Gone}]
    /\ status \in Status /\ scopes \in Scopes \cup {{}}
    /\ profile \in [Employee -> Profile \cup {NotSynced}]
    /\ \A e \in log : e.count \in 0 .. Cardinality(Employee) /\ e.readOnly \in BOOLEAN
    /\ \A l \in lines : l.of \in Employee /\ l.net \in 0 .. l.gross
    /\ starts \in 0 .. MaxStarts /\ alone \in BOOLEAN

Init ==
    /\ hris \in [Employee -> Records \cup {Gone}]
    /\ status = "NONE" /\ scopes = {}
    /\ profile = [e \in Employee |-> NotSynced]
    /\ log = {} /\ lines = {}
    /\ task = [h \in Handler |-> Idle]
    /\ starts = 0 /\ alone = TRUE

Goto(h, t) ==
    /\ task' = [task EXCEPT ![h] = t]
    /\ alone' = (alone /\ Cardinality({g \in Handler : task'[g] # Idle}) <= 1)

Begin(h) == task[h] = Idle /\ starts < MaxStarts /\ starts' = starts + 1

\* Somebody is hired, leaves or changes in the HR system.
HrisChanges(e, record) ==
    /\ starts < MaxStarts /\ starts' = starts + 1
    /\ hris' = [hris EXCEPT ![e] = record]
    /\ UNCHANGED <<status, scopes, profile, log, lines, task, alone>>

\* connectHris: the connection and its program, in one transaction.
Connect(asked) ==
    /\ status = "NONE" /\ ReadOnlyScopes(asked)
    /\ status' = "CONNECTED" /\ scopes' = asked
    /\ UNCHANGED <<hris, profile, log, lines, task, starts, alone>>

Syncable == status \in {"CONNECTED", "SYNCED"}

\* syncEmployees asks the provider for the employees ...
StartSync(h) ==
    /\ Begin(h) /\ Syncable
    /\ LET present == {e \in Employee : hris[e].present} IN
        Goto(h, [step |-> "sync", roster |-> [e \in present |-> hris[e]], todo |-> present])
    /\ UNCHANGED <<hris, status, scopes, profile, log, lines>>

\* The upsert: what the employee chose is kept, and a link to a user too.
Copy(e, record) ==
    IF ~profile[e].synced
    THEN [synced |-> TRUE, active |-> FALSE, band |-> record.band,
          preTax |-> record.preTax, user |-> record.email]
    ELSE [profile[e] EXCEPT !.band = record.band, !.preTax = record.preTax,
          !.user = IF record.email # NoEmail THEN record.email ELSE profile[e].user]

\* ... and copies them one by one; who left the company keeps a copy ...
SyncOne(h) ==
    /\ task[h].step = "sync" /\ task[h].todo # {}
    /\ LET e == FirstOf(task[h].todo) IN
        /\ profile' = [profile EXCEPT ![e] = Copy(e, task[h].roster[e])]
        /\ Goto(h, [task[h] EXCEPT !.todo = task[h].todo \ {e}])
    /\ UNCHANGED <<hris, status, scopes, log, lines, starts>>

\* ... then marks the connection and writes the log.
SyncEnds(h) ==
    /\ task[h].step = "sync" /\ task[h].todo = {}
    /\ status' = "SYNCED"
    /\ log' = log \cup {[count |-> Cardinality(DOMAIN task[h].roster), readOnly |-> AllReadOnly(scopes)]}
    /\ Goto(h, Idle)
    /\ UNCHANGED <<hris, scopes, profile, lines, starts>>

\* applyWebhook: what is not an error is taken for a sync.
Webhook(reported) ==
    /\ status # "NONE" /\ starts < MaxStarts /\ starts' = starts + 1
    /\ status' = IF reported = "ERROR" THEN "ERROR" ELSE "SYNCED"
    /\ UNCHANGED <<hris, scopes, profile, log, lines, task, alone>>

\* activateEmployee.
Activate(e) ==
    /\ e \in Synced
    /\ profile' = [profile EXCEPT ![e].active = TRUE]
    /\ UNCHANGED <<hris, status, scopes, log, lines, task, starts, alone>>

\* runCampaign reads those who opted in; without one it is refused ...
StartRun(h, d) ==
    /\ Begin(h)
    /\ LET active == {e \in Synced : profile[e].active} IN
        /\ active # {}
        /\ Goto(h, [step |-> "run", d |-> d, read |-> [e \in active |-> profile[e]], todo |-> active])
    /\ UNCHANGED <<hris, status, scopes, profile, log, lines>>

\* ... and takes them one by one, as it read them.
RunOne(h) ==
    /\ task[h].step = "run" /\ task[h].todo # {}
    /\ LET e == FirstOf(task[h].todo)  p == task[h].read[e]  d == task[h].d IN
        /\ lines' = IF ~Eligible(p) THEN lines ELSE lines \cup {[of |-> e, gross |-> d.amount,
                net |-> Net(d, p), preTax |-> PreTax(d, p), may |-> profile[e].preTax]}
        /\ Goto(h, IF task[h].todo = {e} THEN Idle ELSE [task[h] EXCEPT !.todo = task[h].todo \ {e}])
    /\ UNCHANGED <<hris, status, scopes, profile, log, starts>>

\* The provider does not answer, or the process ends.
Stops(h) ==
    /\ task[h] # Idle
    /\ Goto(h, Idle)
    /\ UNCHANGED <<hris, status, scopes, profile, log, lines, starts>>

Next ==
    \/ \E e \in Employee, record \in Records \cup {Gone} : HrisChanges(e, record)
    \/ \E asked \in Scopes : Connect(asked)
    \/ \E reported \in {"ERROR", "SYNCED"} : Webhook(reported)
    \/ \E e \in Employee : Activate(e)
    \/ \E h \in Handler : StartSync(h) \/ SyncOne(h) \/ SyncEnds(h) \/ RunOne(h) \/ Stops(h)
    \/ \E h \in Handler, d \in Deductions : StartRun(h, d)

Spec == Init /\ [][Next]_vars

-----------------------------------------------------------------------------

\* Every sync that is logged is logged as read-only: the scopes a connection
\* was refused for cover those the log looks for, although the two lists are
\* kept in two files (oauth-scope-validator.ts 11-19, sync-log.ts 27-34).
LoggedReadOnly == \A e \in log : e.readOnly

\* Nobody pays before tax who may not, by the copy at the time of the line.
\* It needs requests that run one at a time: a sync between the reading and
\* the line changes the copy under the run (payroll.service.ts 328-375).
PreTaxIsAllowed == alone => \A l \in lines : l.preTax => l.may

\* Who opted in stays in, however often the employees are copied anew.
OptInIsKept == [][\A e \in Employee :
    profile[e].synced /\ profile[e].active => profile'[e].active]_vars

=============================================================================
