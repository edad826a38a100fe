----------------------------- MODULE SchoolPayouts -----------------------------
(***************************************************************************)
(* The payments to schools that are booked in the ledger:                  *)
(*   - a scholarship award and its conditional second tranche              *)
(*     (scholarship.service.ts, disburse and releaseTranche);              *)
(*   - a payout in a local currency (fx.service.ts, payoutToSchool).       *)
(*                                                                         *)
(* Each handler checks, asks the payment provider to transfer the money,   *)
(* appends to the ledger, and then, for an award, marks the row: four      *)
(* steps, each committed on its own.  The append is the one of module      *)
(* Ledger, so handlers race for its sequence numbers.                      *)
(***************************************************************************)
EXTENDS Integers, FiniteSets

CONSTANTS
    Request,        \* the requests, each served by one handler
    School,
    Award,          \* the awards that decide() made
    SchoolOf,       \* the school an award goes to
    MaxInFlight,    \* handlers that run at the same time
    Operations,     \* the kinds of request that are made
    Outcomes,       \* what the payment provider may answer
    MaxStops,       \* handlers that may die
    MaxToggles      \* changes of a school's verification by an administrator

Kinds == {"award", "tranche", "local"}

ASSUME SchoolPayoutsAssumption ==
    /\ SchoolOf \in [Award -> School]
    /\ MaxInFlight \in Nat /\ MaxStops \in Nat /\ MaxToggles \in Nat
    /\ Operations \subseteq Kinds
    /\ Outcomes \subseteq {"SENT", "FAILED"}

VARIABLES
    rows, call, tampered,   \* the ledger
    award,      \* award[a]: is payoutRef set, and the status of its tranche
    verified,   \* the schools with payoutVerified
    toggles,    \* how often an administrator changed that
    req,        \* local state of the handlers
    sent        \* the requests whose transfer the provider made

ledger == <<rows, call, tampered>>
vars == <<rows, call, tampered, award, verified, toggles, req, sent>>

\* refType and refId of an entry: what the payment is for.
Movement == {"award", "tranche"} \X Award \cup {"local"} \X Request

\* The ledger, each handler making one call of append().
L == INSTANCE Ledger WITH Append <- Request, TamperedTo <- {}

Running(r) == req[r].pc \in {"pay", "append", "mark"}
Stopped == {r \in Request : req[r].pc = "stopped"}

TypeOK ==
    /\ award \in [Award -> [paid : BOOLEAN, tranche : {"HELD", "RELEASED"}]]
    /\ verified \subseteq School
    /\ toggles \in 0 .. MaxToggles
    /\ \A r \in Request :
          \/ req[r] = [pc |-> "idle"]
          \/ /\ req[r].pc \in {"pay", "append", "mark", "done", "failed", "stopped"}
             /\ req[r].what \in Movement
             /\ req[r].school \in School
    /\ sent \subseteq Request

Init ==
    /\ L!Init
    /\ award = [a \in Award |-> [paid |-> FALSE, tranche |-> "HELD"]]
    /\ verified = School
    /\ toggles = 0
    /\ req = [r \in Request |-> [pc |-> "idle"]]
    /\ sent = {}

-----------------------------------------------------------------------------
(* The handlers.                                                           *)

\* The checks of a handler pass; a request that fails one has no effect.
Start(r, what, school) ==
    /\ req[r].pc = "idle"
    /\ Cardinality({q \in Request : Running(q)}) < MaxInFlight
    /\ what[1] \in Operations
    /\ school \in verified
    /\ req' = [req EXCEPT ![r] = [pc |-> "pay", what |-> what, school |-> school]]
    /\ UNCHANGED <<ledger, award, verified, toggles, sent>>

\* Mutant: no check for an earlier payout.
PayableAgain(a) == TRUE

\* disburse refuses an award whose payoutRef is set.
Payable(a) == ~award[a].paid

Disburse(r, a) ==
    /\ Payable(a)
    /\ Start(r, <<"award", a>>, SchoolOf[a])

\* decideConditionalRelease: the grade is reached and the tranche was not
\* released.  Below the threshold the request is answered HELD, without effect.
ReleaseTranche(r, a, gpaReached) ==
    /\ gpaReached
    /\ award[a].tranche = "HELD"
    /\ Start(r, <<"tranche", a>>, SchoolOf[a])

PayoutToSchool(r, s) == Start(r, <<"local", r>>, s)

\* Mutant: releaseTranche returns before it books.
BooksNoTranche(what, outcome) ==
    what[1] # "tranche" /\ (what[1] = "local" => outcome = "SENT")

\* payoutToSchool looks at the provider's answer; disburse and releaseTranche
\* do not.
GoesOn(what, outcome) == what[1] = "local" => outcome = "SENT"

\* The provider makes the transfer, or answers FAILED.
Pay(r) ==
    /\ req[r].pc = "pay"
    /\ \E outcome \in Outcomes :
          /\ sent' = IF outcome = "SENT" THEN sent \cup {r} ELSE sent
          /\ req' = [req EXCEPT ![r].pc = IF GoesOn(req[r].what, outcome)
                                          THEN "append" ELSE "failed"]
    /\ UNCHANGED <<ledger, award, verified, toggles>>

\* append() reads the last entry of the school.
ReadLedger(r) ==
    /\ req[r].pc = "append"
    /\ L!ReadLast(r, req[r].school, req[r].what)
    /\ UNCHANGED <<award, verified, toggles, req, sent>>

\* Mutant: an entry written past append(), always as the first of its school.
WriteFirst(r) ==
    /\ req[r].pc = "append"
    /\ call[r].pc = "create"
    /\ rows' = [rows EXCEPT ![req[r].school] = @ \cup {L!Entry(1, req[r].what, L!Genesis)}]
    /\ call' = [call EXCEPT ![r].pc = "done"]
    /\ req' = [req EXCEPT ![r].pc = IF req[r].what[1] = "local" THEN "done" ELSE "mark"]
    /\ UNCHANGED <<tampered, award, verified, toggles, sent>>

\* append() creates its entry, or loses the number to another call; then the
\* handler ends with the exception.
WriteLedger(r) ==
    /\ req[r].pc = "append"
    /\ L!Create(r)
    /\ req' = [req EXCEPT ![r].pc = IF call'[r].pc = "failed" THEN "failed"
                                    ELSE IF req[r].what[1] = "local" THEN "done" ELSE "mark"]
    /\ UNCHANGED <<award, verified, toggles, sent>>

\* The row of an award after its payment.
Marked(row, kind) ==
    IF kind = "award" THEN [row EXCEPT !.paid = TRUE] ELSE [row EXCEPT !.tranche = "RELEASED"]

\* The award row gets payoutRef and ledgerRefId, or the tranche its RELEASED.
Mark(r) ==
    /\ req[r].pc = "mark"
    /\ award' = [award EXCEPT ![req[r].what[2]] = Marked(@, req[r].what[1])]
    /\ req' = [req EXCEPT ![r].pc = "done"]
    /\ UNCHANGED <<ledger, verified, toggles, sent>>

\* The process dies; an open transaction of append() is rolled back.
Stop(r) ==
    /\ Running(r)
    /\ Cardinality(Stopped) < MaxStops
    /\ req' = [req EXCEPT ![r].pc = "stopped"]
    /\ IF call[r].pc = "create" THEN L!Stop(r) ELSE UNCHANGED ledger
    /\ UNCHANGED <<award, verified, toggles, sent>>

\* schools.service.ts verifyPayout: an administrator sets or clears the flag.
VerifyPayout(s) ==
    /\ toggles < MaxToggles
    /\ toggles' = toggles + 1
    /\ verified' = IF s \in verified THEN verified \ {s} ELSE verified \cup {s}
    /\ UNCHANGED <<ledger, award, req, sent>>

Carry(r) == Pay(r) \/ ReadLedger(r) \/ WriteLedger(r) \/ Mark(r)

Next ==
    \/ \E r \in Request, a \in Award : Disburse(r, a)
    \/ \E r \in Request, a \in Award, gpaReached \in BOOLEAN : ReleaseTranche(r, a, gpaReached)
    \/ \E r \in Request, s \in School : PayoutToSchool(r, s)
    \/ \E r \in Request : Carry(r) \/ Stop(r)
    \/ \E s \in School : VerifyPayout(s)

Spec == Init /\ [][Next]_vars

-----------------------------------------------------------------------------
(* Properties.                                                             *)

Served(what) == {r \in Request : req[r].pc # "idle" /\ req[r].what = what}
Entries(what) == UNION {{e \in rows[s] : e.movement = what} : s \in School}
Finished(r) == req[r].pc \in {"done", "failed"}

\* The handlers use the ledger as it is meant to be used, whatever they race or
\* however they end: SchoolPayouts implements Ledger.
KeepsLedger == L!Spec

\* An award row says paid, or released, only when the ledger of the award's
\* school has the entry.
MarkedIsBooked ==
    \A a \in Award :
        /\ award[a].paid => Entries(<<"award", a>>) # {}
        /\ award[a].tranche = "RELEASED" => Entries(<<"tranche", a>>) # {}

\* A handler that answers success has booked its payment, and for an award the
\* row shows it.
SuccessIsRecorded ==
    \A r \in Request :
        req[r].pc = "done" =>
            /\ \E e \in rows[req[r].school] : e = call[r].entry /\ e.movement = req[r].what
            /\ req[r].what[1] = "award" => award[req[r].what[2]].paid
            /\ req[r].what[1] = "tranche" => award[req[r].what[2]].tranche = "RELEASED"

\* A payout in local currency is booked only when the provider made it
\* (fx.service.ts, the check of payout.status).
LocalEntriesArePaid == \A r \in Request : Entries(<<"local", r>>) # {} => r \in sent

\* Every entry is the work of one handler, and no handler books twice or for
\* another payment.
EntriesMatchHandlers ==
    \A what \in Movement :
        Cardinality(Entries(what)) = Cardinality({r \in Served(what) : call[r].pc = "done"})

\* "409 ALREADY_DISBURSED": an award, and its tranche, is transferred once.
AwardPaidOnce ==
    \A what \in Movement : Cardinality(Served(what) \cap sent) <= 1

\* "Every payout is recorded as a LedgerEntry": a handler that has ended leaves
\* no transfer without its entry.
EveryPayoutIsBooked ==
    \A r \in sent : Finished(r) => \E e \in Entries(req[r].what) : e = call[r].entry

\* The other direction: the ledger shows a disbursement only when the transfer
\* was made.
BookedIsPaid ==
    \A what \in Movement : Entries(what) # {} => Served(what) \cap sent # {}

=============================================================================
