--------------------------- MODULE BackOfficeProofs ---------------------------
(*****************************************************************************)
(* What is shown of the parts that operators, schools and reviewers work     *)
(* with, each by an inductive invariant of its own: the payments to schools, *)
(* which implement the ledger, so that what LedgerProofs shows of a ledger   *)
(* is true of theirs; cases of verification; disputes, flags and verdicts;   *)
(* the score of a donation; the queues of the console.  Then the parts come  *)
(* together, as MCBackOffice puts them: a step of it is a step of one part,  *)
(* and no step of any other.  Schools and their admissions come last: what   *)
(* they promise is shown of the whole, which knows whether requests overlap. *)
(*****************************************************************************)
EXTENDS MCBackOffice, Sums

-----------------------------------------------------------------------------
(* Payments to schools.                                                    *)

\* What LedgerProofs shows, of the ledger that the payments write.
LP == INSTANCE LedgerProofs WITH Append <- Request, TamperedTo <- {}

\* The row of a request, by how far its handler is.
ReqOK ==
    \A r \in Request :
        \/ req[r] = [pc |-> "idle"]
        \/ /\ req[r] = [pc |-> req[r].pc, what |-> req[r].what, school |-> req[r].school]
           /\ req[r].pc \in {"pay", "append", "mark", "done", "failed", "stopped"}
           /\ req[r].what \in Movement
           /\ req[r].school \in School

\* The shape of the requests, which every step keeps.
Shape ==
    /\ req = [r \in Request |-> req[r]]
    /\ ReqOK

\* Requests that have not started have their shape.
LEMMA ShapeInit == Init => Shape
BY DEF Init, Shape, ReqOK

\* A handler that starts has the row of what it pays, and to which school.
LEMMA StartShape ==
    ASSUME Shape, NEW r \in Request, NEW what \in Movement, NEW s \in School,
           Start(r, what, s)
    PROVE  Shape'
BY DEF Shape, ReqOK, Start

\* A handler goes on with its own payment (disburse, payoutToSchool).
LEMMA StepShape ==
    ASSUME Shape, NEW r \in Request, Carry(r) \/ Stop(r) PROVE Shape'
<1>1. CASE Pay(r)
  BY <1>1 DEF Shape, ReqOK, Pay
<1>2. CASE ReadLedger(r)
  BY <1>2 DEF Shape, ReqOK, ReadLedger
<1>3. CASE WriteLedger(r)
  BY <1>3 DEF Shape, ReqOK, WriteLedger
<1>4. CASE Mark(r)
  BY <1>4 DEF Shape, ReqOK, Mark
<1>5. CASE Stop(r)
  BY <1>5 DEF Shape, ReqOK, Stop, Running
<1> QED BY <1>1, <1>2, <1>3, <1>4, <1>5 DEF Carry

\* Requests keep their shape.
LEMMA ShapeHolds == Spec => []Shape
<1>1. Shape /\ [Next]_vars => Shape'
  <2> SUFFICES ASSUME Shape, [Next]_vars PROVE Shape'
    OBVIOUS
  <2>1. ASSUME NEW r \in Request, NEW a \in Award, Disburse(r, a) PROVE Shape'
    BY <2>1, StartShape, SchoolPayoutsAssumption DEF Disburse, Movement
  <2>2. ASSUME NEW r \in Request, NEW a \in Award, NEW gpaReached \in BOOLEAN,
               ReleaseTranche(r, a, gpaReached)
        PROVE  Shape'
    BY <2>2, StartShape, SchoolPayoutsAssumption DEF ReleaseTranche, Movement
  <2>3. ASSUME NEW r \in Request, NEW s \in School, PayoutToSchool(r, s) PROVE Shape'
    BY <2>3, StartShape DEF PayoutToSchool, Movement
  <2>4. ASSUME NEW r \in Request, Carry(r) \/ Stop(r) PROVE Shape'
    BY <2>4, StepShape
  <2>5. ASSUME NEW s \in School, VerifyPayout(s) PROVE Shape'
    BY <2>5 DEF VerifyPayout, Shape, ReqOK
  <2>6. CASE UNCHANGED vars
    BY <2>6 DEF vars, Shape, ReqOK
  <2> QED BY <2>1, <2>2, <2>3, <2>4, <2>5, <2>6 DEF Next
<1> QED BY <1>1, ShapeInit, PTL DEF Spec

\* Every step of a handler is a step of the ledger or leaves it alone.
THEOREM LedgerIsKept == Spec => KeepsLedger
<1>1. Init => L!Init
  BY DEF Init
<1>2. Shape /\ [Next]_vars => [L!Next]_(L!vars)
  <2> SUFFICES ASSUME Shape, [Next]_vars, ~UNCHANGED ledger PROVE L!Next
    BY DEF L!vars, ledger
  <2>1. PICK r \in Request : Carry(r) \/ Stop(r)
    BY DEF Next, Disburse, ReleaseTranche, PayoutToSchool, Start, VerifyPayout, vars, ledger
  <2>2. CASE ReadLedger(r)
    BY <2>2 DEF ReadLedger, Shape, ReqOK, L!Next
  <2>3. CASE WriteLedger(r)
    BY <2>3 DEF WriteLedger, L!Next
  <2>4. CASE Stop(r)
    BY <2>4 DEF Stop, L!Next
  <2> QED BY <2>1, <2>2, <2>3, <2>4 DEF Carry, Pay, Mark
<1> QED BY <1>1, <1>2, ShapeHolds, PTL DEF Spec, KeepsLedger, L!Spec

\* The instance of the ledger and the one of its proofs are the same.
LEMMA PaymentsUseLedger == Spec => LP!Spec
<1>1. LP!Init <=> L!Init
  BY DEF LP!Init, L!Init
<1>2. [LP!Next]_(LP!vars) <=> [L!Next]_(L!vars)
  <2>1. \A s \in School : LP!Positions(s) = L!Positions(s)
    BY DEF LP!Positions, L!Positions, LP!FirstPosition, L!FirstPosition, LP!IsLast, L!IsLast,
           LP!NextPosition, L!NextPosition, LP!Genesis, L!Genesis
  <2>2. \A n, m, h : LP!Entry(n, m, h) = L!Entry(n, m, h)
    BY DEF LP!Entry, L!Entry, LP!HashEntry, L!HashEntry
  <2>3. \A r \in Request, s \in School, m \in Movement :
           LP!ReadLast(r, s, m) <=> L!ReadLast(r, s, m)
    BY <2>1, <2>2 DEF LP!ReadLast, L!ReadLast
  <2>4. \A r \in Request : LP!Create(r) <=> L!Create(r)
    BY DEF LP!Create, L!Create, LP!IsTaken, L!IsTaken
  <2>5. \A r \in Request : LP!Stop(r) <=> L!Stop(r)
    BY DEF LP!Stop, L!Stop
  <2>6. \A s \in School : ~LP!Tamper(s) /\ ~L!Tamper(s)
    BY DEF LP!Tamper, L!Tamper
  <2> QED BY <2>3, <2>4, <2>5, <2>6 DEF LP!Next, L!Next, LP!vars, L!vars
<1> QED BY <1>1, <1>2, LedgerIsKept, PTL DEF KeepsLedger, L!Spec, LP!Spec

\* The chains of the schools verify, however the payments race or die.
THEOREM PaymentsKeepChains == Spec => []L!ChainsVerify
<1>1. LP!ChainsVerify <=> L!ChainsVerify
  <2>1. \A e, es : LP!EntryIsSound(e, es) <=> L!EntryIsSound(e, es)
    BY DEF LP!EntryIsSound, L!EntryIsSound, LP!IsBefore, L!IsBefore, LP!Genesis, L!Genesis,
           LP!HashEntry, L!HashEntry
  <2> QED BY <2>1 DEF LP!ChainsVerify, L!ChainsVerify, LP!ChainIsValid, L!ChainIsValid
<1>2. LP!Spec => []LP!ChainsVerify
  BY LP!ChainsAlwaysVerify
<1> QED BY <1>1, <1>2, PaymentsUseLedger, PTL

\* The invariant of the ledger holds of the payments' ledger.
LEMMA LedgerInvHolds == Spec => []LP!Inv
<1>1. LP!Spec => []LP!Inv
  BY LP!InvHolds
<1> QED BY <1>1, PaymentsUseLedger, PTL

-----------------------------------------------------------------------------
(* What a row, an answer and an entry say about the money.                 *)

\* The awards keep their shape.
AwardsOK == award \in [Award -> [paid : BOOLEAN, tranche : {"HELD", "RELEASED"}]]

\* What a handler's call of append() and its own state say about each other.
CallsOK ==
    /\ tampered = {}
    /\ call = [r \in Request |-> call[r]]
    /\ \A r \in Request :
          call[r].pc # "idle" =>
              /\ req[r].pc \notin {"idle", "pay"}
              /\ call[r].school = req[r].school
              /\ call[r].entry.movement = req[r].what
              /\ req[r].what[1] = "local" => r \in sent
    /\ \A r \in Request : req[r].pc \in {"mark", "done"} => call[r].pc = "done"
    /\ \A r \in Request : req[r].pc = "append" /\ req[r].what[1] = "local" => r \in sent
    /\ \A r \in Request : req[r].pc = "mark" => req[r].what[1] # "local"
    /\ \A r \in Request : req[r].pc # "idle" /\ req[r].what[1] = "local" => req[r].what[2] = r

\* A row is marked by the handlers that answered success.
MarksOK ==
    /\ \A a \in Award : award[a].paid =>
          \E r \in Request : req[r].pc = "done" /\ req[r].what = <<"award", a>>
    /\ \A a \in Award : award[a].tranche = "RELEASED" =>
          \E r \in Request : req[r].pc = "done" /\ req[r].what = <<"tranche", a>>
    /\ \A r \in Request, a \in Award : req[r].pc = "done" =>
          /\ req[r].what = <<"award", a>> => award[a].paid
          /\ req[r].what = <<"tranche", a>> => award[a].tranche = "RELEASED"

\* The inductive invariant of the payments.
Inv == Shape /\ AwardsOK /\ CallsOK /\ MarksOK

\* A step that marks nothing and ends no handler of an award with success.
LEMMA MarksStay ==
    ASSUME MarksOK, UNCHANGED award,
           \A r \in Request : req[r].pc = "done" => req'[r] = req[r],
           \A r \in Request : req'[r].pc = "done" =>
              req'[r] = req[r] \/ req'[r].what[1] = "local"
    PROVE  MarksOK'
<1>1. \A r \in Request, a \in Award :
         req'[r].what[1] = "local" =>
            req'[r].what # <<"award", a>> /\ req'[r].what # <<"tranche", a>>
  OBVIOUS
<1>2. ASSUME NEW a \in Award, award'[a].paid
      PROVE  \E r \in Request : req'[r].pc = "done" /\ req'[r].what = <<"award", a>>
  <2>1. award[a].paid
    BY <1>2
  <2>2. PICK r \in Request : req[r].pc = "done" /\ req[r].what = <<"award", a>>
    BY <2>1 DEF MarksOK
  <2> QED BY <2>2
<1>3. ASSUME NEW a \in Award, award'[a].tranche = "RELEASED"
      PROVE  \E r \in Request : req'[r].pc = "done" /\ req'[r].what = <<"tranche", a>>
  <2>1. award[a].tranche = "RELEASED"
    BY <1>3
  <2>2. PICK r \in Request : req[r].pc = "done" /\ req[r].what = <<"tranche", a>>
    BY <2>1 DEF MarksOK
  <2> QED BY <2>2
<1>4. ASSUME NEW r \in Request, NEW a \in Award, req'[r].pc = "done"
      PROVE  /\ req'[r].what = <<"award", a>> => award'[a].paid
             /\ req'[r].what = <<"tranche", a>> => award'[a].tranche = "RELEASED"
  <2>1. CASE req'[r] = req[r]
    <3>1. /\ req[r].what = <<"award", a>> => award[a].paid
          /\ req[r].what = <<"tranche", a>> => award[a].tranche = "RELEASED"
      BY <1>4, <2>1 DEF MarksOK
    <3> QED BY <2>1, <3>1
  <2>2. CASE req'[r].what[1] = "local"
    BY <1>1, <2>2
  <2> QED BY <1>4, <2>1, <2>2
<1> QED BY <1>2, <1>3, <1>4 DEF MarksOK

\* Before the first payment nothing is held, called or marked.
LEMMA InvInit == Init => Inv
BY ShapeInit DEF Init, Inv, AwardsOK, CallsOK, MarksOK, L!Init

\* Who starts has neither paid nor called the ledger.
LEMMA StartPreserves ==
    ASSUME Inv, NEW r \in Request, NEW what \in Movement, NEW s \in School,
           what[1] = "local" => what[2] = r,
           Start(r, what, s)
    PROVE  Inv'
<1> DEFINE new == [pc |-> "pay", what |-> what, school |-> s]
<1>1. /\ req[r].pc = "idle"
      /\ req' = [req EXCEPT ![r] = new]
      /\ UNCHANGED <<rows, call, tampered, award, sent>>
  BY DEF Start, ledger
<1>2. \A q \in Request : req'[q] = IF q = r THEN new ELSE req[q]
  BY <1>1 DEF Inv, Shape
<1>3. call[r].pc = "idle"
  BY <1>1 DEF Inv, CallsOK
<1>4. Shape'
  BY StartShape DEF Inv
<1>5. AwardsOK'
  BY <1>1 DEF Inv, AwardsOK
<1>6. CallsOK'
  BY <1>1, <1>2, <1>3 DEF Inv, CallsOK
<1>7. MarksOK'
  BY <1>1, <1>2, MarksStay DEF Inv
<1> QED BY <1>4, <1>5, <1>6, <1>7 DEF Inv

\* A transfer is made once by its handler, which then calls the ledger
\* (initiatePayout).
LEMMA PayPreserves ==
    ASSUME Inv, NEW r \in Request, Pay(r) PROVE Inv'
<1>1. PICK outcome \in Outcomes :
          /\ sent' = IF outcome = "SENT" THEN sent \cup {r} ELSE sent
          /\ req' = [req EXCEPT ![r].pc = IF GoesOn(req[r].what, outcome)
                                          THEN "append" ELSE "failed"]
  BY DEF Pay
<1>2. req[r].pc = "pay" /\ UNCHANGED <<rows, call, tampered, award>>
  BY DEF Pay, ledger
<1>3. \A q \in Request \ {r} : req'[q] = req[q]
  BY <1>1 DEF Inv, Shape
<1>4. /\ req'[r].what = req[r].what /\ req'[r].school = req[r].school
      /\ req'[r].pc = "append" \/ req'[r].pc = "failed"
      /\ req'[r].pc = "append" /\ req[r].what[1] = "local" => r \in sent'
  BY <1>1, <1>2 DEF Inv, Shape, ReqOK, GoesOn
<1>5. call[r].pc = "idle" /\ sent \subseteq sent'
  BY <1>1, <1>2 DEF Inv, CallsOK
<1>6. Shape'
  BY StepShape DEF Inv, Carry
<1>7. AwardsOK'
  BY <1>2 DEF Inv, AwardsOK
<1>8. CallsOK'
  BY <1>2, <1>3, <1>4, <1>5 DEF Inv, CallsOK
<1>9. MarksOK'
  <2>1. req[r].pc # "done" /\ req'[r].pc # "done"
    BY <1>2, <1>4
  <2> QED BY <1>2, <1>3, <2>1, MarksStay DEF Inv
<1> QED BY <1>6, <1>7, <1>8, <1>9 DEF Inv

\* Reading the tail of the chain changes no entry (append).
LEMMA ReadLedgerPreserves ==
    ASSUME Inv, NEW r \in Request, ReadLedger(r) PROVE Inv'
<1>1. /\ req[r].pc = "append" /\ UNCHANGED <<award, req, sent, tampered>>
      /\ L!ReadLast(r, req[r].school, req[r].what)
  BY DEF ReadLedger, L!ReadLast
<1>2. PICK position \in L!Positions(req[r].school) :
          call' = [call EXCEPT ![r] =
                     [pc |-> "create", school |-> req[r].school,
                      entry |-> L!Entry(position.sequence, req[r].what, position.prevHash)]]
  BY <1>1 DEF L!ReadLast
<1>3. \A q \in Request \ {r} : call'[q] = call[q]
  BY <1>2 DEF Inv, CallsOK
<1>4. /\ call'[r].pc = "create" /\ call'[r].school = req[r].school
      /\ call'[r].entry.movement = req[r].what
  BY <1>2 DEF Inv, CallsOK, L!Entry
<1>5. call' = [q \in Request |-> call'[q]]
  BY <1>2 DEF Inv, CallsOK
<1>6. CallsOK'
  BY <1>1, <1>3, <1>4, <1>5 DEF Inv, CallsOK
<1>7. Shape'
  BY StepShape DEF Inv, Carry
<1> QED BY <1>1, <1>6, <1>7 DEF Inv, AwardsOK, MarksOK

\* An entry that is written is the one its caller asked for (append).
LEMMA WriteLedgerPreserves ==
    ASSUME Inv, LP!Inv, NEW r \in Request, WriteLedger(r) PROVE Inv'
<1>1. /\ req[r].pc = "append" /\ UNCHANGED <<award, sent, tampered>>
      /\ L!Create(r)
      /\ req' = [req EXCEPT ![r].pc = IF call'[r].pc = "failed" THEN "failed"
                                      ELSE IF req[r].what[1] = "local" THEN "done" ELSE "mark"]
  BY DEF WriteLedger, L!Create
<1>2. /\ call[r].pc = "create"
      /\ \/ call' = [call EXCEPT ![r].pc = "failed"]
         \/ call' = [call EXCEPT ![r].pc = "done"]
  BY <1>1 DEF L!Create
<1>3. \A q \in Request \ {r} : call'[q] = call[q] /\ req'[q] = req[q]
  BY <1>1, <1>2 DEF Inv, CallsOK, Shape
<1>4. /\ call'[r].school = call[r].school /\ call'[r].entry = call[r].entry
      /\ call'[r].pc \in {"failed", "done"}
  BY <1>2 DEF Inv, CallsOK, LP!Inv, LP!Shape, LP!IsCall
<1>5. /\ req'[r].school = req[r].school /\ req'[r].what = req[r].what
      /\ req'[r].pc = IF call'[r].pc = "failed" THEN "failed"
                      ELSE IF req[r].what[1] = "local" THEN "done" ELSE "mark"
  BY <1>1 DEF Inv, Shape, ReqOK
<1>6. call' = [q \in Request |-> call'[q]]
  BY <1>2 DEF Inv, CallsOK
<1>7. CallsOK'
  BY <1>1, <1>2, <1>3, <1>4, <1>5, <1>6 DEF Inv, CallsOK
<1>8. Shape'
  BY StepShape DEF Inv, Carry
<1>9. MarksOK'
  BY <1>1, <1>3, <1>4, <1>5, MarksStay DEF Inv
<1> QED BY <1>1, <1>7, <1>8, <1>9 DEF Inv, AwardsOK

\* A row is marked by a handler whose entry is written (disburse,
\* decideConditionalRelease).
LEMMA MarkPreserves ==
    ASSUME Inv, NEW r \in Request, Mark(r) PROVE Inv'
<1> DEFINE kind == req[r].what[1]
           a == req[r].what[2]
<1>1. /\ req[r].pc = "mark" /\ UNCHANGED <<rows, call, tampered, sent>>
      /\ award' = [award EXCEPT ![a] = Marked(@, kind)]
      /\ req' = [req EXCEPT ![r].pc = "done"]
  BY DEF Mark, ledger
<1>2. /\ kind \in {"award", "tranche"} /\ a \in Award
      /\ req[r].what = <<kind, a>>
  BY <1>1 DEF Inv, Shape, ReqOK, CallsOK, Movement
<1>3. \A q \in Request \ {r} : req'[q] = req[q]
  BY <1>1 DEF Inv, Shape
<1>4. /\ req'[r].what = req[r].what /\ req'[r].school = req[r].school
      /\ req'[r].pc = "done"
  BY <1>1 DEF Inv, Shape, ReqOK
<1>5. \A b \in Award \ {a} : award'[b] = award[b]
  BY <1>1 DEF Inv, AwardsOK
<1>6. /\ award'[a].paid = (award[a].paid \/ kind = "award")
      /\ award'[a].tranche = IF kind = "tranche" THEN "RELEASED" ELSE award[a].tranche
  BY <1>1, <1>2 DEF Inv, AwardsOK, Marked
<1>7. AwardsOK'
  BY <1>1, <1>2 DEF Inv, AwardsOK, Marked
<1>8. Shape'
  BY StepShape DEF Inv, Carry
<1>9. CallsOK'
  BY <1>1, <1>2, <1>3, <1>4 DEF Inv, CallsOK
<1>10. MarksOK'
  <2> HIDE DEF kind, a
  <2>1. ASSUME NEW b \in Award, award'[b].paid
        PROVE  \E q \in Request : req'[q].pc = "done" /\ req'[q].what = <<"award", b>>
    <3>1. CASE b = a /\ kind = "award"
      BY <1>2, <1>4, <3>1
    <3>2. CASE ~(b = a /\ kind = "award")
      <4>1. award[b].paid
        BY <1>5, <1>6, <2>1, <3>2
      <4> QED BY <1>1, <1>3, <4>1 DEF Inv, MarksOK
    <3> QED BY <3>1, <3>2
  <2>2. ASSUME NEW b \in Award, award'[b].tranche = "RELEASED"
        PROVE  \E q \in Request : req'[q].pc = "done" /\ req'[q].what = <<"tranche", b>>
    <3>1. CASE b = a /\ kind = "tranche"
      BY <1>2, <1>4, <3>1
    <3>2. CASE ~(b = a /\ kind = "tranche")
      <4>1. award[b].tranche = "RELEASED"
        BY <1>5, <1>6, <2>2, <3>2
      <4> QED BY <1>1, <1>3, <4>1 DEF Inv, MarksOK
    <3> QED BY <3>1, <3>2
  <2>3. ASSUME NEW q \in Request, NEW b \in Award, req'[q].pc = "done"
        PROVE  /\ req'[q].what = <<"award", b>> => award'[b].paid
               /\ req'[q].what = <<"tranche", b>> => award'[b].tranche = "RELEASED"
    <3>1. CASE q = r
      <4>1. /\ req'[q].what = <<"award", b>> => kind = "award" /\ a = b
            /\ req'[q].what = <<"tranche", b>> => kind = "tranche" /\ a = b
        BY <1>2, <1>4, <3>1
      <4> QED BY <1>6, <4>1
    <3>2. CASE q # r
      <4>1. /\ req'[q] = req[q]
            /\ req[q].what = <<"award", b>> => award[b].paid
            /\ req[q].what = <<"tranche", b>> => award[b].tranche = "RELEASED"
        BY <1>3, <2>3, <3>2 DEF Inv, MarksOK
      <4>2. /\ award[b].paid => award'[b].paid
            /\ award[b].tranche = "RELEASED" => award'[b].tranche = "RELEASED"
        BY <1>5, <1>6
      <4> QED BY <4>1, <4>2
    <3> QED BY <3>1, <3>2
  <2> QED BY <2>1, <2>2, <2>3 DEF MarksOK
<1> QED BY <1>7, <1>8, <1>9, <1>10 DEF Inv

\* A process that ends forgets its handlers, and what they wrote stays.
LEMMA StopPreserves ==
    ASSUME Inv, LP!Inv, NEW r \in Request, Stop(r) PROVE Inv'
<1>1. /\ req[r].pc \in {"pay", "append", "mark"} /\ UNCHANGED <<award, sent, tampered>>
      /\ req' = [req EXCEPT ![r].pc = "stopped"]
      /\ \/ call' = call
         \/ call[r].pc = "create" /\ call' = [call EXCEPT ![r].pc = "stopped"]
  BY DEF Stop, Running, ledger, L!Stop
<1>2. \A q \in Request \ {r} : call'[q] = call[q] /\ req'[q] = req[q]
  BY <1>1 DEF Inv, CallsOK, Shape
<1>3. /\ req'[r].what = req[r].what /\ req'[r].school = req[r].school
      /\ req'[r].pc = "stopped"
  BY <1>1 DEF Inv, Shape, ReqOK
<1>4. /\ call'[r].school = call[r].school /\ call'[r].entry = call[r].entry
      /\ call'[r].pc # "idle" => call[r].pc # "idle"
  BY <1>1 DEF Inv, CallsOK, LP!Inv, LP!Shape, LP!IsCall
<1>5. call' = [q \in Request |-> call'[q]]
  BY <1>1 DEF Inv, CallsOK
<1>6. CallsOK'
  BY <1>1, <1>2, <1>3, <1>4, <1>5 DEF Inv, CallsOK
<1>7. MarksOK'
  BY <1>1, <1>2, <1>3, MarksStay DEF Inv
<1>8. Shape'
  BY StepShape DEF Inv
<1> QED BY <1>1, <1>6, <1>7, <1>8 DEF Inv, AwardsOK

\* The invariant of the payments holds.
LEMMA InvHolds == Spec => []Inv
<1>1. Inv /\ LP!Inv /\ [Next]_vars => Inv'
  <2> SUFFICES ASSUME Inv, LP!Inv, [Next]_vars PROVE Inv'
    OBVIOUS
  <2>1. ASSUME NEW r \in Request, NEW a \in Award, Disburse(r, a) PROVE Inv'
    BY <2>1, StartPreserves, SchoolPayoutsAssumption DEF Disburse, Movement
  <2>2. ASSUME NEW r \in Request, NEW a \in Award, NEW gpaReached \in BOOLEAN,
               ReleaseTranche(r, a, gpaReached)
        PROVE  Inv'
    BY <2>2, StartPreserves, SchoolPayoutsAssumption DEF ReleaseTranche, Movement
  <2>3. ASSUME NEW r \in Request, NEW s \in School, PayoutToSchool(r, s) PROVE Inv'
    BY <2>3, StartPreserves DEF PayoutToSchool, Movement
  <2>4. ASSUME NEW r \in Request, Carry(r) PROVE Inv'
    BY <2>4, PayPreserves, ReadLedgerPreserves, WriteLedgerPreserves, MarkPreserves DEF Carry
  <2>5. ASSUME NEW r \in Request, Stop(r) PROVE Inv'
    BY <2>5, StopPreserves
  <2>6. ASSUME NEW s \in School, VerifyPayout(s) PROVE Inv'
    BY <2>6 DEF VerifyPayout, ledger, Inv, Shape, ReqOK, AwardsOK, CallsOK, MarksOK
  <2>7. CASE UNCHANGED vars
    BY <2>7 DEF vars, Inv, Shape, ReqOK, AwardsOK, CallsOK, MarksOK
  <2> QED BY <2>1, <2>2, <2>3, <2>4, <2>5, <2>6, <2>7 DEF Next
<1> QED BY <1>1, InvInit, LedgerInvHolds, PTL DEF Spec

\* A handler past its append has its entry in the ledger.
LEMMA AppendedIsBooked ==
    ASSUME Inv, LP!Inv, NEW r \in Request, call[r].pc = "done"
    PROVE  call[r].entry \in rows[req[r].school] /\ call[r].entry.movement = req[r].what
BY DEF Inv, CallsOK, LP!Inv, LP!AppendedStays

\* A row that says paid or released is booked (scholarship.service.ts, disburse
\* and releaseTranche).
THEOREM MarksAreBooked == Spec => []MarkedIsBooked
<1>1. Inv /\ LP!Inv => MarkedIsBooked
  <2> SUFFICES ASSUME Inv, LP!Inv, NEW a \in Award
               PROVE  /\ award[a].paid => Entries(<<"award", a>>) # {}
                      /\ award[a].tranche = "RELEASED" => Entries(<<"tranche", a>>) # {}
    BY DEF MarkedIsBooked
  <2>1. ASSUME NEW r \in Request, req[r].pc = "done" PROVE Entries(req[r].what) # {}
    <3>1. call[r].entry \in rows[req[r].school] /\ call[r].entry.movement = req[r].what
      BY <2>1, AppendedIsBooked DEF Inv, CallsOK
    <3>2. req[r].school \in School
      BY <2>1 DEF Inv, Shape, ReqOK
    <3> QED BY <3>1, <3>2 DEF Entries
  <2> QED BY <2>1 DEF Inv, MarksOK
<1> QED BY <1>1, InvHolds, LedgerInvHolds, PTL

\* Success is answered only for what is booked and marked.
THEOREM SuccessIsAlwaysRecorded == Spec => []SuccessIsRecorded
<1>1. Inv /\ LP!Inv => SuccessIsRecorded
  <2> SUFFICES ASSUME Inv, LP!Inv, NEW r \in Request, req[r].pc = "done"
               PROVE  /\ call[r].entry \in rows[req[r].school]
                      /\ call[r].entry.movement = req[r].what
                      /\ req[r].what[1] = "award" => award[req[r].what[2]].paid
                      /\ req[r].what[1] = "tranche" =>
                          award[req[r].what[2]].tranche = "RELEASED"
    BY DEF SuccessIsRecorded
  <2>1. /\ call[r].entry \in rows[req[r].school]
        /\ call[r].entry.movement = req[r].what
    BY AppendedIsBooked DEF Inv, CallsOK
  <2>2. req[r].what \in Movement
    BY DEF Inv, Shape, ReqOK
  <2> QED BY <2>1, <2>2 DEF Inv, MarksOK, Movement
<1> QED BY <1>1, InvHolds, LedgerInvHolds, PTL

\* A payout in local currency is booked only when it was made (fx.service.ts,
\* payoutToSchool).
THEOREM LocalEntriesAreAlwaysPaid == Spec => []LocalEntriesArePaid
<1>1. Inv /\ LP!Inv => LocalEntriesArePaid
  <2> SUFFICES ASSUME Inv, LP!Inv, NEW r \in Request, NEW s \in School,
                      NEW e \in rows[s], e.movement = <<"local", r>>
               PROVE  r \in sent
    BY DEF LocalEntriesArePaid, Entries
  <2>1. PICK q \in Request : call[q] = [pc |-> "done", school |-> s, entry |-> e]
    BY DEF Inv, CallsOK, LP!Inv, LP!Returned, LP!Intact
  <2>2. req[q].what = <<"local", r>>
    BY <2>1 DEF Inv, CallsOK
  <2>3. q \in sent /\ q = r
    BY <2>1, <2>2 DEF Inv, CallsOK
  <2> QED BY <2>3
<1> QED BY <1>1, InvHolds, LedgerInvHolds, PTL

-----------------------------------------------------------------------------
(* Handlers that neither overlap nor die.                                  *)

\* Finitely many handlers run, one more with every request that starts.
FewRun == IsFiniteSet({r \in Request : Running(r)})

\* The rest of the types.
RestOK == verified \subseteq School /\ toggles \in 0 .. MaxToggles /\ sent \subseteq Request

\* In the beginning no handler runs.
LEMMA FewRunInit == Init => FewRun /\ RestOK
<1> SUFFICES ASSUME Init PROVE FewRun /\ RestOK
  OBVIOUS
<1>1. {r \in Request : Running(r)} = {}
  BY DEF Init, Running
<1>2. FewRun
  BY <1>1, FS_EmptySet DEF FewRun
<1>3. toggles \in 0 .. MaxToggles
  BY SchoolPayoutsAssumption DEF Init, SchoolPayoutsAssumption
<1> QED BY <1>2, <1>3 DEF RestOK, Init

\* A step starts one handler at the most.
LEMMA FewRunStep == Shape /\ FewRun /\ RestOK /\ [Next]_vars => FewRun' /\ RestOK'
<1> SUFFICES ASSUME Shape, FewRun, RestOK, [Next]_vars PROVE FewRun' /\ RestOK'
  OBVIOUS
<1> DEFINE Busy == {r \in Request : Running(r)}
           Later == {r \in Request : req'[r].pc \in {"pay", "append", "mark"}}
<1>1. ASSUME NEW r \in Request, \A q \in Request \ {r} : req'[q] = req[q] PROVE FewRun'
  <2>1. Later \subseteq Busy \cup {r}
    BY <1>1 DEF Running
  <2>2. IsFiniteSet(Busy \cup {r})
    BY FS_AddElement DEF FewRun
  <2>3. IsFiniteSet(Later)
    BY <2>1, <2>2, FS_Subset
  <2> QED BY <2>3 DEF FewRun, Running
<1>2. ASSUME NEW r \in Request, NEW what, NEW s, Start(r, what, s) PROVE FewRun' /\ RestOK'
  <2>1. \A q \in Request \ {r} : req'[q] = req[q]
    BY <1>2 DEF Start, Shape
  <2> QED BY <1>1, <1>2, <2>1 DEF Start, RestOK
<1>3. ASSUME NEW r \in Request, Carry(r) \/ Stop(r) PROVE FewRun' /\ RestOK'
  <2>1. \A q \in Request \ {r} : req'[q] = req[q]
    BY <1>3 DEF Carry, Pay, ReadLedger, WriteLedger, Mark, Stop, Shape
  <2>2. RestOK'
    BY <1>3 DEF Carry, Pay, ReadLedger, WriteLedger, Mark, Stop, RestOK
  <2> QED BY <1>1, <2>1, <2>2
<1>4. ASSUME NEW s \in School, VerifyPayout(s) PROVE FewRun' /\ RestOK'
  <2>1. toggles' \in 0 .. MaxToggles
    BY <1>4, SchoolPayoutsAssumption DEF VerifyPayout, RestOK, SchoolPayoutsAssumption
  <2>2. verified' \subseteq School /\ sent' = sent /\ req' = req
    BY <1>4 DEF VerifyPayout, RestOK
  <2> QED BY <2>1, <2>2 DEF FewRun, Running, RestOK
<1>5. CASE UNCHANGED vars
  BY <1>5 DEF vars, FewRun, Running, RestOK
<1> QED BY <1>2, <1>3, <1>4, <1>5 DEF Next, Disburse, ReleaseTranche, PayoutToSchool

\* The handlers that run can be counted.
LEMMA FewAlwaysRun == Spec => [](FewRun /\ RestOK)
BY FewRunInit, FewRunStep, ShapeHolds, PTL DEF Spec

\* What holds as long as handlers do not overlap or die.  A handler between its two
\* steps in the ledger is the only one there, so that its number is free; a handler
\* that failed was told that there was no transfer; and what one handler serves no
\* other serves again, because the row was marked before the other looked.
LoneHandler(r) ==
    /\ req[r].pc # "stopped"
    /\ req[r].pc \in {"idle", "pay"} => r \notin sent
    /\ req[r].pc = "failed" => r \notin sent /\ req[r].what[1] = "local"
    /\ call[r].pc = "create" => /\ req[r].pc = "append"
                                /\ ~L!IsTaken(call[r].school, call[r].entry.sequence)

\* Nothing is paid by two handlers.
OneServes ==
    \A q, r \in Request :
        req[q].pc # "idle" /\ req[r].pc # "idle" /\ req[q].what = req[r].what => q = r

\* No two handlers run.
OneRuns == \A q, r \in Request : Running(q) /\ Running(r) => q = r

\* What holds as long as handlers neither overlap nor die.
Lone == OneRuns /\ OneServes /\ \A r \in Request : LoneHandler(r)

\* A step of one handler, when no other runs.
LEMMA LoneStep ==
    ASSUME Lone, NEW r \in Request,
        \A q \in Request \ {r} : req'[q] = req[q] /\ call'[q] = call[q],
           OneRuns', req'[r].what = req[r].what, req[r].pc # "idle",
           \A q \in Request \ {r} : q \in sent' => q \in sent,
           rows' = rows \/ call[r].pc = "create",
           LoneHandler(r)'
    PROVE  Lone'
<1>1. ASSUME NEW q \in Request, q # r PROVE LoneHandler(q)'
  <2>1. req'[q] = req[q] /\ call'[q] = call[q] /\ LoneHandler(q) /\ LoneHandler(r)
    BY <1>1 DEF Lone
  <2>2. call[q].pc = "create" => rows' = rows
    <3>1. ASSUME call[q].pc = "create", call[r].pc = "create" PROVE FALSE
      BY <1>1, <2>1, <3>1 DEF Lone, OneRuns, LoneHandler, Running
    <3> QED BY <3>1
  <2> QED BY <1>1, <2>1, <2>2 DEF LoneHandler, L!IsTaken
<1>2. OneServes'
  BY DEF Lone, OneServes
<1> QED BY <1>1, <1>2 DEF Lone

\* A request is accepted that nobody has served.
LEMMA LoneStart ==
    ASSUME Inv, Lone, NEW r \in Request, NEW what \in Movement, NEW s \in School,
           Start(r, what, s), OneRuns',
           \A q \in Request : req[q].pc # "idle" => req[q].what # what
    PROVE  Lone'
<1>1. /\ req[r].pc = "idle" /\ UNCHANGED <<rows, call, sent>>
      /\ req' = [req EXCEPT ![r] = [pc |-> "pay", what |-> what, school |-> s]]
  BY DEF Start, ledger
<1>2. /\ req'[r].pc = "pay" /\ req'[r].what = what
      /\ \A q \in Request \ {r} : req'[q] = req[q]
  BY <1>1 DEF Inv, Shape
<1>3. OneServes'
  BY <1>1, <1>2 DEF Lone, OneServes
<1>4. LoneHandler(r)'
  BY <1>1, <1>2 DEF Lone, LoneHandler
<1>5. ASSUME NEW q \in Request, q # r PROVE LoneHandler(q)'
  BY <1>1, <1>2, <1>5 DEF Lone, LoneHandler, L!IsTaken
<1> QED BY <1>3, <1>4, <1>5 DEF Lone

\* Whoever served a request that is made alone has ended: it answered success, or
\* failed to make a payout of its own.
LEMMA OthersHaveEnded ==
    ASSUME Inv, Lone, OneRuns', NEW r \in Request, req[r].pc = "idle", Running(r)',
           \A q \in Request \ {r} : req'[q] = req[q],
           NEW q \in Request, req[q].pc # "idle"
    PROVE  req[q].pc = "done" \/ (req[q].pc = "failed" /\ req[q].what[1] = "local")
<1>1. q # r /\ req'[q] = req[q]
  OBVIOUS
<1>2. ~Running(q)
  BY <1>1 DEF OneRuns, Running
<1> QED BY <1>2 DEF Inv, Shape, ReqOK, Lone, LoneHandler, Running

\* Who starts alone finds a row that is not paid, and nobody else serves it.
LEMMA LoneStarts ==
    ASSUME Inv, Lone, NEW r \in Request, NEW what \in Movement, NEW s \in School,
           Start(r, what, s), OneRuns',
           what[1] = "local" => what[2] = r,
           \A a \in Award : what = <<"award", a>> => ~award[a].paid,
           \A a \in Award : what = <<"tranche", a>> => award[a].tranche = "HELD"
    PROVE  Lone'
<1>1. /\ req[r].pc = "idle"
      /\ req' = [req EXCEPT ![r] = [pc |-> "pay", what |-> what, school |-> s]]
  BY DEF Start
<1>2. Running(r)' /\ \A q \in Request \ {r} : req'[q] = req[q]
  BY <1>1 DEF Inv, Shape, Running
<1>3. ASSUME NEW q \in Request, req[q].pc # "idle", req[q].what = what PROVE FALSE
  <2>1. q # r
    BY <1>1, <1>3
  <2>2. what[1] # "local"
    BY <1>3, <2>1 DEF Inv, CallsOK
  <2>3. PICK a \in Award : what = <<"award", a>> \/ what = <<"tranche", a>>
    BY <2>2 DEF Movement
  <2>4. req[q].pc = "done"
    BY <1>1, <1>2, <1>3, <2>2, OthersHaveEnded
  <2>5. /\ req[q].what = <<"award", a>> => award[a].paid
        /\ req[q].what = <<"tranche", a>> => award[a].tranche = "RELEASED"
    BY <2>4 DEF Inv, MarksOK
  <2> QED BY <1>3, <2>3, <2>5
<1> QED BY <1>3, LoneStart

\* A transfer by the only handler.
LEMMA LonePay ==
    ASSUME Inv, Lone, NEW r \in Request, Pay(r), OneRuns'
    PROVE  Lone'
<1>1. PICK outcome \in Outcomes :
          /\ sent' = IF outcome = "SENT" THEN sent \cup {r} ELSE sent
          /\ req' = [req EXCEPT ![r].pc = IF GoesOn(req[r].what, outcome)
                                          THEN "append" ELSE "failed"]
  BY DEF Pay
<1>2. req[r].pc = "pay" /\ UNCHANGED <<rows, call>>
  BY DEF Pay, ledger
<1>3. \A q \in Request \ {r} : req'[q] = req[q] /\ call'[q] = call[q]
  BY <1>1, <1>2 DEF Inv, Shape
<1>4. /\ req'[r].what = req[r].what
      /\ req'[r].pc = IF GoesOn(req[r].what, outcome) THEN "append" ELSE "failed"
  BY <1>1, <1>2 DEF Inv, Shape, ReqOK
<1>5. r \notin sent /\ call[r].pc = "idle"
  BY <1>2 DEF Lone, LoneHandler, Inv, CallsOK
<1>6. req'[r].pc = "failed" => r \notin sent' /\ req'[r].what[1] = "local"
  BY <1>1, <1>4, <1>5 DEF GoesOn
<1>7. LoneHandler(r)'
  BY <1>2, <1>4, <1>5, <1>6 DEF LoneHandler
<1> QED BY <1>1, <1>2, <1>3, <1>4, <1>7, LoneStep

\* A call of the ledger that reads the tail finds its sequence free.
LEMMA LoneRead ==
    ASSUME Inv, LP!Inv, Lone, NEW r \in Request, ReadLedger(r), OneRuns'
    PROVE  Lone'
<1>1. PICK s \in School : s = req[r].school
  BY DEF ReadLedger, Inv, Shape, ReqOK
<1>2. /\ req[r].pc = "append" /\ UNCHANGED <<rows, req, sent>>
      /\ L!ReadLast(r, s, req[r].what)
  BY <1>1 DEF ReadLedger, L!ReadLast
<1>3. PICK position \in L!Positions(s) :
          call' = [call EXCEPT ![r] =
                     [pc |-> "create", school |-> s,
                      entry |-> L!Entry(position.sequence, req[r].what, position.prevHash)]]
  BY <1>2 DEF L!ReadLast
<1>4. /\ \A q \in Request \ {r} : call'[q] = call[q]
      /\ call'[r].pc = "create" /\ call'[r].school = s
      /\ call'[r].entry.sequence = position.sequence
  BY <1>3 DEF Inv, CallsOK, L!Entry
<1>5. \A e \in rows[s] : e.sequence # position.sequence
  <2>1. \A e \in rows[s] : e.sequence \in Nat
    BY DEF LP!Inv, LP!Shape, LP!IsEntry
  <2>2. CASE rows[s] = {}
    BY <2>2
  <2>3. CASE rows[s] # {}
    <3>1. PICK last \in rows[s] : L!IsLast(last, rows[s]) /\ position = L!NextPosition(last)
      BY <2>3 DEF L!Positions
    <3>2. position.sequence = last.sequence + 1
      BY <3>1 DEF L!NextPosition
    <3> QED BY <2>1, <3>1, <3>2 DEF L!IsLast
  <2> QED BY <2>2, <2>3
<1>6. ~L!IsTaken(call[r].school, call[r].entry.sequence)'
  BY <1>2, <1>4, <1>5 DEF L!IsTaken
<1>7. LoneHandler(r)'
  BY <1>2, <1>4, <1>6 DEF Lone, LoneHandler
<1> QED BY <1>2, <1>4, <1>7, LoneStep

\* A call of the ledger by the only handler cannot collide (append).
LEMMA LoneWrite ==
    ASSUME Inv, LP!Inv, Lone, NEW r \in Request, WriteLedger(r), OneRuns'
    PROVE  Lone'
<1>1. /\ req[r].pc = "append" /\ sent' = sent /\ L!Create(r)
      /\ req' = [req EXCEPT ![r].pc = IF call'[r].pc = "failed" THEN "failed"
                                      ELSE IF req[r].what[1] = "local" THEN "done" ELSE "mark"]
  BY DEF WriteLedger
<1>2. call[r].pc = "create" /\ ~L!IsTaken(call[r].school, call[r].entry.sequence)
  BY <1>1 DEF L!Create, Lone, LoneHandler
<1>3. call' = [call EXCEPT ![r].pc = "done"]
  BY <1>1, <1>2 DEF L!Create
<1>4. call'[r].pc = "done" /\ \A q \in Request \ {r} : call'[q] = call[q] /\ req'[q] = req[q]
  BY <1>1, <1>2, <1>3 DEF Inv, CallsOK, Shape, LP!Inv, LP!Shape, LP!IsCall
<1>5. req'[r].what = req[r].what /\ req'[r].pc \in {"done", "mark"}
  BY <1>1, <1>4 DEF Inv, Shape, ReqOK
<1>6. LoneHandler(r)'
  BY <1>4, <1>5 DEF LoneHandler
<1> QED BY <1>1, <1>2, <1>4, <1>5, <1>6, LoneStep

\* The only handler marks what it has paid.
LEMMA LoneMark ==
    ASSUME Inv, Lone, NEW r \in Request, Mark(r), OneRuns'
    PROVE  Lone'
<1>1. /\ req[r].pc = "mark" /\ UNCHANGED <<rows, call, sent>>
      /\ req' = [req EXCEPT ![r].pc = "done"]
  BY DEF Mark, ledger
<1>2. /\ \A q \in Request \ {r} : req'[q] = req[q]
      /\ req'[r].what = req[r].what /\ req'[r].pc = "done"
  BY <1>1 DEF Inv, Shape, ReqOK
<1>3. call[r].pc # "create"
  BY <1>1 DEF Lone, LoneHandler
<1>4. LoneHandler(r)'
  BY <1>1, <1>2, <1>3 DEF LoneHandler
<1> QED BY <1>1, <1>2, <1>4, LoneStep

\* What the history variable says: no handler died, and no two run.
Alone == alone => Lone

\* No step of a handler that runs alone breaks what holds of it.
LEMMA AloneStep == Inv /\ LP!Inv /\ FewRun' /\ Alone /\ [MCNext]_<<vars, alone>> => Alone'
<1> SUFFICES ASSUME Inv, LP!Inv, FewRun', Alone, [MCNext]_<<vars, alone>>, alone' PROVE Lone'
  BY DEF Alone
<1>1. CASE UNCHANGED <<vars, alone>>
  BY <1>1 DEF vars, Alone, Lone, OneRuns, OneServes, LoneHandler, Running, L!IsTaken
<1>2. CASE MCNext
  <2>1. /\ Next /\ alone /\ Stopped' = {}
        /\ Cardinality({r \in Request : Running(r)'}) <= 1
    BY <1>2 DEF MCNext
  <2>2. Lone
    BY <2>1 DEF Alone
  <2>3. OneRuns'
    <3> DEFINE Busy == {r \in Request : req'[r].pc \in {"pay", "append", "mark"}}
    <3>1. IsFiniteSet(Busy) /\ Cardinality(Busy) <= 1
      BY <2>1 DEF FewRun, Running
    <3>2. \A q, r \in Busy : q = r
      BY <3>1, OneAtMost
    <3> QED BY <3>2 DEF OneRuns, Running
  <2>4. ASSUME NEW r \in Request, NEW a \in Award, Disburse(r, a) PROVE Lone'
    <3>1. /\ Start(r, <<"award", a>>, SchoolOf[a]) /\ ~award[a].paid
          /\ <<"award", a>> \in Movement /\ SchoolOf[a] \in School
      BY <2>4, SchoolPayoutsAssumption DEF Disburse, Payable, Movement, SchoolPayoutsAssumption
    <3> QED BY <2>2, <2>3, <3>1, LoneStarts
  <2>5. ASSUME NEW r \in Request, NEW a \in Award, NEW gpaReached \in BOOLEAN,
               ReleaseTranche(r, a, gpaReached)
        PROVE  Lone'
    <3>1. /\ Start(r, <<"tranche", a>>, SchoolOf[a]) /\ award[a].tranche = "HELD"
          /\ <<"tranche", a>> \in Movement /\ SchoolOf[a] \in School
      BY <2>5, SchoolPayoutsAssumption DEF ReleaseTranche, Movement, SchoolPayoutsAssumption
    <3> QED BY <2>2, <2>3, <3>1, LoneStarts
  <2>6. ASSUME NEW r \in Request, NEW s \in School, PayoutToSchool(r, s) PROVE Lone'
    <3>1. Start(r, <<"local", r>>, s) /\ <<"local", r>> \in Movement
      BY <2>6 DEF PayoutToSchool, Movement
    <3> QED BY <2>2, <2>3, <3>1, LoneStarts
  <2>7. ASSUME NEW r \in Request, Carry(r) PROVE Lone'
    BY <2>2, <2>3, <2>7, LonePay, LoneRead, LoneWrite, LoneMark DEF Carry
  <2>8. ASSUME NEW r \in Request, Stop(r) PROVE FALSE
    <3>1. req'[r].pc = "stopped"
      BY <2>8 DEF Stop, Inv, Shape, ReqOK, Running
    <3> QED BY <2>1, <3>1 DEF Stopped
  <2>9. ASSUME NEW s \in School, VerifyPayout(s) PROVE Lone'
    BY <2>2, <2>3, <2>9 DEF VerifyPayout, ledger, Lone, OneServes, LoneHandler, L!IsTaken
  <2> QED BY <2>1, <2>4, <2>5, <2>6, <2>7, <2>8, <2>9 DEF Next
<1> QED BY <1>1, <1>2

\* In the beginning no handler runs.
LEMMA AloneInit == Init => Alone
BY DEF Init, L!Init, Alone, Lone, OneRuns, OneServes, LoneHandler, Running

\* What an instance adds to the handlers is history only.
LEMMA InstanceRefines == MCSpec => Spec
<1>1. MCInit => Init
  BY DEF MCInit
<1>2. [MCNext]_<<vars, alone>> => [Next]_vars
  BY DEF MCNext
<1> QED BY <1>1, <1>2, PTL DEF MCSpec, Spec

\* What holds of handlers that run alone does so as long as they do.
LEMMA AloneHolds == MCSpec => []Alone
<1>1. MCInit => Alone
  BY AloneInit DEF MCInit
<1> QED BY <1>1, AloneStep, InvHolds, LedgerInvHolds, FewAlwaysRun, InstanceRefines, PTL
   DEF MCSpec

\* As long as handlers do not overlap or die an award, and its tranche, is
\* transferred once, for any number of requests, awards and schools.
THEOREM AwardsArePaidOnceAlone == MCSpec => []AwardPaidOnceAlone
<1>1. Alone => AwardPaidOnceAlone
  <2> SUFFICES ASSUME Lone, NEW what \in Movement
               PROVE  Cardinality(Served(what) \cap sent) <= 1
    BY DEF Alone, AwardPaidOnceAlone, AwardPaidOnce
  <2> DEFINE S == Served(what) \cap sent
  <2>1. \A q, r \in S : q = r
    BY DEF Served, Lone, OneServes
  <2>2. CASE S = {}
    BY <2>2, FS_EmptySet
  <2>3. CASE S # {}
    <3>1. PICK r : S = {r}
      BY <2>1, <2>3
    <3> QED BY <3>1, FS_Singleton
  <2> QED BY <2>2, <2>3
<1> QED BY <1>1, AloneHolds, PTL

\* As long as handlers do not overlap or die, no transfer is left without its entry.
THEOREM PayoutsAreBookedAlone == MCSpec => []EveryPayoutIsBookedAlone
<1>1. Inv /\ LP!Inv /\ RestOK /\ Alone => EveryPayoutIsBookedAlone
  <2> SUFFICES ASSUME Inv, LP!Inv, Lone, NEW r \in Request, r \in sent, Finished(r)
               PROVE  \E e \in Entries(req[r].what) : e = call[r].entry
    BY DEF RestOK, Alone, EveryPayoutIsBookedAlone, EveryPayoutIsBooked
  <2>1. req[r].pc = "done"
    BY DEF Finished, Lone, LoneHandler
  <2>2. call[r].entry \in rows[req[r].school] /\ call[r].entry.movement = req[r].what
    BY <2>1, AppendedIsBooked DEF Inv, CallsOK
  <2>3. req[r].school \in School
    BY <2>1 DEF Inv, Shape, ReqOK
  <2> QED BY <2>2, <2>3 DEF Entries
<1> QED BY <1>1, AloneHolds, InvHolds, LedgerInvHolds, FewAlwaysRun, InstanceRefines, PTL

\* The types of the handlers, of the awards and of the schools.
THEOREM PayoutTypes == Spec => []TypeOK
<1>1. Inv /\ RestOK => TypeOK
  BY DEF Inv, AwardsOK, Shape, ReqOK, RestOK, TypeOK
<1> QED BY <1>1, InvHolds, FewAlwaysRun, PTL

-----------------------------------------------------------------------------
(* Cases of students and sponsors: no one is verified without a reason, and *)
(* what was found out is used.                                              *)

\* What earns a verification by itself.
Earned(row) ==
    \/ row.liveness = "passed" /\ row.document = "matched"
    \/ row.aml = "CLEAR"

\* What a request holds is about a case that exists, and rests on results that are
\* stored: a document is only read after the liveness check was passed, and
\* VERIFIED is only written for what earns it.
HeldIsEarned(r) ==
    /\ kycRequest[r].step \in {"liveness", "document", "status", "review"} =>
           kycRequest[r].case \in DOMAIN kycCases
    /\ kycRequest[r].step = "document" => kycCases[kycRequest[r].case].liveness = "passed"
    /\ kycRequest[r].step = "status" =>
           /\ kycRequest[r].to = "VERIFIED" => Earned(kycCases[kycRequest[r].case])
           /\ kycRequest[r].to = "LIVENESS_PASSED" =>
               kycCases[kycRequest[r].case].liveness = "passed"

\* The status of a case rests on its results.
StatusIsEarned(row) ==
    /\ row.status = "VERIFIED" => Earned(row) \/ row.queue = "APPROVED"
    /\ row.status = "LIVENESS_PASSED" => row.liveness = "passed"

\* The inductive invariant.  Results are written once, so that what a request read
\* of them still holds when it writes; the status, which anybody may write late, is
\* never more than the results and the reviewer give.
CasesChecked ==
    /\ kycRequest = [r \in Hand |-> kycRequest[r]]
    /\ \A r \in Hand : HeldIsEarned(r)
    /\ kycCases = [c \in DOMAIN kycCases |-> kycCases[c]]
    /\ \A c \in DOMAIN kycCases : StatusIsEarned(kycCases[c])

\* Rows stay, and so do the results that they have.
ResultsStay ==
    /\ DOMAIN kycCases \subseteq DOMAIN kycCases'
    /\ \A c \in DOMAIN kycCases :
          /\ kycCases[c].liveness = "passed" => kycCases'[c].liveness = "passed"
          /\ kycCases[c].document = "matched" => kycCases'[c].document = "matched"
          /\ kycCases[c].aml = "CLEAR" => kycCases'[c].aml = "CLEAR"

\* Before the first case there is nothing to earn.
LEMMA KycInitChecked == Kyc!Init => CasesChecked
<1> SUFFICES ASSUME Kyc!Init PROVE CasesChecked
  OBVIOUS
<1>1. DOMAIN kycCases = {} /\ kycCases = [c \in DOMAIN kycCases |-> kycCases[c]]
  BY DEF Kyc!Init
<1> QED
  BY <1>1 DEF Kyc!Init, CasesChecked, HeldIsEarned, Kyc!Idle

\* What a request holds survives the steps of others.
LEMMA HeldStays ==
    ASSUME NEW q \in Hand, HeldIsEarned(q), kycRequest'[q] = kycRequest[q], ResultsStay
    PROVE  HeldIsEarned(q)'
BY DEF HeldIsEarned, ResultsStay, Earned

\* A step of one request that leaves its own next state right, and every row, is right.
LEMMA StepOfOne ==
    ASSUME NEW r \in Hand, NEW next, CasesChecked, Kyc!Continue(r, next), ResultsStay,
           HeldIsEarned(r)', kycCases' = [c \in DOMAIN kycCases' |-> kycCases'[c]],
           \A c \in DOMAIN kycCases' : StatusIsEarned(kycCases'[c])
    PROVE  CasesChecked'
<1>1. kycRequest' = [q \in Hand |-> kycRequest'[q]]
  BY DEF CasesChecked, Kyc!Continue
<1>2. ASSUME NEW q \in Hand \ {r} PROVE HeldIsEarned(q)'
  <2>1. kycRequest'[q] = kycRequest[q]
    BY DEF CasesChecked, Kyc!Continue
  <2> QED
    BY <2>1, HeldStays DEF CasesChecked
<1> QED
  BY <1>1, <1>2 DEF CasesChecked

\* A step that only asks or gives up.
LEMMA NoRowChanges ==
    ASSUME NEW r \in Hand, NEW next, CasesChecked, Kyc!Continue(r, next), kycCases' = kycCases,
           HeldIsEarned(r)'
    PROVE  CasesChecked'
<1>1. ResultsStay
  BY DEF ResultsStay
<1> QED
  BY <1>1, StepOfOne DEF CasesChecked

\* A check that passes is stored before its case goes on (runLiveness, runDocument).
LEMMA RunChecked ==
    ASSUME CasesChecked, NEW r \in Hand, NEW c \in DOMAIN kycCases
    PROVE  /\ Kyc!RunLiveness(r, c) => CasesChecked'
           /\ \A claimed \in KycName : Kyc!RunDocument(r, c, claimed) => CasesChecked'
           /\ \A verdict \in {"APPROVE", "REJECT"} : Kyc!Decide(r, c, verdict) => CasesChecked'
<1>1. ASSUME Kyc!RunLiveness(r, c) PROVE CasesChecked'
  <2>1. kycRequest'[r] = [step |-> "liveness", case |-> c] /\ kycCases' = kycCases
    BY <1>1 DEF Kyc!RunLiveness, Kyc!Continue, CasesChecked
  <2> QED
    BY <1>1, <2>1, NoRowChanges DEF Kyc!RunLiveness, HeldIsEarned
<1>2. ASSUME NEW claimed \in KycName, Kyc!RunDocument(r, c, claimed) PROVE CasesChecked'
  <2>1. kycRequest'[r] = [step |-> "document", case |-> c, claimed |-> claimed] /\
            kycCases' = kycCases
    BY <1>2 DEF Kyc!RunDocument, Kyc!Continue, CasesChecked
  <2>2. kycCases[c].liveness = "passed"
    BY <1>2 DEF Kyc!RunDocument, CasesChecked, StatusIsEarned
  <2> QED
    BY <1>2, <2>1, <2>2, NoRowChanges DEF Kyc!RunDocument, HeldIsEarned
<1>3. ASSUME NEW verdict \in {"APPROVE", "REJECT"}, Kyc!Decide(r, c, verdict)
      PROVE CasesChecked'
  <2>1. kycRequest'[r] = [step |-> "review", case |-> c, verdict |-> verdict] /\
            kycCases' = kycCases
    BY <1>3 DEF Kyc!Decide, Kyc!Continue, CasesChecked
  <2> QED
    BY <1>3, <2>1, NoRowChanges DEF Kyc!Decide, HeldIsEarned
<1> QED
  BY <1>1, <1>2, <1>3

\* A provider that fails stores nothing.
LEMMA FailChecked ==
    ASSUME CasesChecked, NEW r \in Hand, Kyc!Fail(r)
    PROVE  CasesChecked'
<1>1. kycRequest'[r] = Kyc!Idle /\ kycCases' = kycCases
  BY DEF Kyc!Fail, Kyc!Continue, CasesChecked
<1> QED
  BY <1>1, NoRowChanges DEF Kyc!Fail, HeldIsEarned, Kyc!Idle

\* A row that is inserted leaves the others alone.
LEMMA Inserted ==
    ASSUME CasesChecked, NEW c, c \notin DOMAIN kycCases, NEW row, Kyc!Insert(c, row),
        StatusIsEarned(row)
    PROVE  /\ ResultsStay
           /\ kycCases' = [d \in DOMAIN kycCases' |-> kycCases'[d]]
           /\ DOMAIN kycCases' = DOMAIN kycCases \cup {c} /\ kycCases'[c] = row
           /\ \A d \in DOMAIN kycCases' : StatusIsEarned(kycCases'[d])
<1>1. DOMAIN kycCases' = DOMAIN kycCases \cup {c}
  BY DEF Kyc!Insert
<1>2. kycCases'[c] = row /\ \A d \in DOMAIN kycCases : kycCases'[d] = kycCases[d]
  BY DEF Kyc!Insert
<1>3. kycCases' = [d \in DOMAIN kycCases' |-> kycCases'[d]]
  BY DEF Kyc!Insert
<1> QED
  BY <1>1, <1>2, <1>3 DEF ResultsStay, CasesChecked

\* A case that starts has earned nothing (startCase).
LEMMA StartChecked ==
    ASSUME CasesChecked, NEW r \in Hand, NEW c \in KycCase, NEW admission,
        Kyc!StartCase(r, c, admission)
    PROVE  CasesChecked'
<1> DEFINE row == [Kyc!NewCase EXCEPT !.admission = admission]
<1>1. StatusIsEarned(row)
  BY DEF StatusIsEarned, Kyc!NewCase
<1>2. /\ ResultsStay /\ kycCases' = [d \in DOMAIN kycCases' |-> kycCases'[d]]
      /\ \A d \in DOMAIN kycCases' : StatusIsEarned(kycCases'[d])
  BY <1>1, Inserted DEF Kyc!StartCase
<1>3. ASSUME NEW q \in Hand PROVE HeldIsEarned(q)'
  BY <1>2, HeldStays DEF Kyc!StartCase, CasesChecked
<1> QED
  BY <1>2, <1>3 DEF Kyc!StartCase, CasesChecked

\* A screening that clears earns the verification that it asks for (screen).
LEMMA ScreenChecked ==
    ASSUME CasesChecked, NEW r \in Hand, NEW c \in KycCase, NEW large \in BOOLEAN,
        NEW hit \in BOOLEAN,
           NEW country \in Kyc!Countries, Kyc!ScreenSponsor(r, c, large, country, hit)
    PROVE  CasesChecked'
<1> DEFINE decision == Kyc!DecideAml(large, country, hit)
           row == [Kyc!NewCase EXCEPT !.subject = "SPONSOR", !.aml = decision]
           next == [step |-> "status", case |-> c, risk |-> "LOW",
               to |-> Kyc!NextAfterAml(decision)]
<1>1. StatusIsEarned(row) /\ row.aml = decision
  BY DEF StatusIsEarned, Kyc!NewCase
<1>2. /\ ResultsStay /\ kycCases' = [d \in DOMAIN kycCases' |-> kycCases'[d]]
      /\ DOMAIN kycCases' = DOMAIN kycCases \cup {c} /\ kycCases'[c] = row
      /\ \A d \in DOMAIN kycCases' : StatusIsEarned(kycCases'[d])
  BY <1>1, Inserted DEF Kyc!ScreenSponsor
<1>3. Kyc!Continue(r, next) /\ kycRequest'[r] = next
  BY DEF Kyc!ScreenSponsor, Kyc!Continue, CasesChecked
<1>4. next.to = "VERIFIED" => decision = "CLEAR"
  BY DEF Kyc!NextAfterAml
<1>5. next.to # "LIVENESS_PASSED"
  BY DEF Kyc!NextAfterAml
<1>6. /\ kycRequest'[r].step = "status" /\ kycRequest'[r].case = c
      /\ kycRequest'[r].to = "VERIFIED" => kycCases'[c].aml = "CLEAR"
      /\ kycRequest'[r].to # "LIVENESS_PASSED" /\ c \in DOMAIN kycCases'
  <2>1. next.step = "status" /\ next.case = c
    OBVIOUS
  <2>2. kycCases'[c].aml = decision
    BY <1>1, <1>2
  <2> QED
    BY <1>2, <1>3, <1>4, <1>5, <2>1, <2>2
<1>7. HeldIsEarned(r)'
  BY <1>6 DEF HeldIsEarned, Earned
<1> HIDE DEF next, row
<1> QED
  BY <1>2, <1>3, <1>7, StepOfOne

\* A row is changed in one place, which earns it no less.
LEMMA Updated ==
    ASSUME CasesChecked, NEW c \in DOMAIN kycCases, NEW row,
        kycCases' = [kycCases EXCEPT ![c] = row],
           kycCases[c].liveness = "passed" => row.liveness = "passed",
           kycCases[c].document = "matched" => row.document = "matched",
           kycCases[c].aml = "CLEAR" => row.aml = "CLEAR",
           StatusIsEarned(row)
    PROVE  /\ ResultsStay
           /\ kycCases' = [d \in DOMAIN kycCases' |-> kycCases'[d]]
           /\ DOMAIN kycCases' = DOMAIN kycCases /\ kycCases'[c] = row
           /\ \A d \in DOMAIN kycCases' : StatusIsEarned(kycCases'[d])
<1>1. DOMAIN kycCases' = DOMAIN kycCases /\ kycCases'[c] = row
  BY DEF CasesChecked
<1>2. \A d \in DOMAIN kycCases \ {c} : kycCases'[d] = kycCases[d]
  BY DEF CasesChecked
<1>3. kycCases' = [d \in DOMAIN kycCases' |-> kycCases'[d]]
  BY DEF CasesChecked
<1> QED
  BY <1>1, <1>2, <1>3 DEF ResultsStay, CasesChecked

\* A request that wrote a row, and is about to write its status.
LEMMA StoreChecked ==
    ASSUME CasesChecked, NEW r \in Hand, NEW c \in DOMAIN kycCases, NEW row, NEW next,
           kycCases' = [kycCases EXCEPT ![c] = row], Kyc!Continue(r, next),
           next.step = "status", next.case = c,
           next.to = "VERIFIED" => Earned(row),
           next.to = "LIVENESS_PASSED" => row.liveness = "passed",
           kycCases[c].liveness = "passed" => row.liveness = "passed",
           kycCases[c].document = "matched" => row.document = "matched",
           kycCases[c].aml = "CLEAR" => row.aml = "CLEAR",
           StatusIsEarned(row)
    PROVE  CasesChecked'
<1>1. /\ ResultsStay
      /\ kycCases' = [d \in DOMAIN kycCases' |-> kycCases'[d]]
      /\ DOMAIN kycCases' = DOMAIN kycCases /\ kycCases'[c] = row
      /\ \A d \in DOMAIN kycCases' : StatusIsEarned(kycCases'[d])
  BY Updated
<1>2. kycRequest'[r] = next
  BY DEF Kyc!Continue, CasesChecked
<1>3. HeldIsEarned(r)'
  BY <1>1, <1>2 DEF HeldIsEarned, Earned
<1> QED
  BY <1>1, <1>3, StepOfOne

\* Who stores a liveness check that passed may say so (runLiveness).
LEMMA LivenessChecked ==
    ASSUME CasesChecked, NEW r \in Hand, NEW confidence, Kyc!StoreLiveness(r, confidence)
    PROVE  CasesChecked'
<1> DEFINE c == kycRequest[r].case
           result == IF Kyc!Passes(confidence) THEN "passed" ELSE "failed"
           row == [kycCases[c] EXCEPT !.liveness = result]
           next == [step |-> "status", case |-> c, risk |-> kycCases[c].risk,
                    to |-> Kyc!NextAfterLiveness(Kyc!Passes(confidence))]
<1>1. c \in DOMAIN kycCases /\ kycCases[c].liveness = "none"
  BY DEF Kyc!StoreLiveness, CasesChecked, HeldIsEarned
<1>2. kycCases' = [kycCases EXCEPT ![c] = row] /\ Kyc!Continue(r, next)
  BY DEF Kyc!StoreLiveness
<1>3. next.to # "VERIFIED" /\ (next.to = "LIVENESS_PASSED" => result = "passed")
  BY DEF Kyc!NextAfterLiveness
<1>4. /\ row.document = kycCases[c].document /\ row.aml = kycCases[c].aml
      /\ row.status = kycCases[c].status /\ row.queue = kycCases[c].queue
  OBVIOUS
<1>5. StatusIsEarned(row)
  <2>1. StatusIsEarned(kycCases[c])
    BY <1>1 DEF CasesChecked
  <2> QED
    BY <1>1, <1>4, <2>1 DEF StatusIsEarned, Earned
<1>6. next.to = "LIVENESS_PASSED" => row.liveness = "passed"
  BY <1>1, <1>3 DEF StatusIsEarned
<1>7. next.step = "status" /\ next.case = c
  OBVIOUS
<1> HIDE DEF row, next, c
<1> QED
  BY <1>1, <1>2, <1>3, <1>4, <1>5, <1>6, <1>7, StoreChecked

\* Who stores a document that matches has a liveness check that passed (runDocument).
LEMMA DocumentChecked ==
    ASSUME CasesChecked, NEW r \in Hand, NEW read, NEW found, Kyc!StoreDocument(r, read, found)
    PROVE  CasesChecked'
<1> DEFINE c == kycRequest[r].case
           admission == kycCases[c].admission
           extracted == IF read = NoName THEN kycRequest[r].claimed ELSE read
           matched == Kyc!MatchName(extracted,
                          IF admission = NoName THEN kycRequest[r].claimed ELSE admission)
           confirmed == admission # NoName /\ found
           result == IF matched THEN "matched" ELSE "mismatch"
           row == [kycCases[c] EXCEPT !.document = result]
           next == [step |-> "status", case |-> c, risk |-> Kyc!RiskLevel(confirmed \/ matched),
                    to |-> Kyc!NextAfterDocument(matched)]
<1>1. c \in DOMAIN kycCases /\ kycCases[c].document = "none" /\ kycCases[c].liveness = "passed"
  BY DEF Kyc!StoreDocument, CasesChecked, HeldIsEarned, Kyc!OneDocument
<1>2. kycCases' = [kycCases EXCEPT ![c] = row] /\ Kyc!Continue(r, next)
  BY DEF Kyc!StoreDocument
<1>3. next.to # "LIVENESS_PASSED" /\ (next.to = "VERIFIED" => result = "matched")
  BY DEF Kyc!NextAfterDocument
<1>4. /\ row.liveness = kycCases[c].liveness /\ row.aml = kycCases[c].aml
      /\ row.status = kycCases[c].status /\ row.queue = kycCases[c].queue
  OBVIOUS
<1>5. StatusIsEarned(row)
  <2>1. StatusIsEarned(kycCases[c])
    BY <1>1 DEF CasesChecked
  <2> QED
    BY <1>1, <1>4, <2>1 DEF StatusIsEarned, Earned
<1>6. next.to = "VERIFIED" => Earned(row)
  BY <1>1, <1>3, <1>4 DEF Earned
<1>7. next.step = "status" /\ next.case = c
  OBVIOUS
<1> HIDE DEF row, next, c
<1> QED
  BY <1>1, <1>2, <1>3, <1>4, <1>5, <1>6, <1>7, StoreChecked

\* A status is written by who has earned it (applyStatus).
LEMMA ApplyChecked ==
    ASSUME CasesChecked, NEW r \in Hand, Kyc!ApplyStatus(r)
    PROVE  CasesChecked'
<1> DEFINE c == kycRequest[r].case
           to == kycRequest[r].to
           row == [kycCases[c] EXCEPT !.status = to, !.queue = Kyc!QueueFor(to),
               !.risk = kycRequest[r].risk]
<1>1. c \in DOMAIN kycCases
  BY DEF Kyc!ApplyStatus, CasesChecked, HeldIsEarned
<1>2. kycCases' = [kycCases EXCEPT ![c] = row] /\ Kyc!Continue(r, Kyc!Idle)
  BY DEF Kyc!ApplyStatus
<1>3. /\ row.liveness = kycCases[c].liveness /\ row.document = kycCases[c].document
      /\ row.aml = kycCases[c].aml /\ (row.status = to \/ row.status = kycCases[c].status)
  OBVIOUS
<1>4. /\ to = "VERIFIED" => Earned(kycCases[c])
      /\ to = "LIVENESS_PASSED" => kycCases[c].liveness = "passed"
  BY DEF Kyc!ApplyStatus, CasesChecked, HeldIsEarned
<1>5. row.status = to
  OBVIOUS
<1>6. StatusIsEarned(row)
  BY <1>3, <1>4, <1>5 DEF StatusIsEarned, Earned
<1>7. /\ ResultsStay /\ kycCases' = [d \in DOMAIN kycCases' |-> kycCases'[d]]
      /\ \A d \in DOMAIN kycCases' : StatusIsEarned(kycCases'[d])
  <2> HIDE DEF row, c
  <2> QED
    BY <1>1, <1>2, <1>3, <1>6, Updated
<1>8. HeldIsEarned(r)'
  BY <1>2 DEF Kyc!Continue, CasesChecked, HeldIsEarned, Kyc!Idle
<1> QED
  BY <1>2, <1>7, <1>8, StepOfOne

\* A reviewer needs no results (decide).
LEMMA DecisionChecked ==
    ASSUME CasesChecked, NEW r \in Hand, Kyc!StoreDecision(r)
    PROVE  CasesChecked'
<1> DEFINE c == kycRequest[r].case
           approved == kycRequest[r].verdict = "APPROVE"
           row == [kycCases[c] EXCEPT !.status = IF approved THEN "VERIFIED" ELSE "REJECTED",
                                   !.queue = IF approved THEN "APPROVED" ELSE "REJECTED"]
<1>1. c \in DOMAIN kycCases
  BY DEF Kyc!StoreDecision, CasesChecked, HeldIsEarned
<1>2. kycCases' = [kycCases EXCEPT ![c] = row] /\ Kyc!Continue(r, Kyc!Idle)
  BY DEF Kyc!StoreDecision
<1>3. /\ row.liveness = kycCases[c].liveness /\ row.document = kycCases[c].document
      /\ row.aml = kycCases[c].aml
  OBVIOUS
<1>4. /\ row.status = IF approved THEN "VERIFIED" ELSE "REJECTED"
      /\ row.queue = IF approved THEN "APPROVED" ELSE "REJECTED"
  OBVIOUS
<1>5. StatusIsEarned(row)
  BY <1>4 DEF StatusIsEarned
<1>6. /\ ResultsStay /\ kycCases' = [d \in DOMAIN kycCases' |-> kycCases'[d]]
      /\ \A d \in DOMAIN kycCases' : StatusIsEarned(kycCases'[d])
  <2> HIDE DEF row, c
  <2> QED
    BY <1>1, <1>2, <1>3, <1>5, Updated
<1>7. HeldIsEarned(r)'
  BY <1>2 DEF Kyc!Continue, CasesChecked, HeldIsEarned, Kyc!Idle
<1> QED
  BY <1>2, <1>6, <1>7, StepOfOne

\* What a process that ends has stored is still what earned its status.
LEMMA KycStopChecked == CasesChecked /\ Kyc!Stop => CasesChecked'
BY DEF Kyc!Stop, CasesChecked, HeldIsEarned, Kyc!Idle

\* Every step of every request, and the end of the process.
LEMMA KycStepChecked == CasesChecked /\ [Kyc!Next]_(Kyc!vars) => CasesChecked'
<1> SUFFICES ASSUME CasesChecked, [Kyc!Next]_(Kyc!vars) PROVE CasesChecked'
  OBVIOUS
<1>1. ASSUME NEW r \in Hand, Kyc!StudentStep(r) PROVE CasesChecked'
  BY <1>1, StartChecked, RunChecked, FailChecked, LivenessChecked, DocumentChecked
     DEF Kyc!StudentStep
<1>2. ASSUME NEW r \in Hand, Kyc!SponsorStep(r) PROVE CasesChecked'
  BY <1>2, ScreenChecked DEF Kyc!SponsorStep
<1>3. ASSUME NEW r \in Hand, Kyc!ReviewStep(r) PROVE CasesChecked'
  BY <1>3, RunChecked, DecisionChecked DEF Kyc!ReviewStep
<1>4. CASE UNCHANGED Kyc!vars
  BY <1>4 DEF Kyc!vars, CasesChecked, HeldIsEarned
<1> QED
  BY <1>1, <1>2, <1>3, <1>4, ApplyChecked, KycStopChecked DEF Kyc!Next

\* Nobody is verified who has not passed both checks, been cleared or been approved,
\* for any number of requests that overlap and any number of processes that end.
THEOREM VerifiedIsAlwaysEarned == Kyc!Spec => []Kyc!VerifiedIsEarned
<1>1. CasesChecked => Kyc!VerifiedIsEarned
  BY DEF CasesChecked, StatusIsEarned, Earned, Kyc!VerifiedIsEarned, Kyc!Approved
<1> QED
  BY <1>1, KycInitChecked, KycStepChecked, PTL DEF Kyc!Spec


-----------------------------------------------------------------------------
(* The rest of what is checked of verification cases.                      *)

\* Where a check, a screening or a reviewer may take a case.
Ends == {"LIVENESS_PASSED", "MANUAL_REVIEW", "VERIFIED", "REJECTED"}

\* A row has its types, waits for a reviewer exactly when its status says so, and
\* has the result of a document only after that of a liveness check that passed.
RowIsOK(row) ==
    /\ row \in Kyc!Row
    /\ row.queue = "PENDING" <=> row.status = "MANUAL_REVIEW"
    /\ row.document # "none" => row.liveness = "passed"

\* A request that is about to write a status writes one that ends a step.
HeldIsOK(r) ==
    /\ kycRequest[r].step \in Kyc!Steps
    /\ kycRequest[r].step = "status" =>
          kycRequest[r].to \in Ends /\ kycRequest[r].risk \in Kyc!Levels

\* The types of rows and requests.
CasesTyped ==
    /\ DOMAIN kycCases \subseteq KycCase
    /\ \A c \in DOMAIN kycCases : RowIsOK(kycCases[c])
    /\ \A r \in Hand : HeldIsOK(r)
    /\ kycStops \in 0..KycStops

\* A request that is about to write that the liveness check passed.
WillPass(r, c) ==
    /\ kycRequest[r].step = "status" /\ kycRequest[r].case = c
    /\ kycRequest[r].to = "LIVENESS_PASSED"

\* As long as that is not written nobody checks a document of the case, and nobody
\* else is about to write it.
PassIsFirst(c) ==
    \A r \in Hand : WillPass(r, c) =>
        /\ kycCases[c].document = "none" /\ kycCases[c].status # "LIVENESS_PASSED"
        /\ \A q \in Hand : ~(kycRequest[q].step = "document" /\ kycRequest[q].case = c)
        /\ \A q \in Hand : WillPass(q, c) => q = r

\* ResultsAreUsed of one case.
IsUsed(c) ==
    \/ kycStops > 0
    \/ \E r \in Hand : kycRequest[r].step = "status" /\ kycRequest[r].case = c
    \/ /\ kycCases[c].status = "STARTED" =>
              kycCases[c].liveness = "none" /\ kycCases[c].aml = "none"
       /\ kycCases[c].status = "LIVENESS_PASSED" => kycCases[c].document = "none"

\* What a result is good for, in every case.
CasesFlow == \A c \in DOMAIN kycCases : PassIsFirst(c) /\ IsUsed(c)

\* A step of one request about one case.  Nothing is said of the others, so that
\* what was said of their cases stays true.
LEMMA ElsewhereStays ==
    ASSUME CasesChecked, NEW r \in Hand, NEW next, Kyc!Continue(r, next), NEW c,
           kycRequest[r].step = "status" => kycRequest[r].case = c,
           next.step \in {"status", "document"} => next.case = c,
           NEW d \in DOMAIN kycCases, d # c, kycCases'[d] = kycCases[d],
           kycStops' = kycStops, PassIsFirst(d), IsUsed(d)
    PROVE  PassIsFirst(d)' /\ IsUsed(d)'
<1>1. kycRequest'[r] = next /\ \A q \in Hand \ {r} : kycRequest'[q] = kycRequest[q]
  BY DEF CasesChecked, Kyc!Continue
<1>2. \A q \in Hand : WillPass(q, d)' => WillPass(q, d) /\ q # r
  BY <1>1 DEF WillPass
<1>3. \A q \in Hand : kycRequest'[q].step = "document" /\ kycRequest'[q].case = d
                      => kycRequest[q].step = "document" /\ kycRequest[q].case = d
  BY <1>1
<1>4. PassIsFirst(d)'
  BY <1>2, <1>3 DEF PassIsFirst
<1>5. \A q \in Hand : kycRequest[q].step = "status" /\ kycRequest[q].case = d
                      => kycRequest'[q].step = "status" /\ kycRequest'[q].case = d
  BY <1>1
<1>6. IsUsed(d)'
  BY <1>5 DEF IsUsed
<1> QED
  BY <1>4, <1>6

\* A request writes to the row of one case: what is said of that case is shown of it,
\* the rest stays.
LEMMA CaseStep ==
    ASSUME CasesChecked, CasesTyped, CasesFlow, NEW r \in Hand, NEW next,
           Kyc!Continue(r, next), kycStops' = kycStops, NEW c \in KycCase,
           kycRequest[r].step = "status" => kycRequest[r].case = c,
           next.step \in {"status", "document"} => next.case = c,
           next.step \in Kyc!Steps,
           next.step = "status" => next.to \in Ends /\ next.risk \in Kyc!Levels,
           DOMAIN kycCases' = DOMAIN kycCases \cup {c},
           \A d \in DOMAIN kycCases : d # c => kycCases'[d] = kycCases[d],
           RowIsOK(kycCases'[c]), PassIsFirst(c)', IsUsed(c)'
    PROVE  CasesTyped' /\ CasesFlow'
<1>1. kycRequest'[r] = next /\ \A q \in Hand \ {r} : kycRequest'[q] = kycRequest[q]
  BY DEF CasesChecked, Kyc!Continue
<1>2. \A q \in Hand : HeldIsOK(q)'
  BY <1>1 DEF CasesTyped, HeldIsOK
<1>3. \A d \in DOMAIN kycCases' : RowIsOK(kycCases'[d])
  BY DEF CasesTyped
<1>4. CasesTyped'
  BY <1>2, <1>3 DEF CasesTyped
<1>5. ASSUME NEW d \in DOMAIN kycCases, d # c PROVE PassIsFirst(d)' /\ IsUsed(d)'
  BY <1>5, ElsewhereStays DEF CasesFlow
<1>6. CasesFlow'
  BY <1>5 DEF CasesFlow
<1> QED
  BY <1>4, <1>6

\* A request that asks, or gives up.
LEMMA AskStep ==
    ASSUME CasesChecked, CasesTyped, CasesFlow, NEW r \in Hand, NEW next,
           Kyc!Continue(r, next), kycStops' = kycStops, kycCases' = kycCases,
           NEW c \in DOMAIN kycCases, kycRequest[r].step # "status",
           next.step \in Kyc!Steps \ {"status"},
           next.step = "document" => next.case = c /\ kycCases[c].status = "LIVENESS_PASSED"
    PROVE  CasesTyped' /\ CasesFlow'
<1>1. kycRequest'[r] = next /\ \A q \in Hand \ {r} : kycRequest'[q] = kycRequest[q]
  BY DEF CasesChecked, Kyc!Continue
<1>2. PassIsFirst(c) /\ IsUsed(c)
  BY DEF CasesFlow
<1>3. PassIsFirst(c)'
  <2> SUFFICES ASSUME NEW p \in Hand, WillPass(p, c)'
               PROVE  /\ kycCases'[c].document = "none" /\
                         kycCases'[c].status # "LIVENESS_PASSED"
                      /\ \A q \in Hand : ~(kycRequest'[q].step = "document" /\
                          kycRequest'[q].case = c)
                      /\ \A q \in Hand : WillPass(q, c)' => q = p
    BY DEF PassIsFirst
  <2>1. \A q \in Hand : WillPass(q, c)' => WillPass(q, c)
    BY <1>1 DEF WillPass
  <2>2. /\ kycCases[c].document = "none" /\ kycCases[c].status # "LIVENESS_PASSED"
        /\ \A q \in Hand : ~(kycRequest[q].step = "document" /\ kycRequest[q].case = c)
        /\ \A q \in Hand : WillPass(q, c) => q = p
    BY <1>2, <2>1 DEF PassIsFirst
  <2> QED
    BY <1>1, <2>1, <2>2
<1>4. IsUsed(c)'
  <2>1. \A q \in Hand : kycRequest[q].step = "status" => kycRequest'[q] = kycRequest[q]
    BY <1>1
  <2> QED
    BY <1>2, <2>1 DEF IsUsed
<1>5. c \in KycCase /\ RowIsOK(kycCases'[c])
  BY DEF CasesTyped
<1> QED
  BY <1>3, <1>4, <1>5, CaseStep

\* A request that waits for an answer, or gives up, changes no row.
LEMMA AskKeepsFlow ==
    ASSUME CasesChecked, CasesTyped, CasesFlow, NEW r \in Hand, NEW c \in DOMAIN kycCases
    PROVE  /\ Kyc!RunLiveness(r, c) => CasesTyped' /\ CasesFlow'
           /\ \A claimed \in KycName : Kyc!RunDocument(r, c, claimed) =>
               CasesTyped' /\ CasesFlow'
           /\ \A verdict \in {"APPROVE", "REJECT"} :
                 Kyc!Decide(r, c, verdict) => CasesTyped' /\ CasesFlow'
<1>1. ASSUME Kyc!RunLiveness(r, c) PROVE CasesTyped' /\ CasesFlow'
  <2> DEFINE next == [step |-> "liveness", case |-> c]
  <2>1. /\ Kyc!Continue(r, next) /\ kycStops' = kycStops /\ kycCases' = kycCases
        /\ kycRequest[r].step # "status"
    BY <1>1 DEF Kyc!RunLiveness, Kyc!Idle
  <2>2. next.step = "liveness" /\ next.step \in Kyc!Steps
    BY DEF Kyc!Steps
  <2> HIDE DEF next
  <2> QED
    BY <2>1, <2>2, AskStep
<1>2. ASSUME NEW claimed \in KycName, Kyc!RunDocument(r, c, claimed)
      PROVE  CasesTyped' /\ CasesFlow'
  <2> DEFINE next == [step |-> "document", case |-> c, claimed |-> claimed]
  <2>1. /\ Kyc!Continue(r, next) /\ kycStops' = kycStops /\ kycCases' = kycCases
        /\ kycRequest[r].step # "status" /\ kycCases[c].status = "LIVENESS_PASSED"
    BY <1>2 DEF Kyc!RunDocument, Kyc!Idle
  <2>2. next.step = "document" /\ next.case = c /\ next.step \in Kyc!Steps
    BY DEF Kyc!Steps
  <2> HIDE DEF next
  <2> QED
    BY <2>1, <2>2, AskStep
<1>3. ASSUME NEW verdict \in {"APPROVE", "REJECT"}, Kyc!Decide(r, c, verdict)
      PROVE  CasesTyped' /\ CasesFlow'
  <2> DEFINE next == [step |-> "review", case |-> c, verdict |-> verdict]
  <2>1. /\ Kyc!Continue(r, next) /\ kycStops' = kycStops /\ kycCases' = kycCases
        /\ kycRequest[r].step # "status"
    BY <1>3 DEF Kyc!Decide, Kyc!Idle
  <2>2. next.step = "review" /\ next.step \in Kyc!Steps
    BY DEF Kyc!Steps
  <2> HIDE DEF next
  <2> QED
    BY <2>1, <2>2, AskStep
<1> QED
  BY <1>1, <1>2, <1>3

\* Neither does a provider that fails.
LEMMA FailKeepsFlow ==
    ASSUME CasesChecked, CasesTyped, CasesFlow, NEW r \in Hand, Kyc!Fail(r)
    PROVE  CasesTyped' /\ CasesFlow'
<1>1. PICK c \in DOMAIN kycCases : c = kycRequest[r].case
  BY DEF Kyc!Fail, CasesChecked, HeldIsEarned
<1>2. /\ Kyc!Continue(r, Kyc!Idle) /\ kycStops' = kycStops /\ kycCases' = kycCases
      /\ kycRequest[r].step # "status"
  BY DEF Kyc!Fail
<1>3. Kyc!Idle.step = "idle" /\ Kyc!Idle.step \in Kyc!Steps
  BY DEF Kyc!Idle, Kyc!Steps
<1> QED
  BY <1>2, <1>3, AskStep

\* A case that starts has no results (startCase).
LEMMA StartKeepsFlow ==
    ASSUME CasesChecked, CasesTyped, CasesFlow, NEW r \in Hand, NEW c \in KycCase,
           NEW admission \in KycName \cup {NoName}, Kyc!StartCase(r, c, admission)
    PROVE  CasesTyped' /\ CasesFlow'
<1> DEFINE row == [Kyc!NewCase EXCEPT !.admission = admission]
<1>1. /\ c \notin DOMAIN kycCases /\ kycStops' = kycStops
      /\ kycRequest' = kycRequest /\ kycRequest[r] = Kyc!Idle
  BY DEF Kyc!StartCase
<1>2. /\ DOMAIN kycCases' = DOMAIN kycCases \cup {c} /\ kycCases'[c] = row
      /\ \A d \in DOMAIN kycCases : d # c => kycCases'[d] = kycCases[d]
  BY DEF Kyc!StartCase, Kyc!Insert
<1>3. Kyc!Continue(r, Kyc!Idle)
  BY <1>1 DEF Kyc!Continue, CasesChecked
<1>4. /\ row \in Kyc!Row /\ row.queue = "NOT_REQUIRED" /\ row.status = "STARTED"
      /\ row.document = "none" /\ row.liveness = "none" /\ row.aml = "none"
  BY DEF Kyc!NewCase, Kyc!Row, Kyc!Statuses, Kyc!Queues, Kyc!Levels, Kyc!Decisions
<1>5. RowIsOK(row)
  BY <1>4 DEF RowIsOK
<1>6. \A q \in Hand : kycRequest[q].step \in {"status", "document"} => kycRequest[q].case # c
  BY <1>1 DEF CasesChecked, HeldIsEarned
<1>7. PassIsFirst(c)'
  BY <1>1, <1>6 DEF PassIsFirst, WillPass
<1>8. IsUsed(c)'
  <2> HIDE DEF row
  <2> QED
    BY <1>2, <1>4 DEF IsUsed
<1>9. Kyc!Idle.step = "idle" /\ Kyc!Idle.step \in Kyc!Steps
  BY DEF Kyc!Idle, Kyc!Steps
<1> HIDE DEF row
<1> QED
  BY <1>1, <1>2, <1>3, <1>5, <1>7, <1>8, <1>9, CaseStep

\* A screening is stored by a request that goes on to write the status (screen).
LEMMA ScreenKeepsFlow ==
    ASSUME CasesChecked, CasesTyped, CasesFlow, NEW r \in Hand, NEW c \in KycCase,
           NEW large \in BOOLEAN, NEW hit \in BOOLEAN, NEW country \in Kyc!Countries,
           Kyc!ScreenSponsor(r, c, large, country, hit)
    PROVE  CasesTyped' /\ CasesFlow'
<1>1. PICK decision : decision = Kyc!DecideAml(large, country, hit)
  OBVIOUS
<1> DEFINE row == [Kyc!NewCase EXCEPT !.subject = "SPONSOR", !.aml = decision]
           next == [step |-> "status", case |-> c, risk |-> "LOW",
                    to |-> Kyc!NextAfterAml(decision)]
<1>2. decision \in Kyc!Decisions
  BY <1>1 DEF Kyc!DecideAml, Kyc!Decisions
<1>3. /\ c \notin DOMAIN kycCases /\ kycStops' = kycStops /\ kycRequest[r].step # "status"
      /\ Kyc!Insert(c, row) /\ Kyc!Continue(r, next)
  BY <1>1 DEF Kyc!ScreenSponsor, Kyc!Idle
<1>4. /\ DOMAIN kycCases' = DOMAIN kycCases \cup {c} /\ kycCases'[c] = row
      /\ \A d \in DOMAIN kycCases : d # c => kycCases'[d] = kycCases[d]
  BY <1>3 DEF Kyc!Insert
<1>5. kycRequest'[r] = next /\ \A q \in Hand \ {r} : kycRequest'[q] = kycRequest[q]
  BY <1>3 DEF CasesChecked, Kyc!Continue
<1>6. /\ row \in Kyc!Row /\ row.queue = "NOT_REQUIRED" /\ row.status = "STARTED"
      /\ row.document = "none"
  BY <1>2 DEF Kyc!NewCase, Kyc!Row, Kyc!Statuses, Kyc!Queues, Kyc!Levels, Kyc!Decisions
<1>7. RowIsOK(row)
  BY <1>6 DEF RowIsOK
<1>8. /\ next.step = "status" /\ next.case = c /\ next.risk \in Kyc!Levels
      /\ next.to \in Ends \ {"LIVENESS_PASSED"} /\ next.step \in Kyc!Steps
  BY DEF Kyc!NextAfterAml, Ends, Kyc!Levels, Kyc!Steps
<1>9. \A q \in Hand : kycRequest[q].step \in {"status", "document"} => kycRequest[q].case # c
  BY <1>3 DEF CasesChecked, HeldIsEarned
<1> HIDE DEF row, next
<1>10. \A q \in Hand : ~WillPass(q, c)'
  BY <1>5, <1>8, <1>9 DEF WillPass
<1>11. PassIsFirst(c)'
  BY <1>10 DEF PassIsFirst
<1>12. IsUsed(c)'
  BY <1>5, <1>8 DEF IsUsed
<1> QED
  BY <1>3, <1>4, <1>7, <1>8, <1>11, <1>12, CaseStep

\* So is a liveness check, and nobody else is about to write that it passed
\* (runLiveness).
LEMMA LivenessKeepsFlow ==
    ASSUME CasesChecked, CasesTyped, CasesFlow, NEW r \in Hand, NEW confidence,
           Kyc!StoreLiveness(r, confidence)
    PROVE  CasesTyped' /\ CasesFlow'
<1>1. PICK c \in DOMAIN kycCases : c = kycRequest[r].case
  BY DEF Kyc!StoreLiveness, CasesChecked, HeldIsEarned
<1>2. PICK passes \in BOOLEAN : passes <=> Kyc!Passes(confidence)
  OBVIOUS
<1> DEFINE result == IF passes THEN "passed" ELSE "failed"
           row == [kycCases[c] EXCEPT !.liveness = result]
           next == [step |-> "status", case |-> c, risk |-> kycCases[c].risk,
                    to |-> IF passes THEN "LIVENESS_PASSED" ELSE "MANUAL_REVIEW"]
<1>3. /\ kycRequest[r].step = "liveness" /\ kycCases[c].liveness = "none"
      /\ kycCases' = [kycCases EXCEPT ![c] = row] /\ Kyc!Continue(r, next)
      /\ kycStops' = kycStops
  BY <1>1, <1>2 DEF Kyc!StoreLiveness, Kyc!NextAfterLiveness
<1>4. /\ DOMAIN kycCases' = DOMAIN kycCases /\ kycCases'[c] = row
      /\ \A d \in DOMAIN kycCases : d # c => kycCases'[d] = kycCases[d]
  BY <1>3 DEF CasesChecked
<1>5. kycRequest'[r] = next /\ \A q \in Hand \ {r} : kycRequest'[q] = kycRequest[q]
  BY <1>3 DEF CasesChecked, Kyc!Continue
<1>6. RowIsOK(kycCases[c]) /\ StatusIsEarned(kycCases[c]) /\ c \in KycCase
  BY DEF CasesTyped, CasesChecked
<1>7. kycCases[c].document = "none" /\ kycCases[c].status # "LIVENESS_PASSED"
  BY <1>3, <1>6 DEF RowIsOK, StatusIsEarned
<1>8. /\ row \in Kyc!Row /\ row.document = "none"
      /\ row.status = kycCases[c].status /\ row.queue = kycCases[c].queue
  BY <1>6, <1>7 DEF RowIsOK, Kyc!Row
<1>9. RowIsOK(row)
  BY <1>6, <1>8 DEF RowIsOK
<1>10. /\ next.step = "status" /\ next.case = c /\ next.risk \in Kyc!Levels
       /\ next.to \in Ends /\ next.step \in Kyc!Steps
  BY <1>6 DEF RowIsOK, Kyc!Row, Ends, Kyc!Steps
<1>11. \A q \in Hand : /\ ~(kycRequest[q].step = "document" /\ kycRequest[q].case = c)
                       /\ ~WillPass(q, c)
  BY <1>3 DEF CasesChecked, HeldIsEarned, WillPass
<1> HIDE DEF row, next
<1>12. PassIsFirst(c)'
  BY <1>4, <1>5, <1>7, <1>8, <1>10, <1>11 DEF PassIsFirst, WillPass
<1>13. IsUsed(c)'
  BY <1>5, <1>10 DEF IsUsed
<1> QED
  BY <1>3, <1>4, <1>6, <1>9, <1>10, <1>12, <1>13, CaseStep

\* So is a document, and its liveness check has long been written (runDocument).
LEMMA DocumentKeepsFlow ==
    ASSUME CasesChecked, CasesTyped, CasesFlow, NEW r \in Hand, NEW read, NEW found,
           Kyc!StoreDocument(r, read, found)
    PROVE  CasesTyped' /\ CasesFlow'
<1>1. PICK c \in DOMAIN kycCases : c = kycRequest[r].case
  BY DEF Kyc!StoreDocument, CasesChecked, HeldIsEarned
<1>2. PICK matched \in BOOLEAN, accredited \in BOOLEAN :
         /\ kycRequest[r].step = "document"
         /\ kycCases'
             = [kycCases EXCEPT ![c].document = IF matched THEN "matched" ELSE "mismatch"]
         /\ Kyc!Continue(r, [step |-> "status", case |-> c, risk |-> Kyc!RiskLevel(accredited),
                             to |-> Kyc!NextAfterDocument(matched)])
         /\ kycStops' = kycStops
  <2> DEFINE admission == kycCases[c].admission
             extracted == IF read = NoName THEN kycRequest[r].claimed ELSE read
             matches == Kyc!MatchName(extracted,
                           IF admission = NoName THEN kycRequest[r].claimed ELSE admission)
             confirmed == admission # NoName /\ found
  <2>1. /\ kycRequest[r].step = "document"
        /\ kycCases'
            = [kycCases EXCEPT ![c].document = IF matches THEN "matched" ELSE "mismatch"]
        /\ Kyc!Continue(r, [step |-> "status", case |-> c,
                            risk |-> Kyc!RiskLevel(confirmed \/ matches),
                            to |-> Kyc!NextAfterDocument(matches)])
        /\ kycStops' = kycStops
    BY <1>1 DEF Kyc!StoreDocument
  <2>2. matches \in BOOLEAN /\ (confirmed \/ matches) \in BOOLEAN
    BY DEF Kyc!MatchName
  <2> HIDE DEF matches, confirmed
  <2> QED
    BY <2>1, <2>2
<1> DEFINE result == IF matched THEN "matched" ELSE "mismatch"
           row == [kycCases[c] EXCEPT !.document = result]
           next == [step |-> "status", case |-> c, risk |-> Kyc!RiskLevel(accredited),
                    to |-> Kyc!NextAfterDocument(matched)]
<1>3. kycCases' = [kycCases EXCEPT ![c] = row] /\ Kyc!Continue(r, next)
  BY <1>2
<1>4. /\ DOMAIN kycCases' = DOMAIN kycCases /\ kycCases'[c] = row
      /\ \A d \in DOMAIN kycCases : d # c => kycCases'[d] = kycCases[d]
  BY <1>3 DEF CasesChecked
<1>5. kycRequest'[r] = next /\ \A q \in Hand \ {r} : kycRequest'[q] = kycRequest[q]
  BY <1>3 DEF CasesChecked, Kyc!Continue
<1>6. RowIsOK(kycCases[c]) /\ kycCases[c].liveness = "passed" /\ c \in KycCase
  BY <1>1, <1>2 DEF CasesTyped, CasesChecked, HeldIsEarned
<1>7. /\ row \in Kyc!Row /\ row.liveness = "passed"
      /\ row.status = kycCases[c].status /\ row.queue = kycCases[c].queue
  BY <1>6 DEF RowIsOK, Kyc!Row
<1>8. RowIsOK(row)
  BY <1>6, <1>7 DEF RowIsOK
<1>9. /\ next.step = "status" /\ next.case = c /\ next.risk \in Kyc!Levels
      /\ next.to \in Ends /\ next.step \in Kyc!Steps /\ next.to # "LIVENESS_PASSED"
  BY DEF Kyc!Levels, Kyc!RiskLevel, Kyc!NextAfterDocument, Ends, Kyc!Steps
<1>10. \A q \in Hand : ~WillPass(q, c)
  BY <1>1, <1>2 DEF CasesFlow, PassIsFirst
<1> HIDE DEF row, next
<1>11. \A q \in Hand : ~WillPass(q, c)'
  BY <1>5, <1>9, <1>10 DEF WillPass
<1>12. PassIsFirst(c)'
  BY <1>11 DEF PassIsFirst
<1>13. IsUsed(c)'
  BY <1>5, <1>9 DEF IsUsed
<1> QED
  BY <1>2, <1>3, <1>4, <1>6, <1>8, <1>9, <1>12, <1>13, CaseStep

\* The status that a request writes is the one its result asks for (applyStatus).
LEMMA ApplyKeepsFlow ==
    ASSUME CasesChecked, CasesTyped, CasesFlow, NEW r \in Hand, Kyc!ApplyStatus(r)
    PROVE  CasesTyped' /\ CasesFlow'
<1>1. PICK c \in DOMAIN kycCases, to \in Ends, risk \in Kyc!Levels :
         c = kycRequest[r].case /\ to = kycRequest[r].to /\ risk = kycRequest[r].risk
  BY DEF Kyc!ApplyStatus, CasesChecked, HeldIsEarned, CasesTyped, HeldIsOK
<1> DEFINE row == [kycCases[c] EXCEPT !.status = to, !.queue = Kyc!QueueFor(to), !.risk = risk]
<1>2. /\ kycRequest[r].step = "status" /\ kycCases' = [kycCases EXCEPT ![c] = row]
      /\ Kyc!Continue(r, Kyc!Idle) /\ kycStops' = kycStops
  BY <1>1 DEF Kyc!ApplyStatus
<1>3. /\ DOMAIN kycCases' = DOMAIN kycCases /\ kycCases'[c] = row
      /\ \A d \in DOMAIN kycCases : d # c => kycCases'[d] = kycCases[d]
  BY <1>2 DEF CasesChecked
<1>4. kycRequest'[r] = Kyc!Idle /\ \A q \in Hand \ {r} : kycRequest'[q] = kycRequest[q]
  BY <1>2 DEF CasesChecked, Kyc!Continue
<1>5. RowIsOK(kycCases[c]) /\ c \in KycCase /\ PassIsFirst(c)
  BY DEF CasesTyped, CasesFlow
<1>6. /\ row \in Kyc!Row /\ row.status = to /\ row.queue = Kyc!QueueFor(to)
      /\ row.document = kycCases[c].document /\ row.liveness = kycCases[c].liveness
  BY <1>5 DEF RowIsOK, Kyc!Row, Kyc!QueueFor, Ends, Kyc!Statuses, Kyc!Queues
<1>7. RowIsOK(row)
  BY <1>5, <1>6 DEF RowIsOK, Kyc!QueueFor
<1>8. Kyc!Idle.step = "idle" /\ Kyc!Idle.step \in Kyc!Steps
  BY DEF Kyc!Idle, Kyc!Steps
<1> HIDE DEF row
<1>9. to = "LIVENESS_PASSED" =>
        /\ kycCases[c].document = "none" /\ \A q \in Hand \ {r} : ~WillPass(q, c)
        /\ WillPass(r, c)
  BY <1>1, <1>2, <1>5 DEF PassIsFirst, WillPass
<1>10. PassIsFirst(c)'
  <2> SUFFICES ASSUME NEW p \in Hand, WillPass(p, c)'
               PROVE  /\ kycCases'[c].document = "none" /\
                         kycCases'[c].status # "LIVENESS_PASSED"
                      /\ \A q \in Hand : ~(kycRequest'[q].step = "document" /\
                          kycRequest'[q].case = c)
                      /\ \A q \in Hand : WillPass(q, c)' => q = p
    BY DEF PassIsFirst
  <2>1. \A q \in Hand : WillPass(q, c)' => WillPass(q, c) /\ q # r
    BY <1>4, <1>8 DEF WillPass
  <2>2. /\ kycCases[c].document = "none"
        /\ \A q \in Hand : ~(kycRequest[q].step = "document" /\ kycRequest[q].case = c)
        /\ \A q \in Hand : WillPass(q, c) => q = p
    BY <1>5, <2>1 DEF PassIsFirst
  <2>3. to # "LIVENESS_PASSED"
    BY <1>9, <2>1
  <2> QED
    BY <1>3, <1>4, <1>6, <1>8, <2>1, <2>2, <2>3
<1>11. IsUsed(c)'
  BY <1>3, <1>6, <1>9 DEF IsUsed, Ends
<1> QED
  BY <1>1, <1>2, <1>3, <1>5, <1>7, <1>8, <1>10, <1>11, CaseStep

\* A verdict leaves no case where it started (decide).
LEMMA DecisionKeepsFlow ==
    ASSUME CasesChecked, CasesTyped, CasesFlow, NEW r \in Hand, Kyc!StoreDecision(r)
    PROVE  CasesTyped' /\ CasesFlow'
<1>1. PICK c \in DOMAIN kycCases : c = kycRequest[r].case
  BY DEF Kyc!StoreDecision, CasesChecked, HeldIsEarned
<1>2. PICK approved \in BOOLEAN : approved <=> kycRequest[r].verdict = "APPROVE"
  OBVIOUS
<1> DEFINE status == IF approved THEN "VERIFIED" ELSE "REJECTED"
           queue == IF approved THEN "APPROVED" ELSE "REJECTED"
           row == [kycCases[c] EXCEPT !.status = status, !.queue = queue]
<1>3. /\ kycRequest[r].step = "review" /\ kycCases' = [kycCases EXCEPT ![c] = row]
      /\ Kyc!Continue(r, Kyc!Idle) /\ kycStops' = kycStops
  BY <1>1, <1>2 DEF Kyc!StoreDecision
<1>4. /\ DOMAIN kycCases' = DOMAIN kycCases /\ kycCases'[c] = row
      /\ \A d \in DOMAIN kycCases : d # c => kycCases'[d] = kycCases[d]
  BY <1>3 DEF CasesChecked
<1>5. kycRequest'[r] = Kyc!Idle /\ \A q \in Hand \ {r} : kycRequest'[q] = kycRequest[q]
  BY <1>3 DEF CasesChecked, Kyc!Continue
<1>6. RowIsOK(kycCases[c]) /\ c \in KycCase /\ PassIsFirst(c)
  BY DEF CasesTyped, CasesFlow
<1>7. /\ row \in Kyc!Row /\ row.status \in {"VERIFIED", "REJECTED"} /\ row.queue # "PENDING"
      /\ row.document = kycCases[c].document /\ row.liveness = kycCases[c].liveness
  BY <1>6 DEF RowIsOK, Kyc!Row, Kyc!Statuses, Kyc!Queues
<1>8. RowIsOK(row)
  BY <1>6, <1>7 DEF RowIsOK
<1>9. Kyc!Idle.step = "idle" /\ Kyc!Idle.step \in Kyc!Steps
  BY DEF Kyc!Idle, Kyc!Steps
<1> HIDE DEF row
<1>10. PassIsFirst(c)'
  <2>1. \A q \in Hand : /\ WillPass(q, c)' => WillPass(q, c)
                        /\ kycRequest'[q].step = "document" => kycRequest'[q] = kycRequest[q]
    BY <1>5, <1>9 DEF WillPass
  <2> QED
    BY <1>4, <1>6, <1>7, <2>1 DEF PassIsFirst
<1>11. IsUsed(c)'
  BY <1>4, <1>7 DEF IsUsed
<1> QED
  BY <1>1, <1>3, <1>4, <1>6, <1>8, <1>9, <1>10, <1>11, CaseStep

\* When the process has ended, a result may be left unused.
LEMMA KycStopKeepsFlow ==
    ASSUME CasesChecked, CasesTyped, CasesFlow, Kyc!Stop, KycStops \in Nat
    PROVE  CasesTyped' /\ CasesFlow'
<1>1. /\ kycCases' = kycCases /\ kycStops' = kycStops + 1 /\ kycStops < KycStops
      /\ \A r \in Hand : kycRequest'[r] = Kyc!Idle
  BY DEF Kyc!Stop
<1>2. kycStops' \in 0..KycStops /\ kycStops' > 0
  BY <1>1 DEF CasesTyped
<1>3. Kyc!Idle.step = "idle" /\ Kyc!Idle.step \in Kyc!Steps
  BY DEF Kyc!Idle, Kyc!Steps
<1>4. CasesTyped'
  BY <1>1, <1>2, <1>3 DEF CasesTyped, HeldIsOK
<1>5. CasesFlow'
  BY <1>1, <1>2, <1>3 DEF CasesFlow, PassIsFirst, IsUsed, WillPass
<1> QED
  BY <1>4, <1>5

\* Before the first case nothing can be unused.
LEMMA KycFlowInit == BackOfficeAssumption /\ Kyc!Init => CasesTyped /\ CasesFlow
<1> SUFFICES ASSUME BackOfficeAssumption, Kyc!Init PROVE CasesTyped /\ CasesFlow
  OBVIOUS
<1>1. DOMAIN kycCases = {}
  BY DEF Kyc!Init
<1>2. kycStops \in 0..KycStops
  BY BackOfficeAssumption DEF BackOfficeAssumption, Kyc!KycAssumption, Kyc!Init
<1> QED
  BY <1>1, <1>2 DEF Kyc!Init, CasesTyped, CasesFlow, HeldIsOK, Kyc!Idle, Kyc!Steps

\* Every step keeps types, and uses results.
LEMMA KycFlowStep ==
    CasesChecked /\ CasesTyped /\ CasesFlow /\ [Kyc!Next]_(Kyc!vars) =>
        CasesTyped' /\ CasesFlow'
<1> SUFFICES ASSUME CasesChecked, CasesTyped, CasesFlow, [Kyc!Next]_(Kyc!vars)
             PROVE  CasesTyped' /\ CasesFlow'
  OBVIOUS
<1>1. ASSUME NEW r \in Hand, Kyc!StudentStep(r) PROVE CasesTyped' /\ CasesFlow'
  BY <1>1, StartKeepsFlow, AskKeepsFlow, FailKeepsFlow, LivenessKeepsFlow, DocumentKeepsFlow
     DEF Kyc!StudentStep
<1>2. ASSUME NEW r \in Hand, Kyc!SponsorStep(r) PROVE CasesTyped' /\ CasesFlow'
  BY <1>2, ScreenKeepsFlow DEF Kyc!SponsorStep
<1>3. ASSUME NEW r \in Hand, Kyc!ReviewStep(r) PROVE CasesTyped' /\ CasesFlow'
  BY <1>3, AskKeepsFlow, DecisionKeepsFlow DEF Kyc!ReviewStep
<1>4. CASE UNCHANGED Kyc!vars
  BY <1>4 DEF Kyc!vars, CasesTyped, CasesFlow, HeldIsOK, PassIsFirst, IsUsed, WillPass
<1>5. KycStops \in Nat
  BY BackOfficeAssumption DEF Kyc!KycAssumption
<1> QED
  BY <1>1, <1>2, <1>3, <1>4, <1>5, ApplyKeepsFlow, KycStopKeepsFlow DEF Kyc!Next

\* Rows and requests have their types, what is stored is used unless the process ended,
\* and the dashboard counts what waits for a reviewer (applyStatus, dashboard).
THEOREM CasesAreRight ==
    Kyc!Spec =>
        [](Kyc!TypeOK /\ Kyc!VerifiedIsEarned /\ Kyc!ResultsAreUsed /\ Kyc!PendingIsManual)
<1>1. CasesTyped => Kyc!TypeOK
  BY DEF CasesTyped, RowIsOK, HeldIsOK, Kyc!TypeOK
<1>2. CasesFlow => Kyc!ResultsAreUsed
  BY DEF CasesFlow, IsUsed, Kyc!ResultsAreUsed
<1>3. CasesTyped => Kyc!PendingIsManual
  <2> SUFFICES ASSUME CasesTyped PROVE Kyc!PendingIsManual
    OBVIOUS
  <2> DEFINE Count(S) == Kyc!Cardinality(S)
             byStatus == [s \in Kyc!Statuses |->
                             Count({c \in DOMAIN kycCases : kycCases[c].status = s})]
  <2>1. {c \in DOMAIN kycCases : kycCases[c].queue = "PENDING"}
        = {c \in DOMAIN kycCases : kycCases[c].status = "MANUAL_REVIEW"}
    BY DEF CasesTyped, RowIsOK
  <2>2. /\ Kyc!Dashboard.pendingReview
            = Count({c \in DOMAIN kycCases : kycCases[c].queue = "PENDING"})
        /\ Kyc!Dashboard.byStatus = byStatus
    BY DEF Kyc!Dashboard
  <2>3. byStatus["MANUAL_REVIEW"]
        = Count({c \in DOMAIN kycCases : kycCases[c].status = "MANUAL_REVIEW"})
    BY DEF Kyc!Statuses
  <2> QED
    BY <2>1, <2>2, <2>3 DEF Kyc!PendingIsManual
<1>4. BackOfficeAssumption
  BY BackOfficeAssumption
<1> QED
  BY <1>1, <1>2, <1>3, <1>4, KycInitChecked, KycStepChecked, KycFlowInit, KycFlowStep,
     VerifiedIsAlwaysEarned, PTL DEF Kyc!Spec

-----------------------------------------------------------------------------
(* Disputes about campaigns, flags and verdicts.                            *)

\* The cardinality that the instance counts with is the usual one.
LEMMA TrustCardinality == \A S : Trust!Cardinality(S) = Cardinality(S)
BY DEF Trust!Cardinality, Cardinality, Trust!IsFiniteSet, IsFiniteSet

\* What the steps keep of the shape of the state: rows of requests and of campaigns,
\* finitely many chargebacks, and verdicts that a reviewer may give.
TrustShape ==
    /\ trustRequest = [r \in Hand |-> trustRequest[r]]
    /\ trustModeration = [c \in Campaign |-> trustModeration[c]]
    /\ IsFiniteSet(DOMAIN trustChargebacks)
    /\ \A r \in Hand : trustRequest[r].step = "verdict" =>
        trustRequest[r].verdict \in DOMAIN Trust!Verdicts

\* Before the first webhook there are no chargebacks.
LEMMA TrustInitShape == Trust!Init => TrustShape
<1> SUFFICES ASSUME Trust!Init PROVE TrustShape
  OBVIOUS
<1>1. DOMAIN trustChargebacks = {}
  BY DEF Trust!Init
<1>2. IsFiniteSet(DOMAIN trustChargebacks)
  BY <1>1, FS_EmptySet
<1> QED
  BY <1>2 DEF Trust!Init, TrustShape, Trust!Idle, Trust!NoCase

\* A request keeps its row, and the rows of the others stay.
LEMMA Continued ==
    ASSUME NEW r \in Hand, NEW next, TrustShape, Trust!Continue(r, next)
    PROVE  /\ trustRequest' = [q \in Hand |-> trustRequest'[q]]
           /\ trustRequest'[r] = next
           /\ \A q \in Hand \ {r} : trustRequest'[q] = trustRequest[q]
BY DEF TrustShape, Trust!Continue

\* Every step keeps the shape.
LEMMA TrustStepShape == TrustShape /\ [Trust!Next]_(Trust!vars) => TrustShape'
<1> SUFFICES ASSUME TrustShape, [Trust!Next]_(Trust!vars) PROVE TrustShape'
  OBVIOUS
<1> USE DEF Trust!Verdicts
<1>1. ASSUME NEW r \in Hand, NEW next, Trust!Continue(r, next),
             next.step = "verdict" => next.verdict \in DOMAIN Trust!Verdicts,
             trustModeration' = [c \in Campaign |-> trustModeration'[c]],
             IsFiniteSet(DOMAIN trustChargebacks')
      PROVE  TrustShape'
  BY <1>1, Continued DEF TrustShape
<1>2. ASSUME NEW r \in Hand, NEW d \in Disputes, Trust!Deliver(r, d) PROVE TrustShape'
  BY <1>1, <1>2 DEF Trust!Deliver, Trust!Cases, TrustShape
<1>3. ASSUME NEW r \in Hand, Trust!StoreChargeback(r) PROVE TrustShape'
  <2> DEFINE d == trustRequest[r].dispute
  <2>1. CASE d \in DOMAIN trustChargebacks
    BY <1>1, <1>3, <2>1 DEF Trust!StoreChargeback, Trust!Cases, Trust!Idle, TrustShape
  <2>2. CASE d \notin DOMAIN trustChargebacks
    <3>1. DOMAIN trustChargebacks' = DOMAIN trustChargebacks \cup {d}
      BY <1>3, <2>2 DEF Trust!StoreChargeback, Trust!With
    <3>2. IsFiniteSet(DOMAIN trustChargebacks')
      BY <3>1, FS_AddElement DEF TrustShape
    <3> QED
      BY <1>1, <1>3, <2>2, <3>2 DEF Trust!StoreChargeback, Trust!Cases, TrustShape
  <2> QED
    BY <2>1, <2>2
<1>4. ASSUME NEW r \in Hand, Trust!CountChargebacks(r) PROVE TrustShape'
  BY <1>1, <1>4 DEF Trust!CountChargebacks, Trust!Cases, Trust!Idle, TrustShape
<1>5. ASSUME NEW r \in Hand, NEW d \in DOMAIN trustChargebacks,
             Trust!SubmitEvidence(r, d) \/ Trust!OfferRefund(r, d)
      PROVE  TrustShape'
  BY <1>1, <1>5 DEF Trust!SubmitEvidence, Trust!OfferRefund, Trust!Cases, TrustShape
<1>6. ASSUME NEW r \in Hand, Trust!StoreEvidence(r) \/ Trust!StoreRefund(r) PROVE TrustShape'
  <2>1. DOMAIN trustChargebacks' = DOMAIN trustChargebacks
    BY <1>6 DEF Trust!StoreEvidence, Trust!StoreRefund
  <2> QED
    BY <1>1, <1>6, <2>1
       DEF Trust!StoreEvidence, Trust!StoreRefund, Trust!Cases, Trust!Idle, TrustShape
<1>7. ASSUME NEW r \in Hand, NEW c \in Campaign, NEW suspicion \in Suspicion,
             Trust!Scan(r, c, suspicion)
      PROVE  TrustShape'
  BY <1>1, <1>7 DEF Trust!Scan, TrustShape
<1>8. ASSUME NEW r \in Hand, Trust!StoreScan(r) PROVE TrustShape'
  BY <1>1, <1>8 DEF Trust!StoreScan, Trust!Idle, TrustShape
<1>9. ASSUME NEW r \in Hand, NEW c \in Campaign, NEW verdict \in DOMAIN Trust!Verdicts,
             Trust!DecideModeration(r, c, verdict)
      PROVE  TrustShape'
  BY <1>1, <1>9 DEF Trust!DecideModeration, Trust!Cases, TrustShape
<1>10. ASSUME NEW r \in Hand, Trust!StoreVerdict(r) PROVE TrustShape'
  BY <1>1, <1>10 DEF Trust!StoreVerdict, Trust!Idle, TrustShape
<1>11. ASSUME NEW f \in Flag, NEW c \in Campaign, Trust!CreateFlag(f, c) PROVE TrustShape'
  BY <1>11 DEF Trust!CreateFlag, TrustShape
<1>12. ASSUME NEW f \in Flag, NEW status, Trust!DecideFlag(f, status) PROVE TrustShape'
  BY <1>12 DEF Trust!DecideFlag, TrustShape
<1>13. CASE UNCHANGED Trust!vars
  BY <1>13 DEF Trust!vars, TrustShape
<1>14. ASSUME Trust!Stop PROVE TrustShape'
  BY <1>14 DEF Trust!Stop, TrustShape, Trust!Idle
<1> QED
  BY <1>2, <1>3, <1>4, <1>5, <1>6, <1>7, <1>8, <1>9, <1>10, <1>11, <1>12, <1>13, <1>14
     DEF Trust!Next, Trust!WebhookStep, Trust!AdminStep

-----------------------------------------------------------------------------
\* Who counts goes on counting while others go on; and a step that leaves the
\* chargebacks of a campaign alone and unfreezes nothing keeps what is said of it.
LEMMA QuietStepFreezes ==
    ASSUME TrustShape, NEW r \in Hand, NEW next, Trust!Continue(r, next),
           trustRequest[r].step # "count", trustChargebacks' = trustChargebacks,
               trustFrozen \subseteq trustFrozen',
           trustLost' = trustLost, Trust!ThirdChargebackFreezes
    PROVE  Trust!ThirdChargebackFreezes'
<1> SUFFICES ASSUME NEW c \in Campaign, Trust!Cardinality(Trust!ChargebacksOf(c)') >= 3,
        c \notin trustFrozen',
                    c \notin trustLost'
             PROVE  Trust!Counted(c)'
  BY DEF Trust!ThirdChargebackFreezes
<1>1. Trust!ChargebacksOf(c)' = Trust!ChargebacksOf(c)
  BY DEF Trust!ChargebacksOf
<1>2. PICK q \in Hand : trustRequest[q].step = "count" /\ trustRequest[q].campaign = c
  BY <1>1 DEF Trust!ThirdChargebackFreezes, Trust!Counted
<1>3. trustRequest'[q] = trustRequest[q]
  BY <1>2, Continued
<1> QED
  BY <1>2, <1>3 DEF Trust!Counted

\* A stored chargeback is counted by the request that stored it.
LEMMA StoreFreezes ==
    ASSUME TrustShape, Trust!ThirdChargebackFreezes, NEW r \in Hand, Trust!StoreChargeback(r)
    PROVE  Trust!ThirdChargebackFreezes'
<1> DEFINE d == trustRequest[r].dispute
<1>1. CASE d \in DOMAIN trustChargebacks
  BY <1>1, QuietStepFreezes DEF Trust!StoreChargeback, Trust!Cases
<1>2. CASE d \notin DOMAIN trustChargebacks
  <2> SUFFICES ASSUME NEW c \in Campaign, Trust!Cardinality(Trust!ChargebacksOf(c)') >= 3,
          c \notin trustFrozen',
                    c \notin trustLost'
               PROVE  Trust!Counted(c)'
    BY DEF Trust!ThirdChargebackFreezes
  <2>1. Trust!Continue(r, [step |-> "count", campaign |-> Against[d]])
    BY <1>2 DEF Trust!StoreChargeback
  <2>2. CASE c = Against[d]
    BY <2>1, <2>2, Continued DEF Trust!Counted
  <2>3. CASE c # Against[d]
    <3>1. DOMAIN trustChargebacks' = DOMAIN trustChargebacks \cup {d}
      BY <1>2 DEF Trust!StoreChargeback, Trust!With
    <3>2. Trust!ChargebacksOf(c)' = Trust!ChargebacksOf(c)
      BY <2>3, <3>1 DEF Trust!ChargebacksOf
    <3>3. PICK q \in Hand : trustRequest[q].step = "count" /\ trustRequest[q].campaign = c
      BY <3>2
         DEF Trust!ThirdChargebackFreezes, Trust!Counted, Trust!StoreChargeback, Trust!Cases
    <3>4. trustRequest'[q] = trustRequest[q]
      BY <2>1, <3>3, Continued DEF Trust!StoreChargeback
    <3> QED
      BY <3>3, <3>4 DEF Trust!Counted
  <2> QED
    BY <2>2, <2>3
<1> QED
  BY <1>1, <1>2

\* Whoever counts three or more freezes.
LEMMA CountFreezes ==
    ASSUME TrustShape, Trust!ThirdChargebackFreezes, NEW r \in Hand, Trust!CountChargebacks(r)
    PROVE  Trust!ThirdChargebackFreezes'
<1> SUFFICES ASSUME NEW c \in Campaign, Trust!Cardinality(Trust!ChargebacksOf(c)') >= 3,
        c \notin trustFrozen',
                    c \notin trustLost'
             PROVE  Trust!Counted(c)'
  BY DEF Trust!ThirdChargebackFreezes
<1>1. Trust!ChargebacksOf(c)' = Trust!ChargebacksOf(c)
  BY DEF Trust!CountChargebacks, Trust!ChargebacksOf
<1>2. PICK q \in Hand : trustRequest[q].step = "count" /\ trustRequest[q].campaign = c
  BY <1>1 DEF Trust!ThirdChargebackFreezes, Trust!Counted, Trust!CountChargebacks, Trust!Cases
<1>3. q # r
  BY <1>1, <1>2 DEF Trust!CountChargebacks, Trust!DecideCampaignFreeze
<1>4. trustRequest'[q] = trustRequest[q]
  BY <1>3, Continued DEF Trust!CountChargebacks
<1> QED
  BY <1>2, <1>4 DEF Trust!Counted

\* Rows that change their status stay rows.
LEMMA UpdateFreezes ==
    ASSUME TrustShape, Trust!ThirdChargebackFreezes, NEW r \in Hand,
        Trust!StoreEvidence(r) \/ Trust!StoreRefund(r)
    PROVE  Trust!ThirdChargebackFreezes'
<1> SUFFICES ASSUME NEW c \in Campaign, Trust!Cardinality(Trust!ChargebacksOf(c)') >= 3,
        c \notin trustFrozen',
                    c \notin trustLost'
             PROVE  Trust!Counted(c)'
  BY DEF Trust!ThirdChargebackFreezes
<1>1. DOMAIN trustChargebacks' = DOMAIN trustChargebacks
  BY DEF Trust!StoreEvidence, Trust!StoreRefund
<1>2. Trust!ChargebacksOf(c)' = Trust!ChargebacksOf(c)
  BY <1>1 DEF Trust!ChargebacksOf
<1>3. PICK q \in Hand : trustRequest[q].step = "count" /\ trustRequest[q].campaign = c
  BY <1>2
     DEF Trust!ThirdChargebackFreezes, Trust!Counted, Trust!StoreEvidence,
         Trust!StoreRefund, Trust!Cases
<1>4. trustRequest'[q] = trustRequest[q]
  BY <1>3, Continued DEF Trust!StoreEvidence, Trust!StoreRefund
<1> QED
  BY <1>3, <1>4 DEF Trust!Counted

\* The third chargeback freezes the campaign unless the process ends before they are
\* counted, for any number of requests, campaigns and disputes: "auto-freezes a
\* campaign at 3+ chargebacks" (ingest).
THEOREM ThirdChargebackAlwaysFreezes == Trust!Spec => []Trust!ThirdChargebackFreezes
<1>1. Trust!Init => Trust!ThirdChargebackFreezes
  <2> SUFFICES ASSUME Trust!Init, NEW c \in Campaign
      PROVE ~(Trust!Cardinality(Trust!ChargebacksOf(c)) >= 3)
    BY DEF Trust!ThirdChargebackFreezes
  <2>1. Trust!ChargebacksOf(c) = {}
    BY DEF Trust!Init, Trust!ChargebacksOf
  <2> QED
    BY <2>1, FS_EmptySet, TrustCardinality
<1>2. TrustShape /\ Trust!ThirdChargebackFreezes /\ [Trust!Next]_(Trust!vars) =>
          Trust!ThirdChargebackFreezes'
  <2> SUFFICES ASSUME TrustShape, Trust!ThirdChargebackFreezes, [Trust!Next]_(Trust!vars)
      PROVE Trust!ThirdChargebackFreezes'
    OBVIOUS
  <2>1. ASSUME NEW r \in Hand, Trust!WebhookStep(r) PROVE Trust!ThirdChargebackFreezes'
    <3>1. ASSUME NEW d \in Disputes, Trust!Deliver(r, d) PROVE Trust!ThirdChargebackFreezes'
      BY <3>1, QuietStepFreezes DEF Trust!Deliver, Trust!Idle, Trust!Cases
    <3> QED
      BY <2>1, <3>1, StoreFreezes, CountFreezes DEF Trust!WebhookStep
  <2>2. ASSUME NEW r \in Hand, Trust!AdminStep(r) PROVE Trust!ThirdChargebackFreezes'
    <3>1. ASSUME NEW d \in DOMAIN trustChargebacks,
              Trust!SubmitEvidence(r, d) \/ Trust!OfferRefund(r, d)
          PROVE  Trust!ThirdChargebackFreezes'
      BY <3>1, QuietStepFreezes
         DEF Trust!SubmitEvidence, Trust!OfferRefund, Trust!Idle, Trust!Cases
    <3>2. ASSUME NEW c \in Campaign, NEW suspicion \in Suspicion, Trust!Scan(r, c, suspicion)
          PROVE  Trust!ThirdChargebackFreezes'
      BY <3>2, QuietStepFreezes DEF Trust!Scan, Trust!Idle
    <3>3. ASSUME Trust!StoreScan(r) PROVE Trust!ThirdChargebackFreezes'
      BY <3>3, QuietStepFreezes DEF Trust!StoreScan
    <3>4. ASSUME NEW c \in Campaign, NEW verdict \in DOMAIN Trust!Verdicts,
                 Trust!DecideModeration(r, c, verdict)
          PROVE  Trust!ThirdChargebackFreezes'
      BY <3>4, QuietStepFreezes DEF Trust!DecideModeration, Trust!Idle, Trust!Cases
    <3>5. ASSUME Trust!StoreVerdict(r) PROVE Trust!ThirdChargebackFreezes'
      BY <3>5, QuietStepFreezes DEF Trust!StoreVerdict
    <3> QED
      BY <2>2, <3>1, <3>2, <3>3, <3>4, <3>5, UpdateFreezes DEF Trust!AdminStep
  <2>3. CASE UNCHANGED Trust!vars
    BY <2>3 DEF Trust!vars, Trust!ThirdChargebackFreezes, Trust!ChargebacksOf, Trust!Counted
  <2>4. ASSUME NEW f \in Flag, NEW c \in Campaign, Trust!CreateFlag(f, c)
        PROVE  Trust!ThirdChargebackFreezes'
    BY <2>4
       DEF Trust!CreateFlag, Trust!ThirdChargebackFreezes, Trust!ChargebacksOf, Trust!Counted
  <2>5. ASSUME NEW f \in Flag, NEW status, Trust!DecideFlag(f, status)
        PROVE  Trust!ThirdChargebackFreezes'
    BY <2>5
       DEF Trust!DecideFlag, Trust!ThirdChargebackFreezes, Trust!ChargebacksOf, Trust!Counted
  <2>6. ASSUME Trust!Stop PROVE Trust!ThirdChargebackFreezes'
    BY <2>6 DEF Trust!Stop, Trust!ThirdChargebackFreezes, Trust!ChargebacksOf
  <2> QED
    BY <2>1, <2>2, <2>3, <2>4, <2>5, <2>6 DEF Trust!Next
<1> QED
  BY <1>1, <1>2, TrustInitShape, TrustStepShape, PTL DEF Trust!Spec

-----------------------------------------------------------------------------
\* Nothing takes a chargeback away.
LEMMA ChargebacksGrow ==
    ASSUME TrustShape, TrustShape', [Trust!Next]_(Trust!vars), NEW c \in Campaign
    PROVE  Trust!Cardinality(Trust!ChargebacksOf(c)) >= 3 =>
        Trust!Cardinality(Trust!ChargebacksOf(c)') >= 3
<1>1. DOMAIN trustChargebacks \subseteq DOMAIN trustChargebacks'
  <2>1. ASSUME NEW r \in Hand, Trust!WebhookStep(r)
        PROVE DOMAIN trustChargebacks \subseteq DOMAIN trustChargebacks'
    BY <2>1
       DEF Trust!WebhookStep, Trust!Deliver, Trust!StoreChargeback, Trust!CountChargebacks,
           Trust!With
  <2>2. ASSUME NEW r \in Hand, Trust!AdminStep(r)
        PROVE DOMAIN trustChargebacks \subseteq DOMAIN trustChargebacks'
    BY <2>2
       DEF Trust!AdminStep, Trust!SubmitEvidence, Trust!OfferRefund, Trust!StoreEvidence,
           Trust!StoreRefund, Trust!Scan,
                Trust!StoreScan, Trust!DecideModeration, Trust!StoreVerdict
  <2>3. ASSUME NEW f \in Flag, NEW c2 \in Campaign, Trust!CreateFlag(f, c2)
        PROVE trustChargebacks' = trustChargebacks
    BY <2>3 DEF Trust!CreateFlag
  <2>4. ASSUME NEW f \in Flag, NEW status, Trust!DecideFlag(f, status)
        PROVE trustChargebacks' = trustChargebacks
    BY <2>4 DEF Trust!DecideFlag
  <2> QED
    BY <2>1, <2>2, <2>3, <2>4 DEF Trust!Next, Trust!Stop, Trust!vars
<1>2. Trust!ChargebacksOf(c) \subseteq Trust!ChargebacksOf(c)'
  BY <1>1 DEF Trust!ChargebacksOf
<1>3. IsFiniteSet(Trust!ChargebacksOf(c)')
  BY FS_Subset DEF TrustShape, Trust!ChargebacksOf
<1>4. Trust!Cardinality(Trust!ChargebacksOf(c)) <= Trust!Cardinality(Trust!ChargebacksOf(c)')
  BY <1>2, <1>3, FS_Subset, TrustCardinality
<1>5. IsFiniteSet(Trust!ChargebacksOf(c))
  BY <1>2, <1>3, FS_Subset
<1>6. Trust!Cardinality(Trust!ChargebacksOf(c)) \in Nat /\
          Trust!Cardinality(Trust!ChargebacksOf(c)') \in Nat
  BY <1>3, <1>5, FS_CardinalityType, TrustCardinality
<1> QED
  BY <1>4, <1>6

\* A campaign is frozen for three chargebacks or for a verdict, and a verdict stays
\* frozen, for any number of requests, campaigns and disputes (ingest, decide, scan).
THEOREM FreezesAlwaysHaveACause == Trust!Spec => []Trust!FreezeHasACause
<1>1. Trust!Init => Trust!FreezeHasACause
  BY DEF Trust!Init, Trust!FreezeHasACause, Trust!NoCase
<1>2. TrustShape /\ TrustShape' /\ Trust!FreezeHasACause /\ [Trust!Next]_(Trust!vars) =>
          Trust!FreezeHasACause'
  <2> SUFFICES ASSUME TrustShape, TrustShape', Trust!FreezeHasACause,
          [Trust!Next]_(Trust!vars) PROVE Trust!FreezeHasACause'
    OBVIOUS
  <2>1. ASSUME trustFrozen' = trustFrozen, trustRejected' = trustRejected,
            trustModeration' = trustModeration
        PROVE  Trust!FreezeHasACause'
    BY <2>1, ChargebacksGrow DEF Trust!FreezeHasACause
  <2>2. ASSUME NEW r \in Hand, Trust!CountChargebacks(r) PROVE Trust!FreezeHasACause'
    <3>1. \A c \in Campaign : Trust!ChargebacksOf(c)' = Trust!ChargebacksOf(c)
      BY <2>2 DEF Trust!CountChargebacks, Trust!ChargebacksOf
    <3>2. trustRejected' = trustRejected /\ trustModeration' = trustModeration /\
              trustFrozen \subseteq trustFrozen'
      BY <2>2 DEF Trust!CountChargebacks, Trust!Cases
    <3>3. ASSUME NEW c \in Campaign, c \in trustFrozen'
          PROVE  c \in trustRejected' \/ Trust!Cardinality(Trust!ChargebacksOf(c)') >= 3
      <4>1. CASE c \in trustFrozen
        BY <3>1, <3>2, <4>1 DEF Trust!FreezeHasACause
      <4>2. CASE c \notin trustFrozen
        <5>1. c = trustRequest[r].campaign /\
                  Trust!DecideCampaignFreeze(Trust!Cardinality(Trust!ChargebacksOf(c)))
          BY <2>2, <3>3, <4>2 DEF Trust!CountChargebacks
        <5> QED
          BY <3>1, <3>3, <5>1 DEF Trust!DecideCampaignFreeze
      <4> QED
        BY <4>1, <4>2
    <3> QED
      BY <3>2, <3>3 DEF Trust!FreezeHasACause
  <2>3. ASSUME NEW r \in Hand, Trust!StoreScan(r) PROVE Trust!FreezeHasACause'
    <3>1. \A c \in Campaign : trustModeration'[c].status = "REJECTED" =>
              trustModeration[c].status = "REJECTED"
      BY <2>3 DEF Trust!StoreScan, TrustShape
    <3> QED
      BY <2>3, <3>1, ChargebacksGrow DEF Trust!StoreScan, Trust!FreezeHasACause
  <2>4. ASSUME NEW r \in Hand, Trust!StoreVerdict(r) PROVE Trust!FreezeHasACause'
    <3> DEFINE given == trustRequest[r].verdict
    <3>1. given \in {"APPROVE", "REJECT", "ESCALATE"}
      BY <2>4 DEF Trust!StoreVerdict, TrustShape, Trust!Verdicts
    <3>2. Trust!Verdicts[given] = "REJECTED" => given = "REJECT"
      BY <3>1 DEF Trust!Verdicts
    <3>3. trustFrozen \subseteq trustFrozen' /\ trustRejected \subseteq trustRejected'
          /\ trustFrozen' \ trustFrozen \subseteq trustRejected'
      BY <2>4 DEF Trust!StoreVerdict, Trust!FreezesCampaign
    <3>4. ASSUME NEW c \in Campaign, trustModeration'[c].status = "REJECTED"
          PROVE c \in trustFrozen'
      <4>1. CASE c = trustRequest[r].campaign
        <5>1. trustModeration'[c].status = Trust!Verdicts[given]
          BY <2>4, <4>1 DEF Trust!StoreVerdict, TrustShape
        <5> QED
          BY <2>4, <3>2, <3>4, <4>1, <5>1 DEF Trust!StoreVerdict, Trust!FreezesCampaign
      <4>2. CASE c # trustRequest[r].campaign
        <5>1. trustModeration'[c] = trustModeration[c]
          BY <2>4, <4>2 DEF Trust!StoreVerdict, TrustShape
        <5> QED
          BY <3>3, <3>4, <5>1 DEF Trust!FreezeHasACause
      <4> QED
        BY <4>1, <4>2
    <3>5. ASSUME NEW c \in Campaign, c \in trustFrozen'
          PROVE  c \in trustRejected' \/ Trust!Cardinality(Trust!ChargebacksOf(c)') >= 3
      BY <3>3, <3>5, ChargebacksGrow DEF Trust!FreezeHasACause
    <3> QED
      BY <3>4, <3>5 DEF Trust!FreezeHasACause
  <2>5. ASSUME NEW r \in Hand, Trust!WebhookStep(r) PROVE Trust!FreezeHasACause'
    BY <2>1, <2>2, <2>5 DEF Trust!WebhookStep, Trust!Deliver, Trust!StoreChargeback, Trust!Cases
  <2>6. ASSUME NEW r \in Hand, Trust!AdminStep(r) PROVE Trust!FreezeHasACause'
    <3>1. CASE Trust!StoreScan(r) \/ Trust!StoreVerdict(r)
      BY <2>3, <2>4, <3>1
    <3>2. CASE ~(Trust!StoreScan(r) \/ Trust!StoreVerdict(r))
      BY <2>1, <2>6, <3>2
         DEF Trust!AdminStep, Trust!SubmitEvidence, Trust!OfferRefund, Trust!StoreEvidence,
                              Trust!StoreRefund, Trust!Scan, Trust!DecideModeration, Trust!Cases
    <3> QED
      BY <3>1, <3>2
  <2>7. ASSUME NEW f \in Flag, NEW c \in Campaign, Trust!CreateFlag(f, c)
        PROVE Trust!FreezeHasACause'
    BY <2>1, <2>7 DEF Trust!CreateFlag
  <2>8. ASSUME NEW f \in Flag, NEW status, Trust!DecideFlag(f, status)
        PROVE Trust!FreezeHasACause'
    BY <2>1, <2>8 DEF Trust!DecideFlag
  <2>9. CASE UNCHANGED Trust!vars
    BY <2>1, <2>9 DEF Trust!vars
  <2> QED
    BY <2>1, <2>5, <2>6, <2>7, <2>8, <2>9 DEF Trust!Next, Trust!Stop
<1> QED
  BY <1>1, <1>2, TrustInitShape, TrustStepShape, PTL DEF Trust!Spec

-----------------------------------------------------------------------------
\* What a request is about to store: of a dispute, a campaign, a score.
TrustRequests ==
    \A r \in Hand :
        /\ trustRequest[r].step \in Trust!Steps
        /\ trustRequest[r].step \in {"evidence", "refund"} =>
              trustRequest[r].dispute \in DOMAIN trustChargebacks
        /\ trustRequest[r].step = "refund" => trustRequest[r].dispute \in Low
        /\ trustRequest[r].step = "store" => trustRequest[r].dispute \in Disputes
        /\ trustRequest[r].step = "scan" => trustRequest[r].score \in 0..100
        /\ trustRequest[r].step \in {"count", "scan", "verdict"} =>
              trustRequest[r].campaign \in Campaign

\* The rows of the tables.
ChargebackRows == [status : {"OPEN", "EVIDENCE_SUBMITTED", "REFUND_OFFERED"},
                   evidence : BOOLEAN, refund : BOOLEAN]
CaseRows == [status : {"NONE", "OPEN", "APPROVED", "REJECTED", "ESCALATED"}, score : 0..100]
FlagRows == [campaign : Campaign, status : {"OPEN", "REVIEWED", "DISMISSED"}]

\* The types, as an invariant: what a request is about to store fits its row.
TrustTyped ==
    /\ Trust!TypeOK
    /\ TrustRequests
    /\ IsFiniteSet(DOMAIN trustFlags)
    /\ \A c \in Campaign : trustModeration[c] \in CaseRows
    /\ \A d \in DOMAIN trustChargebacks : trustChargebacks[d].refund => d \in Low

\* Empty tables have their types.
LEMMA TrustInitTyped == Trust!Init => TrustTyped
<1> SUFFICES ASSUME Trust!Init PROVE TrustTyped
  OBVIOUS
<1>1. DOMAIN trustChargebacks = {} /\ DOMAIN trustFlags = {}
  BY DEF Trust!Init
<1>2. IsFiniteSet(DOMAIN trustFlags)
  BY <1>1, FS_EmptySet
<1>3. TrustRequests
  BY DEF Trust!Init, TrustRequests, Trust!Idle, Trust!Steps
<1>4. Trust!TypeOK
  BY <1>1, BackOfficeAssumption
     DEF Trust!Init, Trust!TypeOK, Trust!Idle, Trust!Steps, Trust!NoCase, Trust!TrustAssumption
<1>5. \A c \in Campaign : trustModeration[c] \in CaseRows
  BY DEF Trust!Init, Trust!NoCase, CaseRows
<1> QED BY <1>1, <1>2, <1>3, <1>4, <1>5 DEF TrustTyped

\* A step that only moves a request keeps the types.
LEMMA MovesKeepTypes ==
    ASSUME TrustShape, TrustTyped, NEW r \in Hand, NEW next, Trust!Continue(r, next),
           next.step \in Trust!Steps,
           next.step \in {"evidence", "refund"} => next.dispute \in DOMAIN trustChargebacks,
           next.step = "refund" => next.dispute \in Low,
           next.step = "store" => next.dispute \in Disputes,
           next.step = "scan" => next.score \in 0..100,
           next.step \in {"count", "scan", "verdict"} => next.campaign \in Campaign,
           DOMAIN trustChargebacks \subseteq DOMAIN trustChargebacks'
    PROVE  TrustRequests'
<1>1. \A q \in Hand : trustRequest'[q] = IF q = r THEN next ELSE trustRequest[q]
  BY Continued
<1> QED BY <1>1 DEF TrustTyped, TrustRequests

\* A score is a number of percents (riskScore).
LEMMA ScansAreScored ==
    ASSUME TrustTyped, NEW c, NEW suspicion \in Nat
    PROVE  Trust!RiskScore(suspicion, Trust!OpenFlags(c)) \in 0..100
<1>1. Trust!OpenFlags(c) \in Nat
  <2> DEFINE open == {f \in DOMAIN trustFlags :
                        trustFlags[f].campaign = c /\ trustFlags[f].status = "OPEN"}
  <2>1. IsFiniteSet(open)
    BY FS_Subset DEF TrustTyped
  <2> HIDE DEF open
  <2>2. Trust!OpenFlags(c) = Cardinality(open)
    BY TrustCardinality DEF Trust!OpenFlags, open
  <2> QED BY <2>1, <2>2, FS_CardinalityType
<1>2. \A x, y \in Int : Trust!Min({x, y}) = IF x <= y THEN x ELSE y
  BY DEF Trust!Min
<1>3. \A n \in Nat : Trust!Min({n * 10, 30}) \in Nat
  <2>1. \A n \in Nat : Trust!Min({n * 10, 30}) = IF n * 10 <= 30 THEN n * 10 ELSE 30
    BY <1>2
  <2> QED BY <2>1
<1>4. \A x \in Nat : Trust!Min({100, x}) \in 0..100
  <2>1. \A x \in Nat : Trust!Min({100, x}) = IF 100 <= x THEN 100 ELSE x
    BY <1>2
  <2> QED BY <2>1
<1>5. suspicion + Trust!Min({Trust!OpenFlags(c) * 10, 30}) \in Nat
  BY <1>1, <1>3
<1> QED BY <1>4, <1>5 DEF Trust!RiskScore

\* What SubmitEvidence or OfferRefund announced is written to a row that is there.
LEMMA UpdatesAreTyped ==
    ASSUME TrustShape, TrustTyped, NEW r \in Hand,
        Trust!StoreEvidence(r) \/ Trust!StoreRefund(r)
    PROVE  /\ DOMAIN trustChargebacks' = DOMAIN trustChargebacks
           /\ trustRequest[r].dispute \in DOMAIN trustChargebacks
           /\ Trust!Continue(r, Trust!Idle)
           /\ \A d \in DOMAIN trustChargebacks \ {trustRequest[r].dispute} :
                 trustChargebacks'[d] = trustChargebacks[d]
           /\ Trust!StoreEvidence(r) => trustChargebacks'[trustRequest[r].dispute]
                 = [status |-> "EVIDENCE_SUBMITTED", evidence |-> TRUE,
                    refund |-> trustChargebacks[trustRequest[r].dispute].refund]
           /\ Trust!StoreRefund(r) => trustChargebacks'[trustRequest[r].dispute]
                 = [status |-> "REFUND_OFFERED", refund |-> TRUE,
                    evidence |-> trustChargebacks[trustRequest[r].dispute].evidence]
<1>1. PICK d \in DOMAIN trustChargebacks : d = trustRequest[r].dispute
  BY DEF Trust!StoreEvidence, Trust!StoreRefund, TrustTyped, TrustRequests
<1>2. PICK row \in ChargebackRows : row = trustChargebacks[d]
  BY DEF TrustTyped, Trust!TypeOK, ChargebackRows
<1>3. CASE Trust!StoreEvidence(r)
  <2>1. trustRequest[r].step = "evidence"
    BY <1>3 DEF Trust!StoreEvidence
  <2>2. ~Trust!StoreRefund(r)
    BY <2>1 DEF Trust!StoreRefund
  <2>3. trustChargebacks' = [trustChargebacks EXCEPT ![d].status = "EVIDENCE_SUBMITTED",
                                                     ![d].evidence = TRUE]
    BY <1>1, <1>3 DEF Trust!StoreEvidence
  <2>4. trustChargebacks'[d]
            = [[row EXCEPT !.status = "EVIDENCE_SUBMITTED"] EXCEPT !.evidence = TRUE]
    BY <1>2, <2>3
  <2>5. trustChargebacks'[d] = [status |-> "EVIDENCE_SUBMITTED", evidence |-> TRUE,
                                refund |-> row.refund]
    BY <1>2, <2>4 DEF ChargebackRows
  <2> QED BY <1>1, <1>2, <1>3, <2>2, <2>3, <2>5 DEF Trust!StoreEvidence
<1>4. CASE Trust!StoreRefund(r)
  <2>1. trustRequest[r].step = "refund"
    BY <1>4 DEF Trust!StoreRefund
  <2>2. ~Trust!StoreEvidence(r)
    BY <2>1 DEF Trust!StoreEvidence
  <2>3. trustChargebacks' = [trustChargebacks EXCEPT ![d].status = "REFUND_OFFERED",
                                                     ![d].refund = TRUE]
    BY <1>1, <1>4 DEF Trust!StoreRefund
  <2>4. trustChargebacks'[d] = [[row EXCEPT !.status = "REFUND_OFFERED"] EXCEPT !.refund = TRUE]
    BY <1>2, <2>3
  <2>5. trustChargebacks'[d] = [status |-> "REFUND_OFFERED", refund |-> TRUE,
                                evidence |-> row.evidence]
    BY <1>2, <2>4 DEF ChargebackRows
  <2> QED BY <1>1, <1>2, <1>4, <2>2, <2>3, <2>5 DEF Trust!StoreRefund
<1> QED BY <1>3, <1>4

\* What is left of the types when chargebacks, and when they only, change.
TrustRest ==
    /\ trustFrozen \subseteq Campaign /\ trustRejected \subseteq Campaign
    /\ trustLost \subseteq Campaign
    /\ DOMAIN trustFlags \subseteq Flag
    /\ \A f \in DOMAIN trustFlags : trustFlags[f] \in FlagRows
    /\ \A c \in Campaign : trustModeration[c] \in CaseRows
    /\ trustScans \in 0..MaxScans
    /\ IsFiniteSet(DOMAIN trustFlags)

\* The rows of chargebacks.
TrustBacks ==
    /\ DOMAIN trustChargebacks \subseteq Disputes
    /\ \A d \in DOMAIN trustChargebacks :
          trustChargebacks[d] \in ChargebackRows /\ (trustChargebacks[d].refund => d \in Low)

\* The parts of the types.
LEMMA TypedInParts == TrustTyped <=> TrustRequests /\ TrustRest /\ TrustBacks
BY DEF TrustTyped, TrustRequests, TrustRest, TrustBacks, Trust!TypeOK, ChargebackRows, FlagRows,
       CaseRows

\* Every step keeps the types.
LEMMA TrustStepTyped == TrustShape /\ TrustTyped /\ [Trust!Next]_(Trust!vars) => TrustTyped'
<1> SUFFICES ASSUME TrustShape, TrustTyped, [Trust!Next]_(Trust!vars) PROVE TrustTyped'
  OBVIOUS
<1> USE DEF Trust!Steps
<1>0. TrustRequests /\ TrustRest /\ TrustBacks
  BY TypedInParts
<1>1. TrustRequests' /\ TrustRest' /\ TrustBacks' => TrustTyped'
  BY DEF TrustTyped, TrustRequests, TrustRest, TrustBacks, Trust!TypeOK, ChargebackRows,
     FlagRows,
         CaseRows
<1>2. ASSUME UNCHANGED <<trustFrozen, trustFlags, trustModeration, trustRejected, trustLost,
                         trustScans>>
      PROVE  TrustRest'
  BY <1>0, <1>2 DEF TrustRest
<1>3. ASSUME UNCHANGED trustChargebacks PROVE TrustBacks'
  BY <1>0, <1>3 DEF TrustBacks
<1>4. Trust!Idle.step = "idle"
  BY DEF Trust!Idle
<1>5. ASSUME NEW r \in Hand, NEW d \in Disputes, Trust!Deliver(r, d) PROVE TrustTyped'
  <2>1. TrustRequests'
    BY <1>5, MovesKeepTypes DEF Trust!Deliver
  <2> QED BY <1>1, <1>2, <1>3, <1>5, <2>1 DEF Trust!Deliver, Trust!Cases
<1>6. ASSUME NEW r \in Hand, Trust!StoreChargeback(r) PROVE TrustTyped'
  <2>1. TrustRest'
    BY <1>2, <1>6 DEF Trust!StoreChargeback, Trust!Cases
  <2>2. PICK d \in Disputes : d = trustRequest[r].dispute
    BY <1>0, <1>6 DEF Trust!StoreChargeback, TrustRequests
  <2>3. CASE d \in DOMAIN trustChargebacks
    <3>1. Trust!Continue(r, Trust!Idle) /\ UNCHANGED trustChargebacks
      BY <1>6, <2>2, <2>3 DEF Trust!StoreChargeback
    <3>2. TrustRequests'
      BY <1>4, <3>1, MovesKeepTypes
    <3> QED BY <1>1, <1>3, <2>1, <3>1, <3>2
  <2>4. CASE d \notin DOMAIN trustChargebacks
    <3> DEFINE row == [status |-> "OPEN", evidence |-> FALSE, refund |-> FALSE]
    <3>1. /\ trustChargebacks' = Trust!With(trustChargebacks, d, row)
          /\ Trust!Continue(r, [step |-> "count", campaign |-> Against[d]])
      BY <1>6, <2>2, <2>4 DEF Trust!StoreChargeback
    <3>2. row \in ChargebackRows /\ ~row.refund
      BY DEF ChargebackRows
    <3> HIDE DEF row
    <3>3. /\ DOMAIN trustChargebacks' = DOMAIN trustChargebacks \cup {d}
          /\ trustChargebacks'[d] = row
          /\ \A e \in DOMAIN trustChargebacks \ {d} : trustChargebacks'[e] = trustChargebacks[e]
      BY <3>1 DEF Trust!With
    <3>4. TrustBacks'
      BY <1>0, <3>2, <3>3 DEF TrustBacks
    <3>5. Against[d] \in Campaign
      BY BackOfficeAssumption DEF Trust!TrustAssumption
    <3>6. TrustRequests'
      BY <3>1, <3>3, <3>5, MovesKeepTypes
    <3> QED BY <1>1, <2>1, <3>4, <3>6
  <2> QED BY <2>3, <2>4
<1>7. ASSUME NEW r \in Hand, Trust!CountChargebacks(r) PROVE TrustTyped'
  <2>1. TrustRequests'
    BY <1>4, <1>7, MovesKeepTypes DEF Trust!CountChargebacks
  <2>2. trustFrozen' \subseteq Campaign
    <3>1. CASE trustFrozen' = trustFrozen
      BY <1>0, <3>1 DEF TrustRest
    <3>2. CASE trustFrozen' = trustFrozen \cup {trustRequest[r].campaign}
      <4>1. trustRequest[r].campaign \in Campaign
        BY <1>0, <1>7 DEF Trust!CountChargebacks, TrustRequests
      <4> QED BY <1>0, <3>2, <4>1 DEF TrustRest
    <3> QED BY <1>7, <3>1, <3>2 DEF Trust!CountChargebacks
  <2>3. TrustRest'
    BY <1>0, <1>7, <2>2 DEF TrustRest, Trust!CountChargebacks, Trust!Cases
  <2> QED BY <1>1, <1>3, <1>7, <2>1, <2>3 DEF Trust!CountChargebacks
<1>8. ASSUME NEW r \in Hand, NEW d \in DOMAIN trustChargebacks,
             Trust!SubmitEvidence(r, d) \/ Trust!OfferRefund(r, d)
      PROVE  TrustTyped'
  <2>1. TrustRequests'
    BY <1>8, MovesKeepTypes DEF Trust!SubmitEvidence, Trust!OfferRefund, Trust!RefundSmall
  <2> QED BY <1>1, <1>2, <1>3, <1>8, <2>1
     DEF Trust!SubmitEvidence, Trust!OfferRefund, Trust!Cases
<1>9. ASSUME NEW r \in Hand, Trust!StoreEvidence(r) \/ Trust!StoreRefund(r) PROVE TrustTyped'
  <2>1. TrustRest'
    BY <1>2, <1>9 DEF Trust!StoreEvidence, Trust!StoreRefund, Trust!Cases
  <2>2. PICK d \in DOMAIN trustChargebacks : d = trustRequest[r].dispute
    BY <1>9, UpdatesAreTyped
  <2>3. DOMAIN trustChargebacks' = DOMAIN trustChargebacks /\ Trust!Continue(r, Trust!Idle)
    BY <1>9, UpdatesAreTyped
  <2>4. TrustRequests'
    BY <1>4, <2>3, MovesKeepTypes
  <2>5. \A e \in DOMAIN trustChargebacks \ {d} : trustChargebacks'[e] = trustChargebacks[e]
    BY <1>9, <2>2, UpdatesAreTyped
  <2>6. trustChargebacks'[d] \in ChargebackRows /\ (trustChargebacks'[d].refund => d \in Low)
    <3>1. trustChargebacks[d] \in ChargebackRows /\ (trustChargebacks[d].refund => d \in Low)
      BY <1>0 DEF TrustBacks
    <3>2. CASE Trust!StoreEvidence(r)
      <4>1. trustChargebacks'[d] = [status |-> "EVIDENCE_SUBMITTED", evidence |-> TRUE,
                                    refund |-> trustChargebacks[d].refund]
        BY <2>2, <3>2, UpdatesAreTyped
      <4> QED BY <3>1, <4>1 DEF ChargebackRows
    <3>3. CASE Trust!StoreRefund(r)
      <4>1. trustChargebacks'[d] = [status |-> "REFUND_OFFERED", refund |-> TRUE,
                                    evidence |-> trustChargebacks[d].evidence]
        BY <2>2, <3>3, UpdatesAreTyped
      <4>2. d \in Low
        BY <1>0, <2>2, <3>3 DEF TrustRequests, Trust!StoreRefund
      <4> QED BY <3>1, <4>1, <4>2 DEF ChargebackRows
    <3> QED BY <1>9, <3>2, <3>3
  <2>7. TrustBacks'
    BY <1>0, <2>3, <2>5, <2>6 DEF TrustBacks
  <2> QED BY <1>1, <2>1, <2>4, <2>7
<1>10. ASSUME NEW r \in Hand, NEW c \in Campaign, NEW suspicion \in Suspicion,
              Trust!Scan(r, c, suspicion)
       PROVE  TrustTyped'
  <2>1. suspicion \in Nat /\ MaxScans \in Nat
    BY BackOfficeAssumption DEF Trust!TrustAssumption
  <2>2. PICK score \in 0..100 : score = Trust!RiskScore(suspicion, Trust!OpenFlags(c))
    BY <2>1, ScansAreScored
  <2>3. Trust!Continue(r, [step |-> "scan", campaign |-> c, score |-> score])
    BY <1>10, <2>2 DEF Trust!Scan
  <2>4. TrustRequests'
    BY <1>10, <2>3, MovesKeepTypes DEF Trust!Scan
  <2>5. TrustRest'
    BY <1>0, <1>10, <2>1 DEF TrustRest, Trust!Scan
  <2> QED BY <1>1, <1>3, <1>10, <2>4, <2>5 DEF Trust!Scan
<1>11. ASSUME NEW r \in Hand, Trust!StoreScan(r) PROVE TrustTyped'
  <2>1. TrustRequests'
    BY <1>4, <1>11, MovesKeepTypes DEF Trust!StoreScan
  <2>2. \A c \in Campaign : trustModeration'[c] \in CaseRows
    <3>1. trustRequest[r].score \in 0..100
      BY <1>0, <1>11 DEF TrustRequests, Trust!StoreScan
    <3>2. \A c \in Campaign : trustModeration'[c]
             = IF c = trustRequest[r].campaign
                 THEN [status |-> "OPEN", score |-> trustRequest[r].score]
                                               ELSE trustModeration[c]
      BY <1>11 DEF Trust!StoreScan, TrustShape
    <3> QED BY <1>0, <3>1, <3>2 DEF TrustRest, CaseRows
  <2>3. TrustRest'
    BY <1>0, <1>11, <2>2 DEF TrustRest, Trust!StoreScan
  <2> QED BY <1>1, <1>3, <1>11, <2>1, <2>3 DEF Trust!StoreScan
<1>12. ASSUME NEW r \in Hand, NEW c \in Campaign, NEW verdict \in DOMAIN Trust!Verdicts,
              Trust!DecideModeration(r, c, verdict)
       PROVE  TrustTyped'
  <2>1. TrustRequests'
    BY <1>12, MovesKeepTypes DEF Trust!DecideModeration
  <2> QED BY <1>1, <1>2, <1>3, <1>12, <2>1 DEF Trust!DecideModeration, Trust!Cases
<1>13. ASSUME NEW r \in Hand, Trust!StoreVerdict(r) PROVE TrustTyped'
  <2>1. TrustRequests'
    BY <1>4, <1>13, MovesKeepTypes DEF Trust!StoreVerdict
  <2>2. PICK c \in Campaign : c = trustRequest[r].campaign
    BY <1>0, <1>13 DEF Trust!StoreVerdict, TrustRequests
  <2>3. PICK status \in {"APPROVED", "REJECTED", "ESCALATED"} :
           status = Trust!Verdicts[trustRequest[r].verdict]
    BY <1>13 DEF TrustShape, Trust!StoreVerdict, Trust!Verdicts
  <2>4. trustModeration' = [trustModeration EXCEPT ![c].status = status]
    BY <1>13, <2>2, <2>3 DEF Trust!StoreVerdict
  <2>5. PICK case : case = trustModeration[c]
    OBVIOUS
  <2>6. \A b \in Campaign : trustModeration'[b]
           = IF b = c THEN [case EXCEPT !.status = status] ELSE trustModeration[b]
    BY <2>4, <2>5 DEF TrustShape
  <2>7. \A b \in Campaign : trustModeration'[b] \in CaseRows
    <3>1. case \in CaseRows
      BY <1>0, <2>5 DEF TrustRest
    <3>2. [case EXCEPT !.status = status] \in CaseRows
      BY <3>1 DEF CaseRows
    <3> QED BY <1>0, <2>6, <3>2 DEF TrustRest
  <2>8. trustFrozen' \subseteq Campaign /\ trustRejected' \subseteq Campaign
    BY <1>0, <1>13, <2>2 DEF TrustRest, Trust!StoreVerdict
  <2>9. TrustRest'
    BY <1>0, <1>13, <2>7, <2>8 DEF TrustRest, Trust!StoreVerdict
  <2> QED BY <1>1, <1>3, <1>13, <2>1, <2>9 DEF Trust!StoreVerdict
<1>14. ASSUME NEW f \in Flag, NEW c \in Campaign, Trust!CreateFlag(f, c) PROVE TrustTyped'
  <2>1. /\ DOMAIN trustFlags' = DOMAIN trustFlags \cup {f}
        /\ trustFlags'[f] = [campaign |-> c, status |-> "OPEN"]
        /\ \A g \in DOMAIN trustFlags \ {f} : trustFlags'[g] = trustFlags[g]
    BY <1>14 DEF Trust!CreateFlag, Trust!With
  <2>2. IsFiniteSet(DOMAIN trustFlags')
    BY <1>0, <2>1, FS_AddElement DEF TrustRest
  <2>3. \A g \in DOMAIN trustFlags' : trustFlags'[g] \in FlagRows
    BY <1>0, <2>1 DEF TrustRest, FlagRows
  <2>4. TrustRest'
    BY <1>0, <1>14, <2>1, <2>2, <2>3 DEF TrustRest, Trust!CreateFlag
  <2>5. TrustRequests'
    BY <1>0, <1>14 DEF TrustRequests, Trust!CreateFlag
  <2> QED BY <1>1, <1>3, <1>14, <2>4, <2>5 DEF Trust!CreateFlag
<1>15. ASSUME NEW f \in Flag, NEW status \in {"REVIEWED", "DISMISSED"},
           Trust!DecideFlag(f, status)
       PROVE  TrustTyped'
  <2>1. /\ DOMAIN trustFlags' = DOMAIN trustFlags
        /\ trustFlags'[f] = [trustFlags[f] EXCEPT !.status = status]
        /\ \A g \in DOMAIN trustFlags \ {f} : trustFlags'[g] = trustFlags[g]
        /\ f \in DOMAIN trustFlags
    BY <1>15 DEF Trust!DecideFlag
  <2>2. PICK row \in FlagRows : row = trustFlags[f]
    BY <1>0, <2>1 DEF TrustRest
  <2>3. [row EXCEPT !.status = status] \in FlagRows
    BY <2>2 DEF FlagRows
  <2>4. \A g \in DOMAIN trustFlags' : trustFlags'[g] \in FlagRows
    BY <1>0, <2>1, <2>2, <2>3 DEF TrustRest
  <2>5. TrustRest'
    BY <1>0, <1>15, <2>1, <2>4 DEF TrustRest, Trust!DecideFlag
  <2>6. TrustRequests'
    BY <1>0, <1>15 DEF TrustRequests, Trust!DecideFlag
  <2> QED BY <1>1, <1>3, <1>15, <2>5, <2>6 DEF Trust!DecideFlag
<1>16. ASSUME Trust!Stop PROVE TrustTyped'
  <2>1. TrustRequests'
    BY <1>4, <1>16 DEF TrustRequests, Trust!Stop
  <2>2. TrustRest'
    BY <1>0, <1>16 DEF TrustRest, Trust!Stop
  <2> QED BY <1>1, <1>3, <1>16, <2>1, <2>2 DEF Trust!Stop
<1>17. CASE UNCHANGED Trust!vars
  BY <1>0, <1>1, <1>2, <1>3, <1>17 DEF Trust!vars, TrustRequests
<1> QED
  BY <1>5, <1>6, <1>7, <1>8, <1>9, <1>10, <1>11, <1>12, <1>13, <1>14, <1>15, <1>16, <1>17
     DEF Trust!Next, Trust!WebhookStep, Trust!AdminStep

-----------------------------------------------------------------------------
\* The requests that have not ended.
TrustBusy == {h \in Hand : trustRequest[h] # Trust!Idle}

\* The steps of the part, with what requestsAlone remembers of them.
TrustMoves ==
    /\ [Trust!Next]_(Trust!vars)
    /\ requestsAlone' => requestsAlone
    /\ requestsAlone' => Cardinality(TrustBusy') <= 1 \/ TrustBusy' = TrustBusy

\* A row says what was stored of it, and what is about to be stored finds it open.
RowsAreOrdered ==
    \A d \in DOMAIN trustChargebacks :
        /\ trustChargebacks[d].status = "OPEN" =>
              ~trustChargebacks[d].evidence /\ ~trustChargebacks[d].refund
        /\ trustChargebacks[d].status = "EVIDENCE_SUBMITTED" => ~trustChargebacks[d].refund
        /\ trustChargebacks[d].status = "REFUND_OFFERED" => ~trustChargebacks[d].evidence

\* An update that is about to be stored finds its dispute open.
UpdatesFindOpen ==
    \A r \in Hand : trustRequest[r].step \in {"evidence", "refund"} =>
        trustChargebacks[trustRequest[r].dispute].status = "OPEN"

\* The inductive invariant: as long as requests do not overlap, at most one has not
\* ended, and rows and updates are in order.
TrustOrder ==
    /\ IsFiniteSet(TrustBusy)
    /\ requestsAlone => Cardinality(TrustBusy) <= 1 /\ RowsAreOrdered /\ UpdatesFindOpen

\* Requests that have not ended are finitely many: a step starts one at the most.
LEMMA BusyStaysFinite ==
    TrustShape /\ IsFiniteSet(TrustBusy) /\ [Trust!Next]_(Trust!vars) => IsFiniteSet(TrustBusy')
<1> SUFFICES ASSUME TrustShape, IsFiniteSet(TrustBusy), [Trust!Next]_(Trust!vars)
             PROVE  IsFiniteSet(TrustBusy')
  OBVIOUS
<1>1. ASSUME NEW r \in Hand, NEW next, Trust!Continue(r, next) PROVE IsFiniteSet(TrustBusy')
  <2>1. TrustBusy' \subseteq TrustBusy \cup {r}
    BY <1>1, Continued DEF TrustBusy
  <2> QED BY <2>1, FS_AddElement, FS_Subset
<1>2. ASSUME UNCHANGED trustRequest PROVE IsFiniteSet(TrustBusy')
  BY <1>2 DEF TrustBusy
<1>3. ASSUME Trust!Stop PROVE IsFiniteSet(TrustBusy')
  <2>1. TrustBusy' = {}
    BY <1>3 DEF Trust!Stop, TrustBusy
  <2> QED BY <2>1, FS_EmptySet
<1>4. ASSUME NEW r \in Hand, Trust!WebhookStep(r) PROVE IsFiniteSet(TrustBusy')
  BY <1>1, <1>4
     DEF Trust!WebhookStep, Trust!Deliver, Trust!StoreChargeback, Trust!CountChargebacks
<1>5. ASSUME NEW r \in Hand, Trust!AdminStep(r) PROVE IsFiniteSet(TrustBusy')
  BY <1>1, <1>5
     DEF Trust!AdminStep, Trust!SubmitEvidence, Trust!OfferRefund, Trust!StoreEvidence,
     Trust!StoreRefund, Trust!Scan, Trust!StoreScan, Trust!DecideModeration, Trust!StoreVerdict
<1> QED BY <1>2, <1>3, <1>4, <1>5 DEF Trust!Next, Trust!CreateFlag, Trust!DecideFlag, Trust!vars

\* Without disputes everything is in order.
LEMMA TrustInitOrder == Trust!Init => TrustOrder
<1> SUFFICES ASSUME Trust!Init PROVE TrustOrder
  OBVIOUS
<1>1. TrustBusy = {} /\ DOMAIN trustChargebacks = {}
  BY DEF Trust!Init, TrustBusy
<1>2. IsFiniteSet(TrustBusy) /\ Cardinality(TrustBusy) <= 1
  BY <1>1, FS_EmptySet
<1>3. RowsAreOrdered /\ UpdatesFindOpen
  BY <1>1 DEF Trust!Init, RowsAreOrdered, UpdatesFindOpen, Trust!Idle
<1> QED BY <1>2, <1>3 DEF TrustOrder

\* While one request only has not ended, the others have nothing to store.
LEMMA OthersAreIdle ==
    ASSUME IsFiniteSet(TrustBusy), Cardinality(TrustBusy) <= 1, NEW r \in TrustBusy
    PROVE  \A q \in Hand \ {r} : trustRequest[q] = Trust!Idle
<1>1. \A q \in TrustBusy : q = r
  BY OneAtMost
<1> QED BY <1>1 DEF TrustBusy

\* A step that moves a request to something else than an update, or to one of an
\* open row, and leaves the chargebacks alone.
LEMMA QuietStepOrder ==
    ASSUME TrustShape, RowsAreOrdered, UpdatesFindOpen, NEW r \in Hand, NEW next,
           Trust!Continue(r, next), UNCHANGED trustChargebacks,
           next.step \in {"evidence", "refund"} =>
               trustChargebacks[next.dispute].status = "OPEN"
    PROVE  RowsAreOrdered' /\ UpdatesFindOpen'
<1>1. \A q \in Hand : trustRequest'[q] = IF q = r THEN next ELSE trustRequest[q]
  BY Continued
<1> QED BY <1>1 DEF RowsAreOrdered, UpdatesFindOpen

\* Every step keeps the order, as long as requests do not overlap.
LEMMA TrustStepOrder ==
    TrustShape /\ TrustTyped /\ TrustOrder /\ TrustMoves => TrustOrder'
<1> SUFFICES ASSUME TrustShape, TrustTyped, TrustOrder, TrustMoves PROVE TrustOrder'
  OBVIOUS
<1>1. IsFiniteSet(TrustBusy')
  BY BusyStaysFinite DEF TrustOrder, TrustMoves
<1> SUFFICES ASSUME requestsAlone'
             PROVE  Cardinality(TrustBusy') <= 1 /\ RowsAreOrdered' /\ UpdatesFindOpen'
  BY <1>1 DEF TrustOrder
<1>2. IsFiniteSet(TrustBusy) /\ Cardinality(TrustBusy) <= 1 /\ RowsAreOrdered /\ UpdatesFindOpen
  BY DEF TrustOrder, TrustMoves
<1>3. Cardinality(TrustBusy') <= 1
  BY <1>2 DEF TrustMoves
<1> SUFFICES RowsAreOrdered' /\ UpdatesFindOpen'
  BY <1>3
<1>4. Trust!Idle.step = "idle"
  BY DEF Trust!Idle
<1>5. CASE UNCHANGED <<trustChargebacks, trustRequest>>
  BY <1>2, <1>5 DEF RowsAreOrdered, UpdatesFindOpen
<1>6. ASSUME NEW r \in Hand, Trust!WebhookStep(r) PROVE RowsAreOrdered' /\ UpdatesFindOpen'
  <2>1. ASSUME NEW d \in Disputes, Trust!Deliver(r, d) PROVE RowsAreOrdered' /\ UpdatesFindOpen'
    BY <1>2, <2>1, QuietStepOrder DEF Trust!Deliver
  <2>2. CASE Trust!CountChargebacks(r)
    BY <1>2, <1>4, <2>2, QuietStepOrder DEF Trust!CountChargebacks
  <2>3. CASE Trust!StoreChargeback(r)
    <3>1. PICK d : d = trustRequest[r].dispute
      OBVIOUS
    <3>2. CASE d \in DOMAIN trustChargebacks
      <4>1. Trust!Continue(r, Trust!Idle) /\ UNCHANGED trustChargebacks
        BY <2>3, <3>1, <3>2 DEF Trust!StoreChargeback
      <4> QED BY <1>2, <1>4, <4>1, QuietStepOrder
    <3>3. CASE d \notin DOMAIN trustChargebacks
      <4>1. /\ DOMAIN trustChargebacks' = DOMAIN trustChargebacks \cup {d}
            /\ trustChargebacks'[d] = [status |-> "OPEN", evidence |-> FALSE, refund |-> FALSE]
            /\ \A e \in DOMAIN trustChargebacks \ {d} : trustChargebacks'[e]
                = trustChargebacks[e]
            /\ Trust!Continue(r, [step |-> "count", campaign |-> Against[d]])
        BY <2>3, <3>1, <3>3 DEF Trust!StoreChargeback, Trust!With
      <4>2. RowsAreOrdered'
        BY <1>2, <4>1 DEF RowsAreOrdered
      <4>3. \A q \in Hand : q # r => trustRequest'[q] = trustRequest[q]
        BY <4>1, Continued
      <4>4. trustRequest'[r].step = "count"
        BY <4>1, Continued
      <4>5. \A q \in Hand : trustRequest[q].step \in {"evidence", "refund"} =>
               trustRequest[q].dispute \in DOMAIN trustChargebacks \ {d}
        BY <3>3 DEF TrustTyped, TrustRequests
      <4>6. UpdatesFindOpen'
        <5> SUFFICES ASSUME NEW q \in Hand, trustRequest'[q].step \in {"evidence", "refund"}
                     PROVE  trustChargebacks'[trustRequest'[q].dispute].status = "OPEN"
          BY DEF UpdatesFindOpen
        <5>1. q # r
          BY <4>4
        <5>2. trustRequest'[q] = trustRequest[q]
          BY <4>3, <5>1
        <5>3. PICK e : e = trustRequest[q].dispute
          OBVIOUS
        <5>4. trustChargebacks'[e] = trustChargebacks[e]
          BY <4>1, <4>5, <5>2, <5>3
        <5> QED BY <1>2, <5>2, <5>3, <5>4 DEF UpdatesFindOpen
      <4> QED BY <4>2, <4>6
    <3> QED BY <3>2, <3>3
  <2> QED BY <1>6, <2>1, <2>2, <2>3 DEF Trust!WebhookStep
<1>7. ASSUME NEW r \in Hand, Trust!AdminStep(r) PROVE RowsAreOrdered' /\ UpdatesFindOpen'
  <2>1. ASSUME NEW d \in DOMAIN trustChargebacks,
               Trust!SubmitEvidence(r, d) \/ Trust!OfferRefund(r, d)
        PROVE  RowsAreOrdered' /\ UpdatesFindOpen'
    BY <1>2, <2>1, QuietStepOrder DEF Trust!SubmitEvidence, Trust!OfferRefund
  <2>2. CASE Trust!StoreEvidence(r) \/ Trust!StoreRefund(r)
    <3>1. trustRequest[r].step \in {"evidence", "refund"}
      BY <2>2 DEF Trust!StoreEvidence, Trust!StoreRefund
    <3>2. r \in TrustBusy
      BY <1>4, <3>1 DEF TrustBusy
    <3>3. \A q \in Hand : trustRequest'[q] = Trust!Idle
      <4>1. \A q \in Hand \ {r} : trustRequest[q] = Trust!Idle
        BY <1>2, <3>2, OthersAreIdle
      <4>2. Trust!Continue(r, Trust!Idle)
        BY <2>2, UpdatesAreTyped
      <4>3. /\ trustRequest'[r] = Trust!Idle
            /\ \A q \in Hand \ {r} : trustRequest'[q] = trustRequest[q]
        BY <4>2, Continued
      <4> QED BY <4>1, <4>3
    <3>4. UpdatesFindOpen'
      BY <1>4, <3>3 DEF UpdatesFindOpen
    <3>5. PICK d \in DOMAIN trustChargebacks : d = trustRequest[r].dispute
      BY <2>2, UpdatesAreTyped
    <3>6. trustChargebacks[d].status = "OPEN"
      BY <1>2, <3>1, <3>5 DEF UpdatesFindOpen
    <3>7. ~trustChargebacks[d].evidence /\ ~trustChargebacks[d].refund
      BY <1>2, <3>6 DEF RowsAreOrdered
    <3>8. /\ DOMAIN trustChargebacks' = DOMAIN trustChargebacks
          /\ \A e \in DOMAIN trustChargebacks \ {d} : trustChargebacks'[e] = trustChargebacks[e]
      BY <2>2, <3>5, UpdatesAreTyped
    <3>9. \/ trustChargebacks'[d] = [status |-> "EVIDENCE_SUBMITTED", evidence |-> TRUE,
                                     refund |-> trustChargebacks[d].refund]
          \/ trustChargebacks'[d] = [status |-> "REFUND_OFFERED", refund |-> TRUE,
                                     evidence |-> trustChargebacks[d].evidence]
      BY <2>2, <3>5, UpdatesAreTyped
    <3>10. RowsAreOrdered'
      BY <1>2, <3>7, <3>8, <3>9 DEF RowsAreOrdered
    <3> QED BY <3>4, <3>10
  <2>3. ASSUME NEW c \in Campaign, NEW suspicion \in Suspicion, Trust!Scan(r, c, suspicion)
        PROVE  RowsAreOrdered' /\ UpdatesFindOpen'
    BY <1>2, <2>3, QuietStepOrder DEF Trust!Scan
  <2>4. CASE Trust!StoreScan(r)
    BY <1>2, <1>4, <2>4, QuietStepOrder DEF Trust!StoreScan
  <2>5. ASSUME NEW c \in Campaign, NEW verdict \in DOMAIN Trust!Verdicts,
               Trust!DecideModeration(r, c, verdict)
        PROVE  RowsAreOrdered' /\ UpdatesFindOpen'
    BY <1>2, <2>5, QuietStepOrder DEF Trust!DecideModeration
  <2>6. CASE Trust!StoreVerdict(r)
    BY <1>2, <1>4, <2>6, QuietStepOrder DEF Trust!StoreVerdict
  <2> QED BY <1>7, <2>1, <2>2, <2>3, <2>4, <2>5, <2>6 DEF Trust!AdminStep
<1>8. CASE Trust!Stop
  BY <1>2, <1>4, <1>8 DEF RowsAreOrdered, UpdatesFindOpen, Trust!Stop
<1> QED BY <1>5, <1>6, <1>7, <1>8
        DEF TrustMoves, Trust!Next, Trust!CreateFlag, Trust!DecideFlag, Trust!vars

\* As long as requests do not overlap, evidence and the offer of a refund exclude
\* each other, whatever else happens in between (submitEvidence, offerRefund).
LEMMA OrderExcludes ==
    TrustTyped /\ TrustOrder => (requestsAlone => Trust!EvidenceOrRefund)
<1> SUFFICES ASSUME TrustTyped, TrustOrder, requestsAlone, NEW d \in DOMAIN trustChargebacks
             PROVE  /\ ~(trustChargebacks[d].evidence /\ trustChargebacks[d].refund)
                    /\ trustChargebacks[d].refund => d \in Low
  BY DEF Trust!EvidenceOrRefund
<1>1. trustChargebacks[d].status \in {"OPEN", "EVIDENCE_SUBMITTED", "REFUND_OFFERED"}
  BY DEF TrustTyped, Trust!TypeOK
<1>2. RowsAreOrdered
  BY DEF TrustOrder
<1> QED BY <1>1, <1>2 DEF RowsAreOrdered, TrustTyped

-----------------------------------------------------------------------------
(* The donations of a donor, counted by age and status.                    *)

\* The cells of a history: an age, and a status; and those of payments that failed.
Cells == Fraud!Ages \X Fraud!Statuses
FailedCells == Fraud!Ages \X {"FAILED"}

\* A history counts donations, of which there are so many at most.
Counts(h, max) == h \in [Cells -> Nat] /\ Total(h, Cells) <= max

\* There are nine.
LEMMA CellsAreFinite ==
    /\ IsFiniteSet(Cells)
    /\ \A A \in SUBSET Fraud!Ages, B \in SUBSET Fraud!Statuses : A \X B \in SUBSET Cells
    /\ \A S \in SUBSET Cells : IsFiniteSet(S)
<1>1. IsFiniteSet(Fraud!Ages)
  <2>1. IsFiniteSet({"minutes"})
    BY FS_Singleton
  <2>2. IsFiniteSet({"minutes"} \cup {"hour"})
    BY <2>1, FS_AddElement
  <2>3. IsFiniteSet(({"minutes"} \cup {"hour"}) \cup {"older"})
    BY <2>2, FS_AddElement
  <2>4. Fraud!Ages = ({"minutes"} \cup {"hour"}) \cup {"older"}
    BY DEF Fraud!Ages
  <2> QED BY <2>3, <2>4
<1>2. IsFiniteSet(Fraud!Statuses)
  <2>1. IsFiniteSet({"SUCCEEDED"})
    BY FS_Singleton
  <2>2. IsFiniteSet({"SUCCEEDED"} \cup {"PLEDGED"})
    BY <2>1, FS_AddElement
  <2>3. IsFiniteSet(({"SUCCEEDED"} \cup {"PLEDGED"}) \cup {"FAILED"})
    BY <2>2, FS_AddElement
  <2>4. Fraud!Statuses = ({"SUCCEEDED"} \cup {"PLEDGED"}) \cup {"FAILED"}
    BY DEF Fraud!Statuses
  <2> QED BY <2>3, <2>4
<1>3. IsFiniteSet(Cells)
  BY <1>1, <1>2, FS_Product DEF Cells
<1> QED BY <1>3, FS_Subset DEF Cells

\* All donations, by age; and those of one age.
LEMMA CellsByAge ==
    ASSUME NEW h \in [Cells -> Nat]
    PROVE  /\ Total(h, Cells)
              = (h[<<"minutes", "SUCCEEDED">>] + h[<<"minutes",
                  "PLEDGED">>] + h[<<"minutes", "FAILED">>])
                + (h[<<"hour", "SUCCEEDED">>] + h[<<"hour", "PLEDGED">>] + h[<<"hour",
                    "FAILED">>])
                + (h[<<"older", "SUCCEEDED">>] + h[<<"older", "PLEDGED">>] + h[<<"older",
                    "FAILED">>])
           /\ Total(h, FailedCells)
              = h[<<"minutes", "FAILED">>] + h[<<"hour", "FAILED">>] + h[<<"older", "FAILED">>]
<1> DEFINE Of(a) == ({<<a, "SUCCEEDED">>} \cup {<<a, "PLEDGED">>}) \cup {<<a, "FAILED">>}
           F == ({<<"minutes", "FAILED">>} \cup {<<"hour", "FAILED">>}) \cup {<<"older",
               "FAILED">>}
<1>1. Cells = (Of("minutes") \cup Of("hour")) \cup Of("older")
  BY DEF Cells, Fraud!Ages, Fraud!Statuses
<1>2. FailedCells = F
  BY DEF FailedCells, Fraud!Ages
<1>3. \A a \in Fraud!Ages : /\ <<a, "SUCCEEDED">> \in Cells /\ <<a, "PLEDGED">> \in Cells
                            /\ <<a, "FAILED">> \in Cells
  BY DEF Cells, Fraud!Statuses
<1>4. \A p \in Cells : h[p] \in Int
  OBVIOUS
<1>5. ASSUME NEW a \in Fraud!Ages
      PROVE  /\ Of(a) \subseteq Cells
             /\ Total(h, Of(a))
                 = h[<<a, "SUCCEEDED">>] + h[<<a, "PLEDGED">>] + h[<<a, "FAILED">>]
  <2>1. /\ h[<<a, "SUCCEEDED">>] \in Int /\ h[<<a, "PLEDGED">>] \in Int
        /\ h[<<a, "FAILED">>] \in Int
    BY <1>3, <1>4
  <2>2. PICK A, B, C : /\ A = {<<a, "SUCCEEDED">>} /\ B = {<<a, "PLEDGED">>}
                       /\ C = {<<a, "FAILED">>}
    OBVIOUS
  <2>3. Total(h, Of(a)) = h[<<a, "SUCCEEDED">>] + h[<<a, "PLEDGED">>] + h[<<a, "FAILED">>]
    <3>1. A \cap B = {} /\ (A \cup B) \cap C = {} /\ \A e \in (A \cup B) \cup C : h[e] \in Int
      BY <2>1, <2>2
    <3>2. IsFiniteSet(A) /\ IsFiniteSet(B) /\ IsFiniteSet(C)
      BY <2>2, FS_Singleton
    <3>3. Total(h, (A \cup B) \cup C) = Total(h, A) + Total(h, B) + Total(h, C)
      BY <3>1, <3>2, TotalOfThree
    <3>4. /\ Total(h, A) = h[<<a, "SUCCEEDED">>] /\ Total(h, B) = h[<<a, "PLEDGED">>]
          /\ Total(h, C) = h[<<a, "FAILED">>]
      BY <2>1, <2>2, TotalOfOne
    <3> QED BY <2>2, <3>3, <3>4
  <2>4. Of(a) \subseteq Cells
    BY <1>3
  <2> QED BY <2>3, <2>4
<1>6. "minutes" \in Fraud!Ages /\ "hour" \in Fraud!Ages /\ "older" \in Fraud!Ages
  BY DEF Fraud!Ages
<1>7. Total(h, F)
          = h[<<"minutes", "FAILED">>] + h[<<"hour", "FAILED">>] + h[<<"older", "FAILED">>]
  <2>1. /\ h[<<"minutes", "FAILED">>] \in Int /\ h[<<"hour", "FAILED">>] \in Int
        /\ h[<<"older", "FAILED">>] \in Int
    BY <1>3, <1>4, <1>6
  <2>2. PICK A, B, C : /\ A = {<<"minutes", "FAILED">>} /\ B = {<<"hour", "FAILED">>}
                       /\ C = {<<"older", "FAILED">>}
    OBVIOUS
  <2>3. A \cap B = {} /\ (A \cup B) \cap C = {} /\ \A e \in (A \cup B) \cup C : h[e] \in Int
    BY <2>1, <2>2
  <2>4. IsFiniteSet(A) /\ IsFiniteSet(B) /\ IsFiniteSet(C)
    BY <2>2, FS_Singleton
  <2>5. Total(h, (A \cup B) \cup C) = Total(h, A) + Total(h, B) + Total(h, C)
    BY <2>3, <2>4, TotalOfThree
  <2>6. /\ Total(h, A) = h[<<"minutes", "FAILED">>] /\ Total(h, B) = h[<<"hour", "FAILED">>]
        /\ Total(h, C) = h[<<"older", "FAILED">>]
    BY <2>1, <2>2, TotalOfOne
  <2> QED BY <2>2, <2>5, <2>6
<1>8. /\ Of("minutes") \cap Of("hour") = {}
      /\ (Of("minutes") \cup Of("hour")) \cap Of("older") = {}
  OBVIOUS
<1> HIDE DEF Of, F
<1>9. /\ IsFiniteSet(Of("minutes")) /\ IsFiniteSet(Of("hour")) /\ IsFiniteSet(Of("older"))
  BY <1>5, <1>6, CellsAreFinite
<1>10. Total(h, Cells)
       = Total(h, Of("minutes")) + Total(h, Of("hour")) + Total(h, Of("older"))
  <2>1. \A p \in (Of("minutes") \cup Of("hour")) \cup Of("older") : h[p] \in Int
    BY <1>1, <1>4
  <2> QED BY <1>1, <1>8, <1>9, <2>1, TotalOfThree
<1> QED BY <1>2, <1>5, <1>6, <1>7, <1>10

\* The donations that are counted are numbers, and none is more than all.
LEMMA CellsAreNumbers ==
    ASSUME NEW max \in Nat, NEW h, Counts(h, max)
    PROVE  /\ Total(h, FailedCells) \in Nat /\ h \in [Cells -> 0..max]
<1>1. \A a \in Fraud!Ages, s \in Fraud!Statuses : h[<<a, s>>] \in Nat
  BY DEF Counts, Cells
<1>2. /\ h[<<"minutes", "SUCCEEDED">>] \in Nat /\ h[<<"minutes", "PLEDGED">>] \in Nat
      /\ h[<<"minutes", "FAILED">>] \in Nat
      /\ h[<<"hour", "SUCCEEDED">>] \in Nat /\ h[<<"hour", "PLEDGED">>] \in Nat
      /\ h[<<"hour", "FAILED">>] \in Nat
      /\ h[<<"older", "SUCCEEDED">>] \in Nat /\ h[<<"older", "PLEDGED">>] \in Nat
      /\ h[<<"older", "FAILED">>] \in Nat
  BY <1>1 DEF Fraud!Ages, Fraud!Statuses
<1>3. Total(h, FailedCells) \in Nat
  BY <1>2, CellsByAge DEF Counts
<1>4. ASSUME NEW a \in Fraud!Ages, NEW s \in Fraud!Statuses PROVE h[<<a, s>>] <= max
  <2> DEFINE t == Total(h, Cells)
  <2>1. t <= max
    BY DEF Counts
  <2>2. t = (h[<<"minutes", "SUCCEEDED">>] + h[<<"minutes", "PLEDGED">>] + h[<<"minutes",
            "FAILED">>])
            + (h[<<"hour", "SUCCEEDED">>] + h[<<"hour", "PLEDGED">>] + h[<<"hour", "FAILED">>])
            + (h[<<"older", "SUCCEEDED">>] + h[<<"older", "PLEDGED">>] + h[<<"older",
                "FAILED">>])
    BY CellsByAge DEF Counts
  <2> HIDE DEF t
  <2>3. t \in Int
    BY <1>2, <2>2
  <2>4. CASE a = "minutes"
    BY <1>2, <2>1, <2>2, <2>3, <2>4 DEF Fraud!Statuses
  <2>5. CASE a = "hour"
    BY <1>2, <2>1, <2>2, <2>3, <2>5 DEF Fraud!Statuses
  <2>6. CASE a = "older"
    BY <1>2, <2>1, <2>2, <2>3, <2>6 DEF Fraud!Statuses
  <2> QED BY <2>4, <2>5, <2>6 DEF Fraud!Ages
<1>5. \A p \in Cells : h[p] \in 0..max
  BY <1>1, <1>4 DEF Cells
<1> QED BY <1>3, <1>5 DEF Counts

\* Another donation is one more, and a failure less in no count.
LEMMA DonationCounts ==
    ASSUME NEW max \in Nat, NEW h, Counts(h, max), Total(h, Cells) < max,
           NEW status \in Fraud!Statuses, NEW k,
           k = [h EXCEPT ![<<"minutes", status>>] = @ + 1]
    PROVE  /\ Counts(k, max)
           /\ Total(k, FailedCells) >= Total(h, FailedCells)
<1>1. PICK p \in Cells : p = <<"minutes", status>>
  BY DEF Cells, Fraud!Ages
<1>2. h \in [Cells -> Nat]
  BY DEF Counts
<1>3. k = [h EXCEPT ![p] = h[p] + 1]
  BY <1>1
<1>4. k \in [Cells -> Nat]
  BY <1>2, <1>3
<1>5. k[p] = h[p] + 1 /\ \A x \in Cells \ {p} : k[x] = h[x]
  BY <1>2, <1>3
<1>6. Total(k, Cells) = Total(h, Cells) + 1
  <2>1. IsFiniteSet(Cells) /\ \A x \in Cells : h[x] \in Int
    BY <1>2, CellsAreFinite
  <2> QED BY <2>1, <1>5, OneMore
<1>7. Total(h, Cells) \in Int
  <2>1. IsFiniteSet(Cells) /\ \A x \in Cells : h[x] \in Int
    BY <1>2, CellsAreFinite
  <2> QED BY <2>1, TotalSplits
<1>8. Total(k, FailedCells) >= Total(h, FailedCells)
  <2>1. Total(h, FailedCells) = h[<<"minutes", "FAILED">>] + h[<<"hour", "FAILED">>]
                                + h[<<"older", "FAILED">>]
    BY <1>2, CellsByAge
  <2>2. Total(k, FailedCells) = k[<<"minutes", "FAILED">>] + k[<<"hour", "FAILED">>]
                                + k[<<"older", "FAILED">>]
    BY <1>4, CellsByAge
  <2>3. /\ <<"minutes", "FAILED">> \in Cells /\ <<"hour", "FAILED">> \in Cells
        /\ <<"older", "FAILED">> \in Cells
    BY DEF Cells, Fraud!Ages, Fraud!Statuses
  <2>4. \A x \in Cells : h[x] \in Nat /\ k[x] \in Nat /\ k[x] >= h[x]
    BY <1>2, <1>4, <1>5
  <2> QED BY <2>1, <2>2, <2>3, <2>4
<1> QED BY <1>4, <1>6, <1>7, <1>8 DEF Counts

\* Time passes: everything is in the next cell.
Aged(h) == [p \in Fraud!Ages \X Fraud!Statuses |->
               CASE p[1] = "minutes" -> 0
                 [] p[1] = "hour" -> h[<<"minutes", p[2]>>]
                 [] p[1] = "older" -> h[<<"hour", p[2]>>] + h[p]]

\* What a history says after a while.
LEMMA AllGrowOlder ==
    ASSUME NEW h, \A a \in Fraud!Ages, s \in Fraud!Statuses : h[<<a, s>>] \in Nat, NEW k,
           k = Aged(h)
    PROVE  /\ k \in [Cells -> Nat]
           /\ \A s \in Fraud!Statuses :
                 /\ k[<<"minutes", s>>] = 0
                 /\ k[<<"hour", s>>] = h[<<"minutes", s>>]
                 /\ k[<<"older", s>>] = h[<<"hour", s>>] + h[<<"older", s>>]
<1> DEFINE Older(p) == CASE p[1] = "minutes" -> 0
                         [] p[1] = "hour" -> h[<<"minutes", p[2]>>]
                         [] p[1] = "older" -> h[<<"hour", p[2]>>] + h[p]
<1>1. k = [p \in Cells |-> Older(p)]
  BY DEF Cells, Aged
<1>2. \A s : /\ Older(<<"minutes", s>>) = 0
             /\ Older(<<"hour", s>>) = h[<<"minutes", s>>]
             /\ Older(<<"older", s>>) = h[<<"hour", s>>] + h[<<"older", s>>]
  OBVIOUS
<1> HIDE DEF Older
<1>3. \A s \in Fraud!Statuses : /\ h[<<"minutes", s>>] \in Nat
                                /\ h[<<"hour", s>>] \in Nat
                                /\ h[<<"older", s>>] \in Nat
  BY DEF Fraud!Ages
<1>4. ASSUME NEW a \in Fraud!Ages, NEW s \in Fraud!Statuses
      PROVE  <<a, s>> \in Cells /\ Older(<<a, s>>) \in Nat
  <2>1. CASE a = "minutes"
    BY <1>2, <2>1 DEF Cells
  <2>2. CASE a = "hour"
    BY <1>2, <1>3, <2>2 DEF Cells
  <2>3. CASE a = "older"
    <3>1. Older(<<a, s>>) = h[<<"hour", s>>] + h[<<"older", s>>]
      BY <1>2, <2>3
    <3>2. Older(<<a, s>>) \in Nat
      <4>1. h[<<"hour", s>>] \in Nat /\ h[<<"older", s>>] \in Nat
        BY <1>3
      <4> QED BY <3>1, <4>1
    <3> QED BY <3>2 DEF Cells
  <2> QED BY <2>1, <2>2, <2>3 DEF Fraud!Ages
<1>5. \A p \in Cells : Older(p) \in Nat
  BY <1>4 DEF Cells
<1>6. k \in [Cells -> Nat]
  BY <1>1, <1>5
<1>7. \A s \in Fraud!Statuses :
         /\ <<"minutes", s>> \in Cells /\ <<"hour", s>> \in Cells /\ <<"older", s>> \in Cells
  BY DEF Cells, Fraud!Ages
<1>8. \A p \in Cells : k[p] = Older(p)
  BY <1>1
<1> QED BY <1>2, <1>6, <1>7, <1>8

\* What grows older is not lost.
LEMMA AgingCounts ==
    ASSUME NEW max \in Nat, NEW h, Counts(h, max), NEW k \in [Cells -> Nat],
           \A s \in Fraud!Statuses :
              /\ k[<<"minutes", s>>] = 0
              /\ k[<<"hour", s>>] = h[<<"minutes", s>>]
              /\ k[<<"older", s>>] = h[<<"hour", s>>] + h[<<"older", s>>]
    PROVE  /\ Counts(k, max)
           /\ Total(k, FailedCells) = Total(h, FailedCells)
<1>1. \A a \in Fraud!Ages, s \in Fraud!Statuses : h[<<a, s>>] \in Nat
  BY DEF Counts, Cells
<1>2. \A s \in Fraud!Statuses : /\ h[<<"minutes", s>>] \in Nat
                                /\ h[<<"hour", s>>] \in Nat
                                /\ h[<<"older", s>>] \in Nat
  BY <1>1 DEF Fraud!Ages
<1>3. "SUCCEEDED" \in Fraud!Statuses /\ "PLEDGED" \in Fraud!Statuses
      /\ "FAILED" \in Fraud!Statuses
  BY DEF Fraud!Statuses
<1>4. h \in [Cells -> Nat]
  BY DEF Counts
<1>5. Total(k, Cells) = Total(h, Cells)
  <2>1. Total(h, Cells)
        = (h[<<"minutes", "SUCCEEDED">>] + h[<<"minutes", "PLEDGED">>] + h[<<"minutes",
            "FAILED">>])
          + (h[<<"hour", "SUCCEEDED">>] + h[<<"hour", "PLEDGED">>] + h[<<"hour", "FAILED">>])
          + (h[<<"older", "SUCCEEDED">>] + h[<<"older", "PLEDGED">>] + h[<<"older", "FAILED">>])
    BY <1>4, CellsByAge
  <2>2. Total(k, Cells)
        = (k[<<"minutes", "SUCCEEDED">>] + k[<<"minutes", "PLEDGED">>] + k[<<"minutes",
            "FAILED">>])
          + (k[<<"hour", "SUCCEEDED">>] + k[<<"hour", "PLEDGED">>] + k[<<"hour", "FAILED">>])
          + (k[<<"older", "SUCCEEDED">>] + k[<<"older", "PLEDGED">>] + k[<<"older", "FAILED">>])
    BY CellsByAge
  <2>3. ASSUME NEW s \in Fraud!Statuses
        PROVE  k[<<"minutes", s>>] + k[<<"hour", s>>] + k[<<"older", s>>]
               = h[<<"minutes", s>>] + h[<<"hour", s>>] + h[<<"older", s>>]
    BY <1>2
  <2>4. \A a \in {"minutes", "hour", "older"}, s \in Fraud!Statuses :
           h[<<a, s>>] \in Nat /\ k[<<a, s>>] \in Nat
    <3>1. \A s \in Fraud!Statuses : /\ k[<<"minutes", s>>] \in Nat
                                    /\ k[<<"hour", s>>] \in Nat
                                    /\ k[<<"older", s>>] \in Nat
      <4> TAKE s \in Fraud!Statuses
      <4>1. k[<<"minutes", s>>] = 0
        OBVIOUS
      <4>2. k[<<"hour", s>>] = h[<<"minutes", s>>]
        OBVIOUS
      <4>3. k[<<"older", s>>] = h[<<"hour", s>>] + h[<<"older", s>>]
        OBVIOUS
      <4>4. /\ h[<<"minutes", s>>] \in Nat /\ h[<<"hour", s>>] \in Nat
            /\ h[<<"older", s>>] \in Nat
        BY <1>2
      <4> QED BY <4>1, <4>2, <4>3, <4>4
    <3> QED BY <1>2, <3>1
  <2> DEFINE Up(f, s) == f[<<"minutes", s>>] + f[<<"hour", s>>] + f[<<"older", s>>]
  <2>5. Total(h, Cells) = Up(h, "SUCCEEDED") + Up(h, "PLEDGED") + Up(h, "FAILED")
    BY <1>3, <2>1, <2>4
  <2>6. Total(k, Cells) = Up(k, "SUCCEEDED") + Up(k, "PLEDGED") + Up(k, "FAILED")
    BY <1>3, <2>2, <2>4
  <2>7. \A s \in Fraud!Statuses : Up(k, s) = Up(h, s)
    BY <2>3
  <2> HIDE DEF Up
  <2> QED BY <1>3, <2>5, <2>6, <2>7
<1>6. Total(k, FailedCells) = Total(h, FailedCells)
  <2>1. Total(h, FailedCells)
        = h[<<"minutes", "FAILED">>] + h[<<"hour", "FAILED">>] + h[<<"older", "FAILED">>]
    BY <1>4, CellsByAge
  <2>2. Total(k, FailedCells)
        = k[<<"minutes", "FAILED">>] + k[<<"hour", "FAILED">>] + k[<<"older", "FAILED">>]
    BY CellsByAge
  <2> QED BY <1>2, <1>3, <2>1, <2>2
<1> QED BY <1>5, <1>6 DEF Counts

\* The sums of the rules are the sums over cells.
LEMMA NumbersAreTotals ==
    /\ \A h, A, B : Fraud!Number(h, A, B) = Total(h, A \X B)
    /\ \A h, A, B : Scores!Number(h, A, B) = Total(h, A \X B)
    /\ Scores!Ages = Fraud!Ages /\ Scores!Statuses = Fraud!Statuses
<1>1. \A h, A, B : Fraud!Number(h, A, B) = Total(h, A \X B)
  BY DEF Fraud!Number, Fraud!MapThenSumSet, Fraud!MapThenFoldSet, Total, MapThenSumSet,
         MapThenFoldSet
<1>2. \A h, A, B : Scores!Number(h, A, B) = Total(h, A \X B)
  BY DEF Scores!Number, Scores!MapThenSumSet, Scores!MapThenFoldSet, Total, MapThenSumSet,
         MapThenFoldSet
<1> QED BY <1>1, <1>2 DEF Fraud!Ages, Scores!Ages, Fraud!Statuses, Scores!Statuses

\* The lesser of two numbers.
LEMMA LesserOfTwo ==
    /\ \A x, y \in Int : Fraud!Min({x, y}) = IF x <= y THEN x ELSE y
    /\ \A x, y \in Int : Scores!Min({x, y}) = IF x <= y THEN x ELSE y
<1>1. \A x, y \in Int : Fraud!Min({x, y}) = IF x <= y THEN x ELSE y
  BY DEF Fraud!Min
<1>2. \A x, y \in Int : Scores!Min({x, y}) = IF x <= y THEN x ELSE y
  BY DEF Scores!Min
<1> QED BY <1>1, <1>2

\* One more failure counts one more wherever failures count, whatever the rules
\* compare it with: the score of a donation does not fall (detectCardTesting, scoreDonorRisk).
LEMMA WorseScoresMore ==
    ASSUME NEW h \in [Cells -> Nat], NEW t,
           NEW k, k = [h EXCEPT ![<<"minutes", "FAILED">>] = @ + 1]
    PROVE  Fraud!FraudScore(k, t) >= Fraud!FraudScore(h, t)
<1>1. PICK p \in Cells : p = <<"minutes", "FAILED">>
  BY DEF Cells, Fraud!Ages, Fraud!Statuses
<1>2. k = [h EXCEPT ![p] = h[p] + 1]
  BY <1>1
<1>3. k[p] = h[p] + 1 /\ (\A x \in Cells \ {p} : k[x] = h[x]) /\ \A x \in Cells : h[x] \in Int
  BY <1>2
<1>4. ASSUME NEW S \in SUBSET Cells, p \in S
      PROVE  Total(k, S) = Total(h, S) + 1 /\ Total(h, S) \in Int
  <2>1. IsFiniteSet(S) /\ (\A x \in S : h[x] \in Int) /\ \A x \in S \ {p} : k[x] = h[x]
    BY <1>3, CellsAreFinite
  <2>2. Total(k, S) = Total(h, S) + 1
    BY <1>3, <1>4, <2>1, OneMore
  <2> QED BY <2>1, <2>2, TotalSplits
<1> DEFINE Failed(f) == Fraud!Number(f, {"minutes"}, Fraud!Statuses \ {"SUCCEEDED"})
           Rapid(f) == Fraud!Number(f, {"minutes"}, Fraud!Statuses)
<1>5. /\ Failed(k) = Failed(h) + 1 /\ Failed(h) \in Int
      /\ Rapid(k) = Rapid(h) + 1 /\ Rapid(h) \in Int
      /\ Fraud!VelocityCount(k) = Fraud!VelocityCount(h) + 1 /\ Fraud!VelocityCount(h) \in Int
      /\ Fraud!FailedCount(k) = Fraud!FailedCount(h) + 1 /\ Fraud!FailedCount(h) \in Int
  <2>1. /\ {"minutes"} \X (Fraud!Statuses \ {"SUCCEEDED"}) \in SUBSET Cells
        /\ {"minutes"} \X Fraud!Statuses \in SUBSET Cells
        /\ {"minutes", "hour"} \X Fraud!Statuses \in SUBSET Cells
        /\ Fraud!Ages \X {"FAILED"} \in SUBSET Cells
    BY DEF Cells, Fraud!Ages, Fraud!Statuses
  <2>2. /\ p \in {"minutes"} \X (Fraud!Statuses \ {"SUCCEEDED"})
        /\ p \in {"minutes"} \X Fraud!Statuses
        /\ p \in {"minutes", "hour"} \X Fraud!Statuses
        /\ p \in Fraud!Ages \X {"FAILED"}
    BY <1>1 DEF Fraud!Ages, Fraud!Statuses
  <2>3. Failed(k) = Failed(h) + 1 /\ Failed(h) \in Int
    BY <1>4, <2>1, <2>2, NumbersAreTotals
  <2>4. Rapid(k) = Rapid(h) + 1 /\ Rapid(h) \in Int
    BY <1>4, <2>1, <2>2, NumbersAreTotals
  <2>5. Fraud!VelocityCount(k) = Fraud!VelocityCount(h) + 1 /\ Fraud!VelocityCount(h) \in Int
    BY <1>4, <2>1, <2>2, NumbersAreTotals DEF Fraud!VelocityCount
  <2>6. Fraud!FailedCount(k) = Fraud!FailedCount(h) + 1 /\ Fraud!FailedCount(h) \in Int
    BY <1>4, <2>1, <2>2, NumbersAreTotals DEF Fraud!FailedCount
  <2> QED BY <2>3, <2>4, <2>5, <2>6
<1> HIDE DEF Failed, Rapid
<1>6. /\ Fraud!CardTesting(k).score >= Fraud!CardTesting(h).score
      /\ Fraud!CardTesting(k).score \in Int /\ Fraud!CardTesting(h).score \in Int
  <2> DEFINE Score(f, r) ==
        Fraud!Points(f >= 3, 20 + 10 * Fraud!Min({f - 3, 4})) + Fraud!Points(r >= 5, 20)
        + Fraud!Points(Fraud!HighFailureRatio(f, r), 15)
  <2>1. \A f, r \in Int : Score(f, r) \in Int /\ Score(f + 1, r + 1) >= Score(f, r)
    <3> TAKE f, r \in Int
    <3>1. /\ Fraud!Min({f - 3, 4}) = IF f - 3 <= 4 THEN f - 3 ELSE 4
          /\ Fraud!Min({(f + 1) - 3, 4}) = IF (f + 1) - 3 <= 4 THEN (f + 1) - 3 ELSE 4
      BY LesserOfTwo
    <3>2. /\ Fraud!Points(f >= 3, 20 + 10 * Fraud!Min({f - 3, 4})) \in Int
          /\ Fraud!Points(f + 1 >= 3, 20 + 10 * Fraud!Min({(f + 1) - 3, 4})) \in Int
          /\ Fraud!Points(f + 1 >= 3, 20 + 10 * Fraud!Min({(f + 1) - 3, 4}))
             >= Fraud!Points(f >= 3, 20 + 10 * Fraud!Min({f - 3, 4}))
      BY <3>1 DEF Fraud!Points
    <3>3. /\ Fraud!Points(r >= 5, 20) \in Int /\ Fraud!Points(r + 1 >= 5, 20) \in Int
          /\ Fraud!Points(r + 1 >= 5, 20) >= Fraud!Points(r >= 5, 20)
      BY DEF Fraud!Points
    <3>4. /\ Fraud!Points(Fraud!HighFailureRatio(f, r), 15) \in Int
          /\ Fraud!Points(Fraud!HighFailureRatio(f + 1, r + 1), 15) \in Int
          /\ Fraud!Points(Fraud!HighFailureRatio(f + 1, r + 1), 15)
             >= Fraud!Points(Fraud!HighFailureRatio(f, r), 15)
      BY DEF Fraud!Points, Fraud!HighFailureRatio
    <3> QED BY <3>2, <3>3, <3>4
  <2>2. Fraud!CardTesting(k).score = Score(Failed(k), Rapid(k))
    BY DEF Fraud!CardTesting, Failed, Rapid
  <2>3. Fraud!CardTesting(h).score = Score(Failed(h), Rapid(h))
    BY DEF Fraud!CardTesting, Failed, Rapid
  <2> HIDE DEF Score
  <2>4. PICK f, r \in Int : f = Failed(h) /\ r = Rapid(h)
    BY <1>5
  <2>5. f + 1 = Failed(k) /\ r + 1 = Rapid(k) /\ f + 1 \in Int /\ r + 1 \in Int
    BY <1>5, <2>4
  <2>6. Score(f, r) \in Int /\ Score(f + 1, r + 1) \in Int /\ Score(f + 1, r + 1) >= Score(f, r)
    BY <2>1, <2>5
  <2> QED BY <2>2, <2>3, <2>4, <2>5, <2>6
<1>7. /\ Fraud!DonorRisk(k, t) >= Fraud!DonorRisk(h, t)
      /\ Fraud!DonorRisk(k, t) \in Int /\ Fraud!DonorRisk(h, t) \in Int
  <2> DEFINE risk(v, f) ==
        Fraud!Points(t.sanctioned, 30) + Fraud!Points(t.high, 40) + Fraud!Points(v > 5, 25)
        + Fraud!Points(t.prepaid, 15) + Fraud!Points(f >= 2, 20)
  <2>1. \A v, f \in Int : risk(v, f) \in Int /\ risk(v + 1, f + 1) >= risk(v, f)
    <3>1. \A c : Fraud!Points(c, 30) \in Int /\ Fraud!Points(c, 40) \in Int
                 /\ Fraud!Points(c, 25) \in Int /\ Fraud!Points(c, 15) \in Int
                 /\ Fraud!Points(c, 20) \in Int
      BY DEF Fraud!Points
    <3>2. \A v, f \in Int : /\ Fraud!Points(v + 1 > 5, 25) >= Fraud!Points(v > 5, 25)
                            /\ Fraud!Points(f + 1 >= 2, 20) >= Fraud!Points(f >= 2, 20)
      BY DEF Fraud!Points
    <3> TAKE v, f \in Int
    <3>3. /\ Fraud!Points(v + 1 > 5, 25) >= Fraud!Points(v > 5, 25)
          /\ Fraud!Points(f + 1 >= 2, 20) >= Fraud!Points(f >= 2, 20)
      BY <3>2
    <3>4. /\ Fraud!Points(t.sanctioned, 30) \in Int /\ Fraud!Points(t.high, 40) \in Int
          /\ Fraud!Points(t.prepaid, 15) \in Int
          /\ Fraud!Points(v > 5, 25) \in Int /\ Fraud!Points(v + 1 > 5, 25) \in Int
          /\ Fraud!Points(f >= 2, 20) \in Int /\ Fraud!Points(f + 1 >= 2, 20) \in Int
      BY <3>1
    <3> QED BY <3>3, <3>4
  <2>2. Fraud!DonorRisk(k, t) = Fraud!Clamp(risk(Fraud!VelocityCount(k), Fraud!FailedCount(k)))
    BY DEF Fraud!DonorRisk
  <2>3. Fraud!DonorRisk(h, t) = Fraud!Clamp(risk(Fraud!VelocityCount(h), Fraud!FailedCount(h)))
    BY DEF Fraud!DonorRisk
  <2> HIDE DEF risk
  <2>4. \A x \in Int : Fraud!Clamp(x) = IF x <= 100 THEN x ELSE 100
    BY LesserOfTwo DEF Fraud!Clamp
  <2>5. PICK v, f \in Int : v = Fraud!VelocityCount(h) /\ f = Fraud!FailedCount(h)
    BY <1>5
  <2>6. v + 1 = Fraud!VelocityCount(k) /\ f + 1 = Fraud!FailedCount(k)
        /\ v + 1 \in Int /\ f + 1 \in Int
    BY <1>5, <2>5
  <2>7. risk(v, f) \in Int /\ risk(v + 1, f + 1) \in Int /\ risk(v + 1, f + 1) >= risk(v, f)
    BY <2>1, <2>6
  <2>8. Fraud!Clamp(risk(v + 1, f + 1)) >= Fraud!Clamp(risk(v, f))
        /\ Fraud!Clamp(risk(v, f)) \in Int /\ Fraud!Clamp(risk(v + 1, f + 1)) \in Int
    BY <2>4, <2>7
  <2> QED BY <2>2, <2>3, <2>5, <2>6, <2>8
<1>8. \A x \in Int : Fraud!Clamp(x) = IF x <= 100 THEN x ELSE 100
  BY LesserOfTwo DEF Fraud!Clamp
<1> QED BY <1>6, <1>7, <1>8 DEF Fraud!FraudScore

-----------------------------------------------------------------------------
\* Of one donor: counts in their bounds, and nobody writes.
DonorCounts ==
    /\ Counts(fraudRecent, MaxDonations)
    /\ fraudChargebackCount \in 0..MaxChargebacks
    /\ fraudDonor = [risk |-> 0, frozen |-> FALSE]

\* A history without donations.
LEMMA NoDonations == ASSUME NEW max \in Nat PROVE Counts([p \in Cells |-> 0], max)
<1> DEFINE h == [p \in Cells |-> 0]
<1>1. h \in [Cells -> Nat] /\ \A p \in Cells : h[p] = 0
  OBVIOUS
<1> HIDE DEF h
<1>2. \A a \in Fraud!Ages, s \in Fraud!Statuses : h[<<a, s>>] = 0
  BY <1>1 DEF Cells
<1>3. Total(h, Cells) = 0
  <2>1. /\ h[<<"minutes", "SUCCEEDED">>] = 0 /\ h[<<"minutes", "PLEDGED">>] = 0
        /\ h[<<"minutes", "FAILED">>] = 0
        /\ h[<<"hour", "SUCCEEDED">>] = 0 /\ h[<<"hour", "PLEDGED">>] = 0
        /\ h[<<"hour", "FAILED">>] = 0
        /\ h[<<"older", "SUCCEEDED">>] = 0 /\ h[<<"older", "PLEDGED">>] = 0
        /\ h[<<"older", "FAILED">>] = 0
    BY <1>2 DEF Fraud!Ages, Fraud!Statuses
  <2> QED BY <1>1, <2>1, CellsByAge
<1>4. Counts(h, max)
  BY <1>1, <1>3 DEF Counts
<1> QED BY <1>4 DEF h

\* A donor without donations.
LEMMA DonorInit == Fraud!Init => DonorCounts
<1> SUFFICES ASSUME Fraud!Init PROVE DonorCounts
  OBVIOUS
<1>1. MaxDonations \in Nat /\ MaxChargebacks \in Nat
  BY BackOfficeAssumption DEF Fraud!FraudAssumption
<1>2. fraudRecent = [p \in Cells |-> 0]
  BY DEF Fraud!Init, Cells
<1>3. Counts(fraudRecent, MaxDonations)
  BY <1>1, <1>2, NoDonations
<1> QED BY <1>1, <1>3 DEF DonorCounts, Fraud!Init

\* Every step keeps the counts in their bounds.
LEMMA DonorStep == DonorCounts /\ [Fraud!Next]_(Fraud!vars) => DonorCounts'
<1> SUFFICES ASSUME DonorCounts, [Fraud!Next]_(Fraud!vars) PROVE DonorCounts'
  OBVIOUS
<1>1. MaxDonations \in Nat /\ MaxChargebacks \in Nat
  BY BackOfficeAssumption DEF Fraud!FraudAssumption
<1>2. Counts(fraudRecent, MaxDonations)
  BY DEF DonorCounts
<1>3. ASSUME NEW status \in Fraud!Statuses, Fraud!Donate(status) PROVE DonorCounts'
  <2>1. Total(fraudRecent, Cells) < MaxDonations
    BY <1>3, NumbersAreTotals DEF Fraud!Donate, Fraud!Size, Cells
  <2>2. fraudRecent' = [fraudRecent EXCEPT ![<<"minutes", status>>] = @ + 1]
    BY <1>3 DEF Fraud!Donate
  <2>3. Counts(fraudRecent', MaxDonations)
    BY <1>1, <1>2, <2>1, <2>2, DonationCounts
  <2> QED BY <1>3, <2>3 DEF DonorCounts, Fraud!Donate
<1>4. CASE Fraud!Age
  <2>1. \A a \in Fraud!Ages, s \in Fraud!Statuses : fraudRecent[<<a, s>>] \in Nat
    BY <1>2 DEF Counts, Cells
  <2>2. PICK k : k = fraudRecent'
    OBVIOUS
  <2>3. k = Aged(fraudRecent)
    BY <1>4, <2>2 DEF Fraud!Age, Aged
  <2>4. /\ k \in [Cells -> Nat]
        /\ \A s \in Fraud!Statuses :
              /\ k[<<"minutes", s>>] = 0
              /\ k[<<"hour", s>>] = fraudRecent[<<"minutes", s>>]
              /\ k[<<"older", s>>] = fraudRecent[<<"hour", s>>] + fraudRecent[<<"older", s>>]
    BY <2>1, <2>3, AllGrowOlder
  <2>5. Counts(k, MaxDonations)
    BY <1>1, <1>2, <2>4, AgingCounts
  <2> QED BY <1>4, <2>2, <2>5 DEF DonorCounts, Fraud!Age
<1>5. CASE Fraud!Dispute
  BY <1>1, <1>5 DEF DonorCounts, Fraud!Dispute
<1>6. CASE UNCHANGED Fraud!vars
  BY <1>6 DEF DonorCounts, Fraud!vars
<1> QED BY <1>3, <1>4, <1>5, <1>6 DEF Fraud!Next

\* A donor who is looked at alone: counts are typed, and another failed payment
\* never lowers the score (detectCardTesting, scoreDonorRisk).
THEOREM FailuresNeverHelpADonor ==
    Fraud!Spec => [](Fraud!TypeOK /\ Fraud!FailuresNeverHelp /\ Fraud!FrozenForThePattern)
<1>1. DonorCounts => Fraud!TypeOK /\ Fraud!FailuresNeverHelp /\ Fraud!FrozenForThePattern
  <2> SUFFICES ASSUME DonorCounts
               PROVE  Fraud!TypeOK /\ Fraud!FailuresNeverHelp /\ Fraud!FrozenForThePattern
    OBVIOUS
  <2>1. MaxDonations \in Nat /\ Counts(fraudRecent, MaxDonations)
    BY BackOfficeAssumption DEF Fraud!FraudAssumption, DonorCounts
  <2>2. fraudRecent \in [Cells -> 0..MaxDonations]
    BY <2>1, CellsAreNumbers
  <2>3. Fraud!TypeOK
    BY <2>2 DEF Fraud!TypeOK, Fraud!Histories, Cells, DonorCounts
  <2>4. Fraud!FailuresNeverHelp
    BY <2>1, WorseScoresMore DEF Fraud!FailuresNeverHelp, Counts
  <2>5. Fraud!FrozenForThePattern
    BY DEF Fraud!FrozenForThePattern, DonorCounts
  <2> QED BY <2>3, <2>4, <2>5
<1> QED BY <1>1, DonorInit, DonorStep, PTL DEF Fraud!Spec

-----------------------------------------------------------------------------
\* Donations that are scored at the same time: what a request counted can only
\* have grown since, and a donor who is frozen showed both signs.
ScoreRequests ==
    /\ scoresRequest = [r \in Hand |-> scoresRequest[r]]
    /\ \A r \in Hand :
          /\ scoresRequest[r].step \in {"idle", "score"}
          /\ scoresRequest[r].step = "score" =>
                /\ scoresRequest[r].risk \in 0..100
                /\ scoresRequest[r].failed \in Nat
                /\ scoresRequest[r].failed <= Total(scoresRecent, FailedCells)

\* The inductive invariant: failures that were counted have happened.
ScoresShape ==
    /\ Counts(scoresRecent, MaxScored)
    /\ scoresChargebackCount \in 0..MaxChargebacks
    /\ scoresDonor \in [risk : 0..100, frozen : BOOLEAN]
    /\ ScoreRequests
    /\ scoresDonor.frozen => Total(scoresRecent, FailedCells) >= 2 /\ scoresChargebackCount >= 1

\* A risk is a number of percents (scoreDonorRisk).
LEMMA RisksArePercent == ASSUME NEW h, NEW t PROVE Scores!DonorRisk(h, t) \in 0..100
<1>1. \A c : /\ Scores!Points(c, 30) \in Nat /\ Scores!Points(c, 40) \in Nat
             /\ Scores!Points(c, 25) \in Nat /\ Scores!Points(c, 15) \in Nat
             /\ Scores!Points(c, 20) \in Nat
  BY DEF Scores!Points
<1>2. \A x \in Nat : Scores!Clamp(x) \in 0..100
  <2>1. \A x \in Nat : Scores!Clamp(x) = IF x <= 100 THEN x ELSE 100
    BY LesserOfTwo DEF Scores!Clamp
  <2> QED BY <2>1
<1>3. PICK x \in Nat : x = Scores!Points(t.sanctioned, 30) + Scores!Points(t.high, 40)
                           + Scores!Points(Scores!VelocityCount(h) > 5, 25)
                           + Scores!Points(t.prepaid, 15)
                           + Scores!Points(Scores!FailedCount(h) >= 2, 20)
  BY <1>1
<1> QED BY <1>2, <1>3 DEF Scores!DonorRisk

\* A donor without donations.
LEMMA ScoresInit == Scores!Init => ScoresShape
<1> SUFFICES ASSUME Scores!Init PROVE ScoresShape
  OBVIOUS
<1>1. MaxScored \in Nat /\ MaxChargebacks \in Nat
  BY BackOfficeAssumption DEF Scores!FraudAssumption
<1>2. scoresRecent = [p \in Cells |-> 0]
  BY DEF Scores!Init, Cells, Scores!Ages, Scores!Statuses, Fraud!Ages, Fraud!Statuses
<1>3. Counts(scoresRecent, MaxScored)
  BY <1>1, <1>2, NoDonations
<1>4. ScoreRequests
  BY DEF ScoreRequests, Scores!Init, Scores!Idle
<1> QED BY <1>1, <1>3, <1>4 DEF ScoresShape, Scores!Init

\* No step but a score's own changes the requests: they keep if no count falls.
LEMMA RequestsKeep ==
    ASSUME ScoreRequests, UNCHANGED scoresRequest, Total(scoresRecent, FailedCells) \in Int,
           Total(scoresRecent', FailedCells) \in Int,
           Total(scoresRecent', FailedCells) >= Total(scoresRecent, FailedCells)
    PROVE  ScoreRequests'
BY DEF ScoreRequests

\* Every step keeps it: who freezes a donor has counted what still shows.
LEMMA ScoresStep == ScoresShape /\ [Scores!Next]_(Scores!vars) => ScoresShape'
<1> SUFFICES ASSUME ScoresShape, [Scores!Next]_(Scores!vars) PROVE ScoresShape'
  OBVIOUS
<1>1. MaxScored \in Nat /\ MaxChargebacks \in Nat
  BY BackOfficeAssumption DEF Scores!FraudAssumption
<1>2. Counts(scoresRecent, MaxScored) /\ Total(scoresRecent, FailedCells) \in Nat
  BY <1>1, CellsAreNumbers DEF ScoresShape
<1>3. ASSUME NEW status \in Scores!Statuses, Scores!Donate(status) PROVE ScoresShape'
  <2>1. Total(scoresRecent, Cells) < MaxScored /\ status \in Fraud!Statuses
    BY <1>3, NumbersAreTotals DEF Scores!Donate, Scores!Size, Cells
  <2>2. scoresRecent' = [scoresRecent EXCEPT ![<<"minutes", status>>] = @ + 1]
    BY <1>3 DEF Scores!Donate
  <2>3. /\ Counts(scoresRecent', MaxScored)
        /\ Total(scoresRecent', FailedCells) >= Total(scoresRecent, FailedCells)
    BY <1>1, <1>2, <2>1, <2>2, DonationCounts
  <2>4. Total(scoresRecent', FailedCells) \in Nat
    BY <1>1, <2>3, CellsAreNumbers
  <2>5. ScoreRequests'
    BY <1>2, <1>3, <2>3, <2>4, RequestsKeep DEF ScoresShape, Scores!Donate
  <2> QED BY <1>2, <1>3, <2>3, <2>4, <2>5 DEF ScoresShape, Scores!Donate
<1>4. CASE Scores!Age
  <2>1. \A a \in Fraud!Ages, s \in Fraud!Statuses : scoresRecent[<<a, s>>] \in Nat
    BY <1>2 DEF Counts, Cells
  <2>2. PICK k : k = scoresRecent'
    OBVIOUS
  <2>3. k = Aged(scoresRecent)
    BY <1>4, <2>2 DEF Scores!Age, Aged, Scores!Ages, Scores!Statuses, Fraud!Ages, Fraud!Statuses
  <2>4. /\ k \in [Cells -> Nat]
        /\ \A s \in Fraud!Statuses :
              /\ k[<<"minutes", s>>] = 0
              /\ k[<<"hour", s>>] = scoresRecent[<<"minutes", s>>]
              /\ k[<<"older", s>>] = scoresRecent[<<"hour", s>>] + scoresRecent[<<"older", s>>]
    BY <2>1, <2>3, AllGrowOlder
  <2>5. Counts(k, MaxScored) /\ Total(k, FailedCells) = Total(scoresRecent, FailedCells)
    BY <1>1, <1>2, <2>4, AgingCounts
  <2>6. ScoreRequests'
    <3>1. Total(scoresRecent', FailedCells) = Total(scoresRecent, FailedCells)
      BY <2>2, <2>5
    <3>2. /\ Total(scoresRecent, FailedCells) \in Int /\
              Total(scoresRecent', FailedCells) \in Int
          /\ Total(scoresRecent', FailedCells) >= Total(scoresRecent, FailedCells)
      BY <1>2, <3>1
    <3>3. ScoreRequests /\ UNCHANGED scoresRequest
      BY <1>4 DEF ScoresShape, Scores!Age
    <3> QED BY <3>2, <3>3, RequestsKeep
  <2> QED BY <1>4, <2>2, <2>5, <2>6 DEF ScoresShape, Scores!Age
<1>5. CASE Scores!Dispute
  <2>1. ScoreRequests'
    BY <1>2, <1>5, RequestsKeep DEF ScoresShape, Scores!Dispute
  <2> QED BY <1>1, <1>5, <2>1 DEF ScoresShape, Scores!Dispute
<1>6. ASSUME NEW r \in Hand, NEW t \in Scores!Transactions, Scores!ScoreTransaction(r, t)
      PROVE  ScoresShape'
  <2>1. Scores!FailedCount(scoresRecent) = Total(scoresRecent, FailedCells)
    BY NumbersAreTotals DEF Scores!FailedCount, FailedCells
  <2>2. PICK n : /\ n.step = "score" /\ n.failed = Total(scoresRecent, FailedCells)
                 /\ n.risk \in 0..100
                 /\ scoresRequest' = [scoresRequest EXCEPT ![r] = n]
    BY <1>6, <2>1, RisksArePercent DEF Scores!ScoreTransaction
  <2>3. ScoreRequests'
    BY <1>2, <1>6, <2>2 DEF ScoresShape, ScoreRequests, Scores!ScoreTransaction
  <2> QED BY <1>6, <2>3 DEF ScoresShape, Scores!ScoreTransaction
<1>7. ASSUME NEW r \in Hand, Scores!UpdateDonor(r) PROVE ScoresShape'
  <2>1. /\ scoresRequest[r].risk \in 0..100 /\ scoresRequest[r].failed \in Nat
        /\ scoresRequest[r].failed <= Total(scoresRecent, FailedCells)
    BY <1>7 DEF ScoresShape, ScoreRequests, Scores!UpdateDonor
  <2>2. PICK f \in BOOLEAN :
           /\ f <=> \/ scoresDonor.frozen
                    \/ Scores!DecideDonorFreeze(scoresRequest[r].failed, scoresChargebackCount)
           /\ scoresDonor' = [risk |-> scoresRequest[r].risk, frozen |-> f]
    <3>1. scoresDonor.frozen \in BOOLEAN
      BY DEF ScoresShape
    <3>2. Scores!DecideDonorFreeze(scoresRequest[r].failed, scoresChargebackCount) \in BOOLEAN
      BY DEF Scores!DecideDonorFreeze
    <3> QED BY <1>7, <3>1, <3>2 DEF Scores!UpdateDonor
  <2>3. f => Total(scoresRecent, FailedCells) >= 2 /\ scoresChargebackCount >= 1
    BY <1>2, <2>1, <2>2 DEF ScoresShape, Scores!DecideDonorFreeze
  <2>4. ScoreRequests'
    <3>1. scoresRequest' = [scoresRequest EXCEPT ![r] = Scores!Idle] /\ UNCHANGED scoresRecent
      BY <1>7 DEF Scores!UpdateDonor
    <3>2. Scores!Idle.step = "idle"
      BY DEF Scores!Idle
    <3> QED BY <3>1, <3>2 DEF ScoresShape, ScoreRequests
  <2> QED BY <1>7, <2>1, <2>2, <2>3, <2>4 DEF ScoresShape, Scores!UpdateDonor
<1>8. CASE UNCHANGED Scores!vars
  BY <1>8 DEF ScoresShape, ScoreRequests, Scores!vars
<1> QED BY <1>3, <1>4, <1>5, <1>6, <1>7, <1>8 DEF Scores!Next

\* However the scores of a donor's donations overlap, a donor is frozen only with
\* both signs of the pattern (scoreTransaction, decideDonorFreeze).
THEOREM DonorsFreezeForThePattern ==
    Scores!Spec => [](Scores!TypeOK /\ Scores!FrozenForThePattern)
<1>1. ScoresShape => Scores!TypeOK /\ Scores!FrozenForThePattern
  <2> SUFFICES ASSUME ScoresShape PROVE Scores!TypeOK /\ Scores!FrozenForThePattern
    OBVIOUS
  <2>1. MaxScored \in Nat /\ Counts(scoresRecent, MaxScored)
    BY BackOfficeAssumption DEF Scores!FraudAssumption, ScoresShape
  <2>2. scoresRecent \in [Cells -> 0..MaxScored]
    BY <2>1, CellsAreNumbers
  <2>3. Scores!Histories = [Cells -> 0..MaxScored]
    BY NumbersAreTotals DEF Scores!Histories, Cells
  <2>4. Scores!TypeOK
    BY <2>2, <2>3 DEF Scores!TypeOK, ScoresShape, ScoreRequests
  <2>5. Scores!FailedCount(scoresRecent) = Total(scoresRecent, FailedCells)
    BY NumbersAreTotals DEF Scores!FailedCount, FailedCells
  <2>6. Scores!FrozenForThePattern
    BY <2>5 DEF Scores!FrozenForThePattern, ScoresShape
  <2> QED BY <2>4, <2>6
<1> QED BY <1>1, ScoresInit, ScoresStep, PTL DEF Scores!Spec

-----------------------------------------------------------------------------
(* The queues of operators.                                                *)

\* A call, with what it asked for and what it answered.
ConsoleCalls == [kind : {"load", "verify", "reject"}, nr : Nat, row : Rows \cup {None},
                 note : Rows \cup {None}, at : {"sent", "done"}, list : SUBSET Rows]

\* A call that is a load has no row, and no call is newer than the last one sent.
ConsoleTyped ==
    /\ Console!TypeOK
    /\ consoleSent \in Nat
    /\ \A c \in consoleCalls : /\ c \in ConsoleCalls
                               /\ c.nr <= consoleSent
                               /\ c.kind = "load" => c.row = None

\* The field of the verification queue holds the note of the row that is open.
NoteOfTheOpenRow ==
    /\ consolePanel = "verification" =>
          consoleRejectNote = None \/ consoleRejectNote = consoleRejectingId
    /\ Console!NoteIsForItsRow

\* One who waits for answers has one call in flight at the most, and what a load
\* has read is still what is pending.
WaitsForAnswers ==
    consoleCalm =>
        \/ consoleCalls = {} /\ consoleItems = consolePending
        \/ \E c \in consoleCalls :
              /\ consoleCalls = {c}
              /\ c.kind = "load" /\ c.at = "done" => c.list = consolePending

\* The inductive invariant.
ConsoleShape == ConsoleTyped /\ NoteOfTheOpenRow /\ WaitsForAnswers

\* A panel that has not asked for anything.
LEMMA ConsoleInit == Console!Init => ConsoleShape
<1> SUFFICES ASSUME Console!Init PROVE ConsoleShape
  OBVIOUS
<1>1. Console!Load(1) \in ConsoleCalls /\ Console!Load(1).row = None /\ Console!Load(1).nr = 1
      /\ Console!Load(1).at = "sent" /\ Console!Load(1).kind = "load"
  BY DEF Console!Load, ConsoleCalls
<1>2. ConsoleTyped
  BY <1>1 DEF ConsoleTyped, Console!TypeOK, Console!Init
<1>3. NoteOfTheOpenRow
  BY DEF NoteOfTheOpenRow, Console!NoteIsForItsRow, Console!Init
<1>4. WaitsForAnswers
  BY <1>1 DEF WaitsForAnswers, Console!Init
<1> QED BY <1>2, <1>3, <1>4 DEF ConsoleShape

\* Another call goes out: it is typed, and alone if nothing was in flight.
LEMMA CallGoesOut ==
    ASSUME ConsoleTyped,
           NEW asked \in ConsoleCalls, asked.nr = consoleSent + 1, asked.at = "sent",
           asked.kind = "load" => asked.row = None,
           consoleSent' = consoleSent + 1, consoleCalls' = consoleCalls \cup {asked}
    PROVE  /\ consoleSent' \in Nat
           /\ \A c \in consoleCalls' : /\ c \in ConsoleCalls /\ c.nr <= consoleSent'
                                       /\ c.kind = "load" => c.row = None
           /\ consoleCalls = {} => /\ asked \in consoleCalls' /\ consoleCalls' = {asked}
BY DEF ConsoleTyped, ConsoleCalls

\* A call that is sent is the newest, and takes the note of the row that is open
\* (confirmReject).
LEMMA SendKeeps ==
    ASSUME ConsoleShape, NEW kind \in {"verify", "reject"}, NEW r \in Rows,
           NEW note \in Rows \cup {None}, Console!Send(kind, r, note),
           consoleNotes' \in SUBSET [row : Rows, note : Rows \cup {None}],
           Console!NoteIsForItsRow'
    PROVE  ConsoleShape'
<1>1. PICK asked : asked = Console!Decision(kind, r, note)
  OBVIOUS
<1>2. /\ asked \in ConsoleCalls /\ asked.nr = consoleSent + 1 /\ asked.at = "sent"
      /\ asked.kind # "load"
  BY <1>1 DEF Console!Decision, ConsoleCalls, ConsoleShape, ConsoleTyped
<1>3. consoleSent' = consoleSent + 1 /\ consoleCalls' = consoleCalls \cup {asked}
  BY <1>1 DEF Console!Send
<1>4. /\ consoleSent' \in Nat
      /\ \A c \in consoleCalls' : /\ c \in ConsoleCalls /\ c.nr <= consoleSent'
                                  /\ c.kind = "load" => c.row = None
      /\ consoleCalls = {} => /\ asked \in consoleCalls' /\ consoleCalls' = {asked}
  BY <1>2, <1>3, CallGoesOut DEF ConsoleShape
<1>5. consoleBusyId' \in Rows \cup {None}
  BY DEF Console!Send, ConsoleShape, ConsoleTyped, Console!TypeOK
<1>6. consoleCalm' = (consoleCalm /\ consoleCalls = {})
  BY DEF Console!Send
<1>7. UNCHANGED <<consolePanel, consolePending, consoleItems, consoleLoading,
          consoleRejectingId,
                  consoleRejectNote>>
  BY DEF Console!Send
<1>8. Console!TypeOK'
  <2>1. \A c \in consoleCalls' : c.kind \in {"load", "verify", "reject"}
    BY <1>4 DEF ConsoleCalls
  <2> QED BY <1>4, <1>5, <1>6, <1>7, <2>1 DEF Console!TypeOK, ConsoleShape, ConsoleTyped
<1>9. ConsoleTyped'
  BY <1>4, <1>8 DEF ConsoleTyped
<1>10. NoteOfTheOpenRow'
  BY <1>7 DEF NoteOfTheOpenRow, ConsoleShape
<1>11. WaitsForAnswers'
  BY <1>2, <1>4, <1>6 DEF WaitsForAnswers
<1> QED BY <1>9, <1>10, <1>11 DEF ConsoleShape

\* An answer changes what is pending, and calls that were sent wait for their own.
LEMMA AnswerKeeps ==
    ASSUME ConsoleShape, NEW c \in consoleCalls, Console!Answer(c)
    PROVE  ConsoleShape'
<1> USE DEF ConsoleShape
<1>1. c \in ConsoleCalls /\ c.nr <= consoleSent /\ (c.kind = "load" => c.row = None)
  BY DEF ConsoleTyped
<1>2. consoleCalm => consoleCalls = {c}
                     /\ (c.kind = "load" /\ c.at = "done" => c.list = consolePending)
  BY DEF WaitsForAnswers
<1>3. consoleCalm \in BOOLEAN /\ consolePending \subseteq Rows /\ None \notin Rows
  BY BackOfficeAssumption DEF ConsoleTyped, Console!TypeOK, Console!ConsoleAssumption
<1>4. CASE Console!Served(c)
  <2>1. PICK d : d = [c EXCEPT !.at = "done", !.list = consolePending]
    OBVIOUS
  <2>2. /\ d \in ConsoleCalls /\ d.nr = c.nr /\ d.kind = c.kind /\ d.row = c.row
        /\ d.list = consolePending
    BY <1>1, <1>3, <2>1 DEF ConsoleCalls
  <2>3. /\ consoleCalls' = (consoleCalls \ {c}) \cup {d}
        /\ consolePending' = consolePending \ {c.row}
        /\ UNCHANGED <<consolePanel, consoleItems, consoleLoading, consoleBusyId,
                       consoleRejectingId, consoleRejectNote, consoleSent, consoleNotes,
                       consoleCalm>>
    BY <1>4, <2>1 DEF Console!Served
  <2>4. ConsoleTyped'
    BY <1>1, <2>2, <2>3 DEF ConsoleTyped, Console!TypeOK
  <2>5. NoteOfTheOpenRow'
    BY <2>3 DEF NoteOfTheOpenRow, Console!NoteIsForItsRow
  <2>6. c.kind = "load" => consolePending' = consolePending
    BY <1>1, <1>3, <2>3
  <2>7. WaitsForAnswers'
    BY <1>2, <2>2, <2>3, <2>6 DEF WaitsForAnswers
  <2> QED BY <2>4, <2>5, <2>7
<1>5. CASE Console!Loaded(c)
  <2>1. ConsoleTyped'
    BY <1>1, <1>5 DEF ConsoleTyped, Console!TypeOK, Console!Loaded, ConsoleCalls
  <2>2. NoteOfTheOpenRow'
    BY <1>5 DEF NoteOfTheOpenRow, Console!NoteIsForItsRow, Console!Loaded
  <2>3. WaitsForAnswers'
    BY <1>2, <1>5 DEF WaitsForAnswers, Console!Loaded
  <2> QED BY <2>1, <2>2, <2>3
<1>6. CASE Console!Decided(c)
  <2>1. PICK asked : asked = Console!Load(consoleSent + 1)
    OBVIOUS
  <2>2. /\ asked \in ConsoleCalls /\ asked.nr = consoleSent + 1 /\ asked.kind = "load"
        /\ asked.row = None /\ asked.at = "sent"
    BY <2>1 DEF Console!Load, ConsoleCalls, ConsoleTyped
  <2>3. /\ consoleCalls' = (consoleCalls \ {c}) \cup {asked} /\ consoleSent' = consoleSent + 1
        /\ consoleBusyId' = None /\ consoleLoading' = TRUE
        /\ UNCHANGED <<consolePanel, consolePending, consoleItems, consoleNotes, consoleCalm>>
        /\ \/ consoleRejectingId' = None /\ consoleRejectNote' = None
           \/ UNCHANGED <<consoleRejectingId, consoleRejectNote>>
    BY <1>6, <2>1 DEF Console!Decided
  <2>4. \A x \in consoleCalls' : x \in ConsoleCalls /\ x.nr <= consoleSent'
                                 /\ (x.kind = "load" => x.row = None)
    BY <2>2, <2>3 DEF ConsoleTyped, ConsoleCalls
  <2>5. Console!TypeOK'
    <3>1. \A x \in consoleCalls' : x.kind \in {"load", "verify", "reject"}
      BY <2>4 DEF ConsoleCalls
    <3> QED BY <2>3, <2>4, <3>1 DEF ConsoleTyped, Console!TypeOK
  <2>6. ConsoleTyped'
    BY <2>3, <2>4, <2>5 DEF ConsoleTyped
  <2>7. NoteOfTheOpenRow'
    BY <2>3 DEF NoteOfTheOpenRow, Console!NoteIsForItsRow
  <2>8. WaitsForAnswers'
    BY <1>2, <2>2, <2>3 DEF WaitsForAnswers
  <2> QED BY <2>6, <2>7, <2>8
<1>7. CASE Console!Failed(c)
  <2>1. ConsoleTyped'
    BY <1>7 DEF ConsoleTyped, Console!TypeOK, Console!Failed
  <2>2. NoteOfTheOpenRow'
    BY <1>7 DEF NoteOfTheOpenRow, Console!NoteIsForItsRow, Console!Failed
  <2>3. WaitsForAnswers'
    BY <1>7 DEF WaitsForAnswers, Console!Failed
  <2> QED BY <2>1, <2>2, <2>3
<1> QED BY <1>4, <1>5, <1>6, <1>7 DEF Console!Answer

\* Every step keeps it.
LEMMA ConsoleStep == ConsoleShape /\ [Console!Next]_(Console!vars) => ConsoleShape'
<1> SUFFICES ASSUME ConsoleShape, [Console!Next]_(Console!vars) PROVE ConsoleShape'
  OBVIOUS
<1>1. ASSUME UNCHANGED <<consolePanel, consolePending, consoleItems, consoleCalls, consoleSent,
                         consoleNotes, consoleCalm, consoleLoading, consoleBusyId>>,
             consoleRejectingId' \in Rows \cup {None}, consoleRejectNote' \in Rows \cup {None},
             consolePanel = "verification" =>
                consoleRejectNote' = None \/ consoleRejectNote' = consoleRejectingId'
      PROVE  ConsoleShape'
  <2>1. ConsoleTyped'
    BY <1>1 DEF ConsoleShape, ConsoleTyped, Console!TypeOK
  <2>2. NoteOfTheOpenRow'
    BY <1>1 DEF ConsoleShape, NoteOfTheOpenRow, Console!NoteIsForItsRow
  <2>3. WaitsForAnswers'
    BY <1>1 DEF ConsoleShape, WaitsForAnswers
  <2> QED BY <2>1, <2>2, <2>3 DEF ConsoleShape
<1>2. Console!Shown \subseteq Rows
  BY DEF Console!Shown, ConsoleShape, ConsoleTyped, Console!TypeOK
<1>3. ASSUME Console!Refresh PROVE ConsoleShape'
  <2>1. PICK asked : asked = Console!Load(consoleSent + 1)
    OBVIOUS
  <2>2. /\ asked \in ConsoleCalls /\ asked.nr = consoleSent + 1 /\ asked.kind = "load"
        /\ asked.row = None /\ asked.at = "sent"
    BY <2>1 DEF Console!Load, ConsoleCalls, ConsoleShape, ConsoleTyped
  <2>3. consoleSent' = consoleSent + 1 /\ consoleCalls' = consoleCalls \cup {asked}
    BY <1>3, <2>1 DEF Console!Refresh
  <2>4. /\ consoleSent' \in Nat
        /\ \A c \in consoleCalls' : /\ c \in ConsoleCalls /\ c.nr <= consoleSent'
                                    /\ c.kind = "load" => c.row = None
        /\ consoleCalls = {} => /\ asked \in consoleCalls' /\ consoleCalls' = {asked}
    BY <2>2, <2>3, CallGoesOut DEF ConsoleShape
  <2>5. /\ consoleLoading' = TRUE /\ consoleCalm' = (consoleCalm /\ consoleCalls = {})
        /\ UNCHANGED <<consolePanel, consolePending, consoleItems, consoleBusyId,
                       consoleRejectingId, consoleRejectNote, consoleNotes>>
    BY <1>3 DEF Console!Refresh
  <2>6. Console!TypeOK'
    <3>1. \A c \in consoleCalls' : c.kind \in {"load", "verify", "reject"}
      BY <2>4 DEF ConsoleCalls
    <3> QED BY <2>4, <2>5, <3>1 DEF Console!TypeOK, ConsoleShape, ConsoleTyped
  <2>7. ConsoleTyped'
    BY <2>4, <2>6 DEF ConsoleTyped
  <2>8. NoteOfTheOpenRow'
    BY <2>5 DEF NoteOfTheOpenRow, Console!NoteIsForItsRow, ConsoleShape
  <2>9. WaitsForAnswers'
    BY <2>2, <2>4, <2>5 DEF WaitsForAnswers
  <2> QED BY <2>7, <2>8, <2>9 DEF ConsoleShape
<1>4. ASSUME NEW r \in Rows, Console!Verify(r) PROVE ConsoleShape'
  <2>1. Console!Send("verify", r, None) /\ UNCHANGED consoleNotes
    BY <1>4 DEF Console!Verify
  <2>2. Console!NoteIsForItsRow'
    BY <2>1 DEF Console!Send, Console!NoteIsForItsRow, ConsoleShape, NoteOfTheOpenRow
  <2>3. consoleNotes' \in SUBSET [row : Rows, note : Rows \cup {None}]
    BY <2>1 DEF ConsoleShape, ConsoleTyped, Console!TypeOK
  <2> QED BY <2>1, <2>2, <2>3, SendKeeps
<1>5. ASSUME NEW r \in Rows, Console!Reject(r) PROVE ConsoleShape'
  <2>1. PICK note : /\ note = IF Console!SharedNote THEN consoleRejectNote ELSE r
                    /\ Console!Send("reject", r, note)
                    /\ consoleNotes' = consoleNotes \cup {[row |-> r, note |-> note]}
    BY <1>5 DEF Console!Reject
  <2>2. note \in Rows \cup {None}
    BY <2>1 DEF ConsoleShape, ConsoleTyped, Console!TypeOK
  <2>3. consolePanel \notin {"approval", "students"} => note = r
    BY <1>5, <2>1 DEF Console!Reject, Console!SharedNote, ConsoleShape, NoteOfTheOpenRow
  <2>4. Console!NoteIsForItsRow'
    BY <2>1, <2>3 DEF Console!Send, Console!NoteIsForItsRow, ConsoleShape, NoteOfTheOpenRow
  <2>5. consoleNotes' \in SUBSET [row : Rows, note : Rows \cup {None}]
    BY <2>1, <2>2 DEF ConsoleShape, ConsoleTyped, Console!TypeOK
  <2> QED BY <2>1, <2>2, <2>4, <2>5, SendKeeps
<1>6. ASSUME NEW r \in Rows, Console!StartReject(r) PROVE ConsoleShape'
  BY <1>1, <1>6 DEF Console!StartReject, ConsoleShape, ConsoleTyped, Console!TypeOK
<1>7. ASSUME Console!WriteNote PROVE ConsoleShape'
  BY <1>1, <1>2, <1>7 DEF Console!WriteNote
<1>8. ASSUME Console!CancelReject PROVE ConsoleShape'
  BY <1>1, <1>8 DEF Console!CancelReject
<1>9. ASSUME NEW r \in Rows, Console!Elsewhere(r) PROVE ConsoleShape'
  <2>1. ConsoleTyped'
    BY <1>9 DEF ConsoleShape, ConsoleTyped, Console!TypeOK, Console!Elsewhere
  <2>2. NoteOfTheOpenRow'
    BY <1>9 DEF ConsoleShape, NoteOfTheOpenRow, Console!NoteIsForItsRow, Console!Elsewhere
  <2>3. WaitsForAnswers'
    BY <1>9 DEF WaitsForAnswers, Console!Elsewhere
  <2> QED BY <2>1, <2>2, <2>3 DEF ConsoleShape
<1>10. CASE UNCHANGED Console!vars
  <2>1. ConsoleTyped'
    BY <1>10 DEF ConsoleShape, ConsoleTyped, Console!TypeOK, Console!vars
  <2>2. NoteOfTheOpenRow'
    BY <1>10 DEF ConsoleShape, NoteOfTheOpenRow, Console!NoteIsForItsRow, Console!vars
  <2>3. WaitsForAnswers'
    BY <1>10 DEF ConsoleShape, WaitsForAnswers, Console!vars
  <2> QED BY <2>1, <2>2, <2>3 DEF ConsoleShape
<1> QED BY <1>3, <1>4, <1>5, <1>6, <1>7, <1>8, <1>9, <1>10, AnswerKeeps DEF Console!Next

\* Every rejection carries the note that was written for its row, and an operator
\* who waits for the answers sees the queue of the server, in whatever order answers
\* and failures come (startReject, confirmReject, refresh).
THEOREM QueuesAreInOrder ==
    Console!Spec => [](Console!TypeOK /\ Console!NoteIsForItsRow /\ Console!ListCatchesUp)
<1>1. ConsoleShape => Console!TypeOK /\ Console!NoteIsForItsRow /\ Console!ListCatchesUp
  BY DEF ConsoleShape, ConsoleTyped, NoteOfTheOpenRow, WaitsForAnswers, Console!ListCatchesUp
<1> QED BY <1>1, ConsoleInit, ConsoleStep, PTL DEF Console!Spec

-----------------------------------------------------------------------------
(* The parts together.                                                     *)

\* A behaviour of the parts together is, for each part, one of its own.
LEMMA EachPartRuns ==
    AllSpec => /\ MCSpec /\ Kyc!Spec /\ Trust!Spec
               /\ Fraud!Spec /\ Scores!Spec /\ Console!Spec
<1>1. AllInit => MCInit /\ Kyc!Init /\ Trust!Init /\ Fraud!Init /\ Scores!Init /\ Console!Init
  BY DEF AllInit
<1>2. [AllNext]_allVars => [MCNext]_<<vars, alone>>
  BY DEF AllNext, PartNext, OtherParts, allVars
<1>3. [AllNext]_allVars => [Kyc!Next]_(Kyc!vars)
  BY DEF AllNext, PartNext, OtherParts, allVars, kyc, Kyc!vars
<1>4. [AllNext]_allVars => [Trust!Next]_(Trust!vars)
  BY DEF AllNext, PartNext, OtherParts, allVars, trust, Trust!vars
<1>5. [AllNext]_allVars => [Fraud!Next]_(Fraud!vars)
  BY DEF AllNext, PartNext, OtherParts, allVars, fraud, Fraud!vars
<1>6. [AllNext]_allVars => [Scores!Next]_(Scores!vars)
  BY DEF AllNext, PartNext, OtherParts, allVars, scores, Scores!vars
<1>7. [AllNext]_allVars => [Console!Next]_(Console!vars)
  BY DEF AllNext, PartNext, OtherParts, allVars, console, Console!vars
<1> QED
  BY <1>1, <1>2, <1>3, <1>4, <1>5, <1>6, <1>7, PTL
     DEF AllSpec, MCSpec, Kyc!Spec, Trust!Spec, Fraud!Spec, Scores!Spec, Console!Spec

\* What requestsAlone remembers of the requests of TrustSafety.
LEMMA RequestsAreWatched == [AllNext]_allVars => TrustMoves
<1> SUFFICES ASSUME [AllNext]_allVars PROVE TrustMoves
  OBVIOUS
<1>1. [Trust!Next]_(Trust!vars)
  BY DEF AllNext, PartNext, OtherParts, allVars, trust, Trust!vars
<1>2. CASE AllNext
  <2>1. requestsAlone' = (/\ requestsAlone
                          /\ Cardinality({h \in Hand : schoolTask'[h] # Schools!Idle}) <= 1
                          /\ Cardinality({h \in Hand : trustRequest'[h] # Trust!Idle}) <= 1)
    BY <1>2 DEF AllNext
  <2>2. Trust!Idle' = Trust!Idle
    BY DEF Trust!Idle
  <2>3. TrustBusy' = {h \in Hand : trustRequest'[h] # Trust!Idle}
    BY <2>2 DEF TrustBusy
  <2> QED BY <1>1, <2>1, <2>3 DEF TrustMoves
<1>3. CASE UNCHANGED allVars
  <2>1. UNCHANGED <<requestsAlone, trustRequest>>
    BY <1>3 DEF allVars, trust
  <2>2. TrustBusy' = TrustBusy
    BY <2>1 DEF TrustBusy, Trust!Idle
  <2> QED BY <1>1, <2>1, <2>2 DEF TrustMoves
<1> QED BY <1>2, <1>3

\* "409 ALREADY_DISBURSED": as long as handlers neither overlap nor die, an award is
\* transferred once, and so is its tranche (disburse, decideConditionalRelease).
THEOREM AwardsArePaidOnce == AllSpec => []AwardPaidOnceAlone
BY EachPartRuns, AwardsArePaidOnceAlone, PTL

\* "Every payout is recorded as a LedgerEntry": as long as handlers neither overlap
\* nor die, one that has ended leaves no transfer without its entry; and whatever they
\* do, what a row or the ledger calls paid was booked, or transferred (disburse,
\* decideConditionalRelease, payoutToSchool).
THEOREM PaymentsAreAlwaysRecorded == AllSpec => []PaymentsAreRecorded
<1>1. /\ TypeOK /\ MarkedIsBooked /\ LocalEntriesArePaid /\ EveryPayoutIsBookedAlone
      => PaymentsAreRecorded
  BY DEF PaymentsAreRecorded
<1> QED
  BY <1>1, EachPartRuns, InstanceRefines, PayoutTypes, MarksAreBooked,
     LocalEntriesAreAlwaysPaid, PayoutsAreBookedAlone, PTL

\* Nobody is verified without checks that passed, a screening that cleared or a
\* reviewer, and a result that is stored is used unless the process ended, for any
\* number of cases and requests (applyStatus, runLiveness, runDocument, decide).  What
\* levenshtein computes is a matter of the names, and assumed here: TLC compares
\* it with all alignments of the names of its instance.
THEOREM VerificationsAreEarned ==
    ASSUME Kyc!MatchForgivesAFifth
    PROVE  AllSpec => []VerifiedIsEarned
<1>1. /\ Kyc!TypeOK /\ Kyc!VerifiedIsEarned /\ Kyc!ResultsAreUsed /\ Kyc!PendingIsManual
      => VerifiedIsEarned
  BY DEF VerifiedIsEarned
<1> QED
  BY <1>1, EachPartRuns, CasesAreRight, PTL

\* The third chargeback freezes a campaign, in whatever order webhooks are handled,
\* unless the process ended before it was counted, and only a verdict does else;
\* another failed payment never makes a donor look better, and only the whole pattern
\* freezes one; as long as requests do not overlap, evidence and refund exclude each
\* other (ingest, decide, detectFraud, canOfferRefund).
THEOREM FreezesAlwaysHaveReasons == AllSpec => []FreezesHaveACause
<1>1. AllSpec => [](TrustShape /\ TrustTyped /\ TrustOrder)
  <2>1. AllInit => TrustShape /\ TrustTyped /\ TrustOrder
    BY TrustInitShape, TrustInitTyped, TrustInitOrder DEF AllInit
  <2>2. TrustShape /\ TrustTyped /\ TrustOrder /\ [AllNext]_allVars
        => TrustShape' /\ TrustTyped' /\ TrustOrder'
    <3> SUFFICES ASSUME TrustShape, TrustTyped, TrustOrder, [AllNext]_allVars
                 PROVE  TrustShape' /\ TrustTyped' /\ TrustOrder'
      OBVIOUS
    <3>1. TrustMoves
      BY RequestsAreWatched
    <3>2. [Trust!Next]_(Trust!vars)
      BY <3>1 DEF TrustMoves
    <3> QED BY <3>1, <3>2, TrustStepShape, TrustStepTyped, TrustStepOrder
  <2> QED BY <2>1, <2>2, PTL DEF AllSpec
<1>2. TrustTyped /\ TrustOrder
      => Trust!TypeOK /\ (requestsAlone => Trust!EvidenceOrRefund)
  BY OrderExcludes DEF TrustTyped
<1>3. ASSUME Trust!TypeOK, Trust!ThirdChargebackFreezes, Trust!FreezeHasACause,
             requestsAlone => Trust!EvidenceOrRefund,
             Fraud!TypeOK, Fraud!FailuresNeverHelp, Fraud!FrozenForThePattern,
             Scores!TypeOK, Scores!FrozenForThePattern
      PROVE  FreezesHaveACause
  BY <1>3 DEF FreezesHaveACause
<1> QED
  BY <1>1, <1>2, <1>3, EachPartRuns, ThirdChargebackAlwaysFreezes, FreezesAlwaysHaveACause,
     FailuresNeverHelpADonor, DonorsFreezeForThePattern, PTL

\* A rejection carries the note that was written for it, and an operator who waits for
\* the answers sees the queue of the server, for any number of rows and calls
\* (startReject, confirmReject, refresh).
THEOREM QueuesAreAlwaysInOrder == AllSpec => []QueuesAreHandledInOrder
<1>1. Console!TypeOK /\ Console!NoteIsForItsRow /\ Console!ListCatchesUp
      => QueuesAreHandledInOrder
  BY DEF QueuesAreHandledInOrder
<1> QED
  BY <1>1, EachPartRuns, QueuesAreInOrder, PTL

-----------------------------------------------------------------------------
(* Schools: a status that is stored late never activates a school that has *)
(* not signed; without overlaps a school that signed stays active, and     *)
(* what was approved is what is shown.                                     *)

SchoolRows == [status : Schools!Statuses, payout : BOOLEAN, data : BOOLEAN, signed : BOOLEAN]
LinkRows == [school : Partner, used : BOOLEAN, old : BOOLEAN]
CampaignRows ==
    [school : Partner, goal : CampaignGoal, status : Schools!CampaignStatuses,
     verified : Schools!Verdicts \cup {"NONE"}]

\* What a request waits with is about rows that are there, and still true of them.
TaskFits(x, table, links, drafts) ==
    /\ x.step \in {"idle", "payout", "sign", "complete", "update", "submit", "approve", "lookup"}
    /\ x.step = "payout" => /\ x.school \in Partner /\ x.to \in Schools!Statuses
                            /\ x.to = "ACTIVE" => table[x.school].signed = TRUE
    /\ x.step = "sign" => x.school \in Partner /\ table[x.school].data = TRUE
    /\ x.step = "complete" => x.token \in DOMAIN links
    /\ x.step = "update" => /\ x.campaign \in DOMAIN drafts
                            /\ x.school \in Partner /\ x.goal \in CampaignGoal
    /\ x.step \in {"submit", "approve"} => x.campaign \in DOMAIN drafts

\* Who is active has signed, and said where money goes.
SignedFirst(table) ==
    \A p \in Partner : table[p].status = "ACTIVE" => table[p].signed = TRUE /\ table[p].data = TRUE

SchoolTypes ==
    /\ schoolSchool \in [Partner -> SchoolRows] /\ SignedFirst(schoolSchool)
    /\ DOMAIN schoolTokens \subseteq OnboardingLink
    /\ \A t \in DOMAIN schoolTokens : schoolTokens[t] \in LinkRows
    /\ DOMAIN schoolAdmissions = Partner
    /\ \A p \in Partner :
          schoolAdmissions[p] \in [DOMAIN schoolAdmissions[p] -> Schools!Verdicts]
    /\ \A c \in DOMAIN schoolCampaigns : schoolCampaigns[c] \in CampaignRows
    /\ IsFiniteSet(DOMAIN schoolCampaigns)
    /\ schoolTask = [h \in Hand |-> schoolTask[h]]
    /\ \A h \in Hand : TaskFits(schoolTask[h], schoolSchool, schoolTokens, schoolCampaigns)

\* What a step may do to each of the tables.
SchoolsKept ==
    /\ schoolSchool' \in [Partner -> SchoolRows] /\ SignedFirst(schoolSchool')
    /\ \A p \in Partner :
          /\ schoolSchool[p].signed = TRUE => schoolSchool'[p].signed = TRUE
          /\ schoolSchool[p].data = TRUE => schoolSchool'[p].data = TRUE
LinksKept ==
    /\ DOMAIN schoolTokens \subseteq DOMAIN schoolTokens'
    /\ DOMAIN schoolTokens' \subseteq OnboardingLink
    /\ \A t \in DOMAIN schoolTokens' : schoolTokens'[t] \in LinkRows
AdmissionsKept ==
    /\ DOMAIN schoolAdmissions' = Partner
    /\ \A p \in Partner :
          schoolAdmissions'[p] \in [DOMAIN schoolAdmissions'[p] -> Schools!Verdicts]
CampaignsKept ==
    /\ DOMAIN schoolCampaigns \subseteq DOMAIN schoolCampaigns'
    /\ \A c \in DOMAIN schoolCampaigns' : schoolCampaigns'[c] \in CampaignRows
    /\ IsFiniteSet(DOMAIN schoolCampaigns')
TasksKept ==
    \/ schoolTask' = schoolTask
    \/ \E h \in Hand : \E next :
          /\ schoolTask' = [schoolTask EXCEPT ![h] = next]
          /\ TaskFits(next, schoolSchool', schoolTokens', schoolCampaigns')

\* A step of the whole is one of Schools, or leaves it alone.
LEMMA SchoolSteps == [AllNext]_allVars => [Schools!Next]_(Schools!vars)
BY DEF AllNext, PartNext, OtherParts, allVars, school, Schools!vars

LEMMA SchoolCounts == \A S : Schools!Cardinality(S) = Cardinality(S)
BY DEF Schools!Cardinality, Cardinality

\* A table that is left alone is kept.
LEMMA SchoolTablesStay ==
    ASSUME SchoolTypes
    PROVE  /\ schoolSchool' = schoolSchool => SchoolsKept
           /\ schoolTokens' = schoolTokens => LinksKept
           /\ schoolAdmissions' = schoolAdmissions => AdmissionsKept
           /\ schoolCampaigns' = schoolCampaigns => CampaignsKept
BY DEF SchoolTypes, SchoolsKept, LinksKept, AdmissionsKept, CampaignsKept

\* What fits now fits later.
LEMMA TasksStayFit ==
    ASSUME SchoolsKept, LinksKept, CampaignsKept, NEW x,
           TaskFits(x, schoolSchool, schoolTokens, schoolCampaigns)
    PROVE  TaskFits(x, schoolSchool', schoolTokens', schoolCampaigns')
BY DEF SchoolsKept, LinksKept, CampaignsKept, TaskFits

\* A step that keeps every table keeps the types.
LEMMA SchoolKeeps ==
    ASSUME SchoolTypes, SchoolsKept, LinksKept, AdmissionsKept, CampaignsKept, TasksKept
    PROVE  SchoolTypes'
<1>1. \A h \in Hand : TaskFits(schoolTask[h], schoolSchool', schoolTokens', schoolCampaigns')
  BY TasksStayFit DEF SchoolTypes
<1>2. /\ schoolTask' = [h \in Hand |-> schoolTask'[h]]
      /\ \A h \in Hand : TaskFits(schoolTask'[h], schoolSchool', schoolTokens', schoolCampaigns')
  <2>1. schoolTask = [h \in Hand |-> schoolTask[h]]
    BY DEF SchoolTypes
  <2>2. CASE schoolTask' = schoolTask
    BY <1>1, <2>1, <2>2
  <2>3. ASSUME NEW h \in Hand, NEW next, schoolTask' = [schoolTask EXCEPT ![h] = next],
               TaskFits(next, schoolSchool', schoolTokens', schoolCampaigns')
        PROVE  /\ schoolTask' = [q \in Hand |-> schoolTask'[q]]
               /\ \A q \in Hand :
                     TaskFits(schoolTask'[q], schoolSchool', schoolTokens', schoolCampaigns')
    <3>1. schoolTask' = [q \in Hand |-> IF q = h THEN next ELSE schoolTask[q]]
      BY <2>1, <2>3
    <3>2. \A q \in Hand : schoolTask'[q] = next \/ schoolTask'[q] = schoolTask[q]
      BY <3>1
    <3> QED BY <1>1, <2>3, <3>1, <3>2
  <2> QED BY <2>2, <2>3 DEF TasksKept
<1> QED BY <1>2 DEF SchoolTypes, SchoolsKept, LinksKept, AdmissionsKept, CampaignsKept

LEMMA SchoolTypesInitially == AllInit => SchoolTypes
<1> SUFFICES ASSUME AllInit PROVE SchoolTypes
  OBVIOUS
<1>1. Schools!Init
  BY DEF AllInit
<1>2. schoolSchool \in [Partner -> SchoolRows] /\ SignedFirst(schoolSchool)
  BY <1>1 DEF Schools!Init, Schools!NewSchool, SchoolRows, Schools!Statuses, SignedFirst
<1>3. DOMAIN schoolTokens = {} /\ DOMAIN schoolCampaigns = {} /\ DOMAIN <<>> = {}
  BY <1>1 DEF Schools!Init
<1>4. DOMAIN schoolAdmissions = Partner /\ \A p \in Partner : schoolAdmissions[p] = <<>>
  BY <1>1 DEF Schools!Init
<1>5. <<>> \in [{} -> Schools!Verdicts]
  OBVIOUS
<1>6. /\ schoolTask = [h \in Hand |-> schoolTask[h]]
      /\ \A h \in Hand : TaskFits(schoolTask[h], schoolSchool, schoolTokens, schoolCampaigns)
  BY <1>1 DEF Schools!Init, Schools!Idle, TaskFits
<1>7. IsFiniteSet({})
  BY FS_EmptySet
<1> QED BY <1>2, <1>3, <1>4, <1>5, <1>6, <1>7 DEF SchoolTypes

\* Idle fits anything.
LEMMA IdleFits ==
    ASSUME NEW h \in Hand, Schools!Continue(h, Schools!Idle)
    PROVE  TasksKept
<1>1. TaskFits(Schools!Idle, schoolSchool', schoolTokens', schoolCampaigns')
  BY DEF Schools!Idle, TaskFits
<1> QED BY <1>1 DEF Schools!Continue, TasksKept

\* A campaign with other columns.
LEMMA CampaignChanges ==
    ASSUME SchoolTypes, NEW c, NEW row,
           schoolCampaigns' = [schoolCampaigns EXCEPT ![c] = row],
           c \in DOMAIN schoolCampaigns => row \in CampaignRows
    PROVE  CampaignsKept
<1>1. DOMAIN schoolCampaigns' = DOMAIN schoolCampaigns
  OBVIOUS
<1>2. \A d \in DOMAIN schoolCampaigns : schoolCampaigns'[d] \in CampaignRows
  BY DEF SchoolTypes
<1> QED BY <1>1, <1>2 DEF CampaignsKept, SchoolTypes

\* What a step of the school does.
LEMMA SchoolStepKeeps ==
    ASSUME SchoolTypes, NEW h \in Hand, Schools!SchoolStep(h)
    PROVE  SchoolTypes'
<1>1. ASSUME NEW s \in Partner, Schools!SavePayout(h, s)
      PROVE  SchoolTypes'
  <2>1. UNCHANGED <<schoolSchool, schoolTokens, schoolAdmissions, schoolCampaigns>>
    BY <1>1 DEF Schools!SavePayout
  <2>2. PICK to : /\ to \in IF Schools!Transition(schoolSchool[s].status, "start") = {}
                            THEN {schoolSchool[s].status}
                            ELSE Schools!Transition(schoolSchool[s].status, "start")
                  /\ schoolTask' = [schoolTask EXCEPT ![h] =
                                       [step |-> "payout", school |-> s, to |-> to]]
    BY <1>1 DEF Schools!SavePayout, Schools!Continue
  <2>3. schoolSchool[s].status \in Schools!Statuses
    BY DEF SchoolTypes, SchoolRows
  <2>4. to = schoolSchool[s].status \/ to = "IN_PROGRESS"
    BY <2>2 DEF Schools!Transition
  <2>5. to \in Schools!Statuses /\ (to = "ACTIVE" => schoolSchool[s].signed = TRUE)
    BY <2>3, <2>4 DEF SchoolTypes, SignedFirst, Schools!Statuses
  <2>6. TaskFits([step |-> "payout", school |-> s, to |-> to], schoolSchool', schoolTokens',
                 schoolCampaigns')
    BY <2>1, <2>5 DEF TaskFits
  <2>7. TasksKept
    BY <2>2, <2>6 DEF TasksKept
  <2> QED BY <2>1, <2>7, SchoolTablesStay, SchoolKeeps
<1>2. ASSUME NEW s \in Partner, Schools!SignAgreement(h, s)
      PROVE  SchoolTypes'
  <2>1. UNCHANGED <<schoolSchool, schoolTokens, schoolAdmissions, schoolCampaigns>>
    BY <1>2 DEF Schools!SignAgreement
  <2>2. schoolTask' = [schoolTask EXCEPT ![h] = [step |-> "sign", school |-> s]]
    BY <1>2 DEF Schools!SignAgreement, Schools!Continue
  <2>3. schoolSchool[s].data = TRUE
    <3>1. schoolSchool[s].data \in BOOLEAN /\ schoolSchool[s].data
      BY <1>2 DEF SchoolTypes, SchoolRows, Schools!SignAgreement, Schools!IsPayoutDataComplete
    <3> QED BY <3>1
  <2>4. TaskFits([step |-> "sign", school |-> s], schoolSchool', schoolTokens', schoolCampaigns')
    BY <2>1, <2>3 DEF TaskFits
  <2>5. TasksKept
    BY <2>2, <2>4 DEF TasksKept
  <2> QED BY <2>1, <2>5, SchoolTablesStay, SchoolKeeps
<1>3. CASE Schools!StorePayout(h)
  <2>1. UNCHANGED <<schoolTokens, schoolAdmissions, schoolCampaigns>>
    BY <1>3 DEF Schools!StorePayout
  <2> PICK x : x = schoolTask[h]
    OBVIOUS
  <2>2. /\ x.school \in Partner /\ x.to \in Schools!Statuses
        /\ x.to = "ACTIVE" => schoolSchool[x.school].signed = TRUE
    BY <1>3 DEF Schools!StorePayout, SchoolTypes, TaskFits
  <2> PICK old : old = schoolSchool[x.school]
    OBVIOUS
  <2> PICK row : row = [old EXCEPT !.data = TRUE, !.status = x.to]
    OBVIOUS
  <2>3. schoolSchool' = [schoolSchool EXCEPT ![x.school] = row]
    BY <1>3 DEF Schools!StorePayout
  <2>4. old \in SchoolRows
    BY <2>2 DEF SchoolTypes
  <2>5. row \in SchoolRows /\ row.data = TRUE /\ row.status = x.to /\ row.signed = old.signed
    BY <2>2, <2>4 DEF SchoolRows
  <2>6. \A p \in Partner : schoolSchool'[p] = IF p = x.school THEN row ELSE schoolSchool[p]
    BY <2>3 DEF SchoolTypes
  <2>7. schoolSchool' \in [Partner -> SchoolRows]
    BY <2>3, <2>5 DEF SchoolTypes
  <2>8. SchoolsKept
    BY <2>2, <2>5, <2>6, <2>7 DEF SchoolsKept, SchoolTypes, SignedFirst
  <2>9. TasksKept
    BY <1>3, IdleFits DEF Schools!StorePayout
  <2> QED BY <2>1, <2>8, <2>9, SchoolTablesStay, SchoolKeeps
<1>4. CASE Schools!StoreAgreement(h)
  <2>1. UNCHANGED <<schoolTokens, schoolAdmissions, schoolCampaigns>>
    BY <1>4 DEF Schools!StoreAgreement
  <2> PICK x : x = schoolTask[h]
    OBVIOUS
  <2>2. x.school \in Partner /\ schoolSchool[x.school].data = TRUE
    BY <1>4 DEF Schools!StoreAgreement, SchoolTypes, TaskFits
  <2> PICK old : old = schoolSchool[x.school]
    OBVIOUS
  <2> PICK row : row = [old EXCEPT !.signed = TRUE, !.payout = TRUE, !.status = "ACTIVE"]
    OBVIOUS
  <2>3. schoolSchool' = schoolSchool \/ schoolSchool' = [schoolSchool EXCEPT ![x.school] = row]
    BY <1>4 DEF Schools!StoreAgreement
  <2>4. old \in SchoolRows
    BY <2>2 DEF SchoolTypes
  <2>5. row \in SchoolRows /\ row.data = TRUE /\ row.signed = TRUE
    BY <2>2, <2>4 DEF SchoolRows, Schools!Statuses
  <2>6. CASE schoolSchool' = [schoolSchool EXCEPT ![x.school] = row]
    <3>1. \A p \in Partner : schoolSchool'[p] = IF p = x.school THEN row ELSE schoolSchool[p]
      BY <2>6 DEF SchoolTypes
    <3>2. schoolSchool' \in [Partner -> SchoolRows]
      BY <2>5, <2>6 DEF SchoolTypes
    <3>3. SchoolsKept
      BY <2>5, <3>1, <3>2 DEF SchoolsKept, SchoolTypes, SignedFirst
    <3>4. TasksKept
      BY <1>4, IdleFits DEF Schools!StoreAgreement
    <3> QED BY <2>1, <3>3, <3>4, SchoolTablesStay, SchoolKeeps
  <2>7. CASE schoolSchool' = schoolSchool
    <3>1. TasksKept
      BY <1>4, IdleFits DEF Schools!StoreAgreement
    <3> QED BY <2>1, <2>7, <3>1, SchoolTablesStay, SchoolKeeps
  <2> QED BY <2>3, <2>6, <2>7
<1>5. ASSUME NEW t \in DOMAIN schoolTokens, Schools!CompleteViaToken(h, t)
      PROVE  SchoolTypes'
  <2>1. UNCHANGED <<schoolSchool, schoolTokens, schoolAdmissions, schoolCampaigns>>
    BY <1>5 DEF Schools!CompleteViaToken
  <2>2. schoolTask' = [schoolTask EXCEPT ![h] = [step |-> "complete", token |-> t]]
    BY <1>5 DEF Schools!CompleteViaToken, Schools!Continue
  <2>3. TaskFits([step |-> "complete", token |-> t], schoolSchool', schoolTokens', schoolCampaigns')
    BY <2>1 DEF TaskFits
  <2>4. TasksKept
    BY <2>2, <2>3 DEF TasksKept
  <2> QED BY <2>1, <2>4, SchoolTablesStay, SchoolKeeps
<1>6. CASE Schools!StoreCompletion(h)
  <2>1. UNCHANGED <<schoolAdmissions, schoolCampaigns>>
    BY <1>6 DEF Schools!StoreCompletion
  <2> PICK t : t = schoolTask[h].token
    OBVIOUS
  <2> PICK link : link = schoolTokens[t]
    OBVIOUS
  <2> PICK used : used = [link EXCEPT !.used = TRUE]
    OBVIOUS
  <2> PICK row : row = [status |-> "ACTIVE", payout |-> TRUE, data |-> TRUE, signed |-> TRUE]
    OBVIOUS
  <2>2. \/ /\ schoolTokens' = [schoolTokens EXCEPT ![t] = used]
           /\ schoolSchool' = [schoolSchool EXCEPT ![link.school] = row]
        \/ UNCHANGED <<schoolTokens, schoolSchool>>
    BY <1>6 DEF Schools!StoreCompletion
  <2>3. TasksKept
    BY <1>6, IdleFits DEF Schools!StoreCompletion
  <2>4. CASE /\ schoolTokens' = [schoolTokens EXCEPT ![t] = used]
             /\ schoolSchool' = [schoolSchool EXCEPT ![link.school] = row]
    <3>1. t \in DOMAIN schoolTokens
      BY <1>6 DEF Schools!StoreCompletion, SchoolTypes, TaskFits
    <3>2. link \in LinkRows
      BY <3>1 DEF SchoolTypes
    <3>3. used \in LinkRows /\ link.school \in Partner
      BY <3>2 DEF LinkRows
    <3>4. LinksKept
      <4>1. DOMAIN schoolTokens' = DOMAIN schoolTokens
        BY <2>4
      <4>2. \A u \in DOMAIN schoolTokens :
               schoolTokens'[u] = used \/ schoolTokens'[u] = schoolTokens[u]
        BY <2>4
      <4> QED BY <3>3, <4>1, <4>2 DEF LinksKept, SchoolTypes
    <3>5. row \in SchoolRows /\ row.data = TRUE /\ row.signed = TRUE
      BY DEF SchoolRows, Schools!Statuses
    <3>6. \A p \in Partner : schoolSchool'[p] = IF p = link.school THEN row ELSE schoolSchool[p]
      BY <2>4 DEF SchoolTypes
    <3>7. schoolSchool' \in [Partner -> SchoolRows]
      BY <2>4, <3>5 DEF SchoolTypes
    <3>8. SchoolsKept
      BY <3>5, <3>6, <3>7 DEF SchoolsKept, SchoolTypes, SignedFirst
    <3> QED BY <2>1, <2>3, <3>4, <3>8, SchoolTablesStay, SchoolKeeps
  <2>5. CASE UNCHANGED <<schoolTokens, schoolSchool>>
    BY <2>1, <2>3, <2>5, SchoolTablesStay, SchoolKeeps
  <2> QED BY <2>2, <2>4, <2>5
<1>7. ASSUME NEW s \in Partner, NEW f, Schools!VerifyAdmission(h, s, f)
      PROVE  SchoolTypes'
  <2>1. UNCHANGED <<schoolSchool, schoolTokens, schoolAdmissions, schoolCampaigns>>
    BY <1>7 DEF Schools!VerifyAdmission
  <2>2. schoolTask' = [schoolTask EXCEPT ![h] = [step |-> "lookup", school |-> s, ref |-> f]]
    BY <1>7 DEF Schools!VerifyAdmission, Schools!Continue
  <2>3. TaskFits([step |-> "lookup", school |-> s, ref |-> f], schoolSchool', schoolTokens',
                 schoolCampaigns')
    BY DEF TaskFits
  <2>4. TasksKept
    BY <2>2, <2>3 DEF TasksKept
  <2> QED BY <2>1, <2>4, SchoolTablesStay, SchoolKeeps
<1>8. ASSUME NEW s, NEW f, NEW v \in Schools!Verdicts,
             schoolAdmissions' = [schoolAdmissions EXCEPT ![s][f] = v]
      PROVE  AdmissionsKept
  <2> PICK old : old = schoolAdmissions[s]
    OBVIOUS
  <2> PICK new : new = [old EXCEPT ![f] = v]
    OBVIOUS
  <2>1. schoolAdmissions' = [schoolAdmissions EXCEPT ![s] = new]
    BY <1>8
  <2>2. s \in Partner => new \in [DOMAIN new -> Schools!Verdicts]
    <3>1. s \in Partner => old \in [DOMAIN old -> Schools!Verdicts]
      BY DEF SchoolTypes
    <3> QED BY <3>1
  <2>3. DOMAIN schoolAdmissions' = Partner
    BY <2>1 DEF SchoolTypes
  <2>4. \A p \in Partner : /\ p = s => schoolAdmissions'[p] = new
                           /\ p # s => schoolAdmissions'[p] = schoolAdmissions[p]
    BY <2>1 DEF SchoolTypes
  <2>5. ASSUME NEW p \in Partner
        PROVE  schoolAdmissions'[p] \in [DOMAIN schoolAdmissions'[p] -> Schools!Verdicts]
    <3>1. CASE p = s
      BY <2>2, <2>4, <3>1
    <3>2. CASE p # s
      BY <2>4, <3>2 DEF SchoolTypes
    <3> QED BY <3>1, <3>2
  <2> QED BY <2>3, <2>5 DEF AdmissionsKept
<1>9. CASE Schools!StoreVerified(h)
  <2>1. UNCHANGED <<schoolSchool, schoolTokens, schoolCampaigns>>
    BY <1>9 DEF Schools!StoreVerified
  <2>2. TasksKept
    BY <1>9, IdleFits DEF Schools!StoreVerified
  <2>3. CASE schoolAdmissions' =
               [schoolAdmissions EXCEPT ![schoolTask[h].school][schoolTask[h].ref] = "VERIFIED"]
    <3>1. "VERIFIED" \in Schools!Verdicts
      BY DEF Schools!Verdicts
    <3>2. AdmissionsKept
      BY <1>8, <2>3, <3>1
    <3> QED BY <2>1, <2>2, <3>2, SchoolTablesStay, SchoolKeeps
  <2>4. CASE schoolAdmissions' = schoolAdmissions
    BY <2>1, <2>2, <2>4, SchoolTablesStay, SchoolKeeps
  <2> QED BY <1>9, <2>3, <2>4 DEF Schools!StoreVerified
<1>10. ASSUME NEW c \in DOMAIN schoolCampaigns, Schools!ApproveCampaign(h, c)
       PROVE  SchoolTypes'
  <2> PICK next : next = [step |-> "approve", campaign |-> c, school |-> schoolCampaigns[c].school]
    OBVIOUS
  <2>1. UNCHANGED <<schoolSchool, schoolTokens, schoolAdmissions, schoolCampaigns>>
    BY <1>10 DEF Schools!ApproveCampaign
  <2>2. schoolTask' = [schoolTask EXCEPT ![h] = next]
    BY <1>10 DEF Schools!ApproveCampaign, Schools!Continue
  <2>3. TaskFits(next, schoolSchool', schoolTokens', schoolCampaigns')
    BY <2>1 DEF TaskFits
  <2>4. TasksKept
    BY <2>2, <2>3 DEF TasksKept
  <2> QED BY <2>1, <2>4, SchoolTablesStay, SchoolKeeps
<1>11. CASE Schools!StoreApproval(h)
  <2> PICK c : c = schoolTask[h].campaign
    OBVIOUS
  <2> PICK old : old = schoolCampaigns[c]
    OBVIOUS
  <2> PICK row : row = [old EXCEPT !.status = "LIVE", !.verified = "VERIFIED"]
    OBVIOUS
  <2>1. /\ UNCHANGED <<schoolSchool, schoolTokens, schoolAdmissions>>
        /\ schoolCampaigns' = [schoolCampaigns EXCEPT ![c] = row]
    BY <1>11 DEF Schools!StoreApproval
  <2>2. c \in DOMAIN schoolCampaigns => row \in CampaignRows
    BY DEF SchoolTypes, CampaignRows, Schools!CampaignStatuses, Schools!Verdicts
  <2>3. CampaignsKept
    BY <2>1, <2>2, CampaignChanges
  <2>4. TasksKept
    BY <1>11, IdleFits DEF Schools!StoreApproval
  <2> QED BY <2>1, <2>3, <2>4, SchoolTablesStay, SchoolKeeps
<1>12. ASSUME NEW s \in Partner, NEW f, Schools!RejectAdmission(s, f)
       PROVE  SchoolTypes'
  <2>1. /\ UNCHANGED <<schoolSchool, schoolTokens, schoolCampaigns, schoolTask>>
        /\ schoolAdmissions' = [schoolAdmissions EXCEPT ![s][f] = "REJECTED"]
    BY <1>12 DEF Schools!RejectAdmission
  <2>2. "REJECTED" \in Schools!Verdicts
    BY DEF Schools!Verdicts
  <2>3. AdmissionsKept
    BY <1>8, <2>1, <2>2
  <2>4. TasksKept
    BY <2>1 DEF TasksKept
  <2> QED BY <2>1, <2>3, <2>4, SchoolTablesStay, SchoolKeeps
<1>13. ASSUME NEW c \in DOMAIN schoolCampaigns, Schools!RejectCampaign(c)
       PROVE  SchoolTypes'
  <2> PICK old : old = schoolCampaigns[c]
    OBVIOUS
  <2> PICK row : row = [old EXCEPT !.status = "REJECTED", !.verified = "REJECTED"]
    OBVIOUS
  <2>1. /\ UNCHANGED <<schoolSchool, schoolTokens, schoolAdmissions, schoolTask>>
        /\ schoolCampaigns' = [schoolCampaigns EXCEPT ![c] = row]
    BY <1>13 DEF Schools!RejectCampaign
  <2>2. row \in CampaignRows
    BY DEF SchoolTypes, CampaignRows, Schools!CampaignStatuses, Schools!Verdicts
  <2>3. CampaignsKept
    BY <2>1, <2>2, CampaignChanges
  <2>4. TasksKept
    BY <2>1 DEF TasksKept
  <2> QED BY <2>1, <2>3, <2>4, SchoolTablesStay, SchoolKeeps
<1> QED
  BY <1>1, <1>2, <1>3, <1>4, <1>5, <1>6, <1>7, <1>9, <1>10, <1>11, <1>12, <1>13
     DEF Schools!SchoolStep

\* What a step of a student does.
LEMMA StudentStepKeeps ==
    ASSUME SchoolTypes, NEW h \in Hand, Schools!StudentStep(h)
    PROVE  SchoolTypes'
<1>1. ASSUME NEW c \in Pupil, NEW s \in Partner, NEW goal \in CampaignGoal,
             Schools!CreateCampaign(c, s, goal)
      PROVE  SchoolTypes'
  <2> DEFINE row == [school |-> s, goal |-> goal, status |-> "DRAFT", verified |-> "NONE"]
  <2>1. /\ UNCHANGED <<schoolSchool, schoolTokens, schoolAdmissions, schoolTask>>
        /\ schoolCampaigns' = Schools!With(schoolCampaigns, c, row)
    BY <1>1 DEF Schools!CreateCampaign
  <2>2. row \in CampaignRows
    BY DEF CampaignRows, Schools!CampaignStatuses
  <2> HIDE DEF row
  <2>3. /\ DOMAIN schoolCampaigns' = DOMAIN schoolCampaigns \cup {c}
        /\ \A d \in DOMAIN schoolCampaigns' :
              \/ schoolCampaigns'[d] = row
              \/ d \in DOMAIN schoolCampaigns /\ schoolCampaigns'[d] = schoolCampaigns[d]
    BY <2>1 DEF Schools!With
  <2>4. IsFiniteSet(DOMAIN schoolCampaigns')
    BY <2>3, FS_AddElement DEF SchoolTypes
  <2>5. CampaignsKept
    BY <2>2, <2>3, <2>4 DEF CampaignsKept, SchoolTypes
  <2>6. TasksKept
    BY <2>1 DEF TasksKept
  <2> QED BY <2>1, <2>5, <2>6, SchoolTablesStay, SchoolKeeps
<1>2. ASSUME NEW c \in DOMAIN schoolCampaigns, NEW s \in Partner, NEW goal \in CampaignGoal,
             Schools!UpdateCampaign(h, c, s, goal)
      PROVE  SchoolTypes'
  <2> DEFINE next == [step |-> "update", campaign |-> c, school |-> s, goal |-> goal]
  <2>1. /\ UNCHANGED <<schoolSchool, schoolTokens, schoolAdmissions, schoolCampaigns>>
        /\ schoolTask' = [schoolTask EXCEPT ![h] = next]
    BY <1>2 DEF Schools!UpdateCampaign, Schools!Continue
  <2>2. TaskFits(next, schoolSchool', schoolTokens', schoolCampaigns')
    BY <2>1 DEF TaskFits
  <2>3. TasksKept
    BY <2>1, <2>2 DEF TasksKept
  <2> QED BY <2>1, <2>3, SchoolTablesStay, SchoolKeeps
<1>3. ASSUME NEW c \in DOMAIN schoolCampaigns, Schools!SubmitCampaign(h, c)
      PROVE  SchoolTypes'
  <2> DEFINE next == [step |-> "submit", campaign |-> c]
  <2>1. /\ UNCHANGED <<schoolSchool, schoolTokens, schoolAdmissions, schoolCampaigns>>
        /\ schoolTask' = [schoolTask EXCEPT ![h] = next]
    BY <1>3 DEF Schools!SubmitCampaign, Schools!Continue
  <2>2. TaskFits(next, schoolSchool', schoolTokens', schoolCampaigns')
    BY <2>1 DEF TaskFits
  <2>3. TasksKept
    BY <2>1, <2>2 DEF TasksKept
  <2> QED BY <2>1, <2>3, SchoolTablesStay, SchoolKeeps
<1>4. CASE Schools!StoreUpdate(h)
  <2> PICK x : x = schoolTask[h]
    OBVIOUS
  <2> PICK old : old = schoolCampaigns[x.campaign]
    OBVIOUS
  <2> PICK row : row = [old EXCEPT !.school = x.school, !.goal = x.goal]
    OBVIOUS
  <2>1. /\ UNCHANGED <<schoolSchool, schoolTokens, schoolAdmissions>>
        /\ schoolCampaigns' = [schoolCampaigns EXCEPT ![x.campaign] = row]
    BY <1>4 DEF Schools!StoreUpdate
  <2>2. x.campaign \in DOMAIN schoolCampaigns /\ x.school \in Partner /\ x.goal \in CampaignGoal
    BY <1>4 DEF Schools!StoreUpdate, SchoolTypes, TaskFits
  <2>3. row \in CampaignRows
    BY <2>2 DEF SchoolTypes, CampaignRows
  <2>4. CampaignsKept
    BY <2>1, <2>3, CampaignChanges
  <2>5. TasksKept
    BY <1>4, IdleFits DEF Schools!StoreUpdate
  <2> QED BY <2>1, <2>4, <2>5, SchoolTablesStay, SchoolKeeps
<1>5. CASE Schools!StoreSubmitted(h)
  <2> PICK x : x = schoolTask[h]
    OBVIOUS
  <2> PICK old : old = schoolCampaigns[x.campaign]
    OBVIOUS
  <2> PICK row : row = [old EXCEPT !.status = "PENDING_VERIFICATION", !.verified = "PENDING"]
    OBVIOUS
  <2>1. /\ UNCHANGED <<schoolSchool, schoolTokens, schoolAdmissions>>
        /\ schoolCampaigns' = [schoolCampaigns EXCEPT ![x.campaign] = row]
    BY <1>5 DEF Schools!StoreSubmitted
  <2>2. x.campaign \in DOMAIN schoolCampaigns
    BY <1>5 DEF Schools!StoreSubmitted, SchoolTypes, TaskFits
  <2>3. row \in CampaignRows
    BY <2>2 DEF SchoolTypes, CampaignRows, Schools!CampaignStatuses, Schools!Verdicts
  <2>4. CampaignsKept
    BY <2>1, <2>3, CampaignChanges
  <2>5. TasksKept
    BY <1>5, IdleFits DEF Schools!StoreSubmitted
  <2> QED BY <2>1, <2>4, <2>5, SchoolTablesStay, SchoolKeeps
<1> QED BY <1>1, <1>2, <1>3, <1>4, <1>5 DEF Schools!StudentStep

\* Whoever acts, the types are kept.
LEMMA SchoolTypesStep == ASSUME SchoolTypes, [AllNext]_allVars PROVE SchoolTypes'
<1>1. [Schools!Next]_(Schools!vars)
  BY SchoolSteps
<1>2. ASSUME NEW t, NEW link, schoolTokens' = [schoolTokens EXCEPT ![t] = link],
             t \in DOMAIN schoolTokens => link \in LinkRows
      PROVE  LinksKept
  <2>1. DOMAIN schoolTokens' = DOMAIN schoolTokens
    BY <1>2
  <2>2. \A u \in DOMAIN schoolTokens : schoolTokens'[u] = IF u = t THEN link ELSE schoolTokens[u]
    BY <1>2
  <2> QED BY <1>2, <2>1, <2>2 DEF LinksKept, SchoolTypes
<1>3. ASSUME NEW s \in Partner, NEW t \in OnboardingLink, Schools!GenerateLink(s, t)
      PROVE  SchoolTypes'
  <2> DEFINE link == [school |-> s, used |-> FALSE, old |-> FALSE]
  <2>1. /\ UNCHANGED <<schoolSchool, schoolCampaigns, schoolAdmissions, schoolTask>>
        /\ schoolTokens' = Schools!With(schoolTokens, t, link)
    BY <1>3 DEF Schools!GenerateLink
  <2>2. link \in LinkRows
    BY DEF LinkRows
  <2> HIDE DEF link
  <2>3. /\ DOMAIN schoolTokens' = DOMAIN schoolTokens \cup {t}
        /\ \A u \in DOMAIN schoolTokens' :
              \/ schoolTokens'[u] = link
              \/ u \in DOMAIN schoolTokens /\ schoolTokens'[u] = schoolTokens[u]
    BY <2>1 DEF Schools!With
  <2>4. LinksKept
    BY <2>2, <2>3 DEF LinksKept, SchoolTypes
  <2>5. TasksKept
    BY <2>1 DEF TasksKept
  <2> QED BY <2>1, <2>4, <2>5, SchoolTablesStay, SchoolKeeps
<1>4. ASSUME NEW s \in Partner, NEW flag \in BOOLEAN, Schools!VerifyPayout(s, flag)
      PROVE  SchoolTypes'
  <2> PICK old : old = schoolSchool[s]
    OBVIOUS
  <2> PICK row : row = [old EXCEPT !.payout = flag]
    OBVIOUS
  <2>1. /\ UNCHANGED <<schoolTokens, schoolCampaigns, schoolAdmissions, schoolTask>>
        /\ schoolSchool' = [schoolSchool EXCEPT ![s] = row]
    BY <1>4 DEF Schools!VerifyPayout
  <2>2. old \in SchoolRows
    BY DEF SchoolTypes
  <2>3. /\ row \in SchoolRows /\ row.data = old.data /\ row.signed = old.signed
        /\ row.status = old.status
    BY <2>2 DEF SchoolRows
  <2>4. \A p \in Partner : schoolSchool'[p] = IF p = s THEN row ELSE schoolSchool[p]
    BY <2>1 DEF SchoolTypes
  <2>5. schoolSchool' \in [Partner -> SchoolRows]
    BY <2>1, <2>3 DEF SchoolTypes
  <2>6. SchoolsKept
    BY <2>3, <2>4, <2>5 DEF SchoolsKept, SchoolTypes, SignedFirst
  <2>7. TasksKept
    BY <2>1 DEF TasksKept
  <2> QED BY <2>1, <2>6, <2>7, SchoolTablesStay, SchoolKeeps
<1>5. ASSUME NEW t \in DOMAIN schoolTokens, Schools!LinkExpires(t)
      PROVE  SchoolTypes'
  <2> PICK old : old = schoolTokens[t]
    OBVIOUS
  <2> PICK link : link = [old EXCEPT !.old = TRUE]
    OBVIOUS
  <2>1. /\ UNCHANGED <<schoolSchool, schoolCampaigns, schoolAdmissions, schoolTask>>
        /\ schoolTokens' = [schoolTokens EXCEPT ![t] = link]
    BY <1>5 DEF Schools!LinkExpires
  <2>2. link \in LinkRows
    BY DEF SchoolTypes, LinkRows
  <2>3. LinksKept
    BY <1>2, <2>1, <2>2
  <2>4. TasksKept
    BY <2>1 DEF TasksKept
  <2> QED BY <2>1, <2>3, <2>4, SchoolTablesStay, SchoolKeeps
<1>6. ASSUME NEW c \in DOMAIN schoolCampaigns, Schools!MoneyMoves(c)
      PROVE  SchoolTypes'
  <2> PICK old : old = schoolCampaigns[c]
    OBVIOUS
  <2>1. PICK status \in {"FUNDED", "DISBURSED"} :
          /\ UNCHANGED <<schoolSchool, schoolTokens, schoolAdmissions, schoolTask>>
          /\ schoolCampaigns' = [schoolCampaigns EXCEPT ![c] = [old EXCEPT !.status = status]]
    BY <1>6 DEF Schools!MoneyMoves
  <2>2. [old EXCEPT !.status = status] \in CampaignRows
    BY DEF SchoolTypes, CampaignRows, Schools!CampaignStatuses
  <2>3. CampaignsKept
    BY <2>1, <2>2, CampaignChanges
  <2>4. TasksKept
    BY <2>1 DEF TasksKept
  <2> QED BY <2>1, <2>3, <2>4, SchoolTablesStay, SchoolKeeps
<1>7. CASE UNCHANGED Schools!vars
  <2>1. UNCHANGED <<schoolSchool, schoolTokens, schoolCampaigns, schoolAdmissions, schoolTask>>
    BY <1>7 DEF Schools!vars
  <2>2. TasksKept
    BY <2>1 DEF TasksKept
  <2> QED BY <2>1, <2>2, SchoolTablesStay, SchoolKeeps
<1> QED BY <1>1, <1>3, <1>4, <1>5, <1>6, <1>7, SchoolStepKeeps, StudentStepKeeps
           DEF Schools!Next, Schools!AdminStep
-----------------------------------------------------------------------------
\* Three different things are three.
LEMMA ThreeElements ==
    ASSUME NEW a, NEW b, NEW c, a # b, a # c, b # c
    PROVE  Cardinality({a, b, c}) = 3
<1>1. IsFiniteSet({a}) /\ Cardinality({a}) = 1
  BY FS_Singleton
<1>2. b \notin {a}
  OBVIOUS
<1>3. /\ IsFiniteSet({a} \cup {b})
      /\ Cardinality({a} \cup {b}) = 2
  BY <1>1, <1>2, FS_AddElement
<1>4. c \notin {a} \cup {b}
  OBVIOUS
<1>5. Cardinality(({a} \cup {b}) \cup {c}) = 3
  BY <1>3, <1>4, FS_AddElement
<1>6. ({a} \cup {b}) \cup {c} = {a, b, c}
  OBVIOUS
<1> QED BY <1>5, <1>6

\* Who is active has done the three steps of onboarding, which is all of it.
LEMMA AllOnboarded ==
    ASSUME SchoolTypes, NEW p \in Partner, schoolSchool[p].status = "ACTIVE"
    PROVE  /\ Schools!Checklist(p) = {"payout", "agreement", "activation"}
           /\ Schools!ProgressPct(p) = 100
<1>1. schoolSchool[p].signed = TRUE /\ schoolSchool[p].data = TRUE
  BY DEF SchoolTypes, SignedFirst
<1>2. Schools!Checklist(p) = {"payout", "agreement", "activation"}
  BY <1>1 DEF Schools!Checklist, Schools!IsPayoutDataComplete
<1>3. Cardinality({"payout", "agreement", "activation"}) = 3
  BY ThreeElements
<1>4. Schools!ProgressPct(p) = (200 * 3 + 3) \div 6
  BY <1>2, <1>3, SchoolCounts DEF Schools!ProgressPct
<1> QED BY <1>2, <1>4

LEMMA TwoParts ==
    ASSUME NEW S, NEW T, IsFiniteSet(S), IsFiniteSet(T), S \cap T = {}
    PROVE  /\ IsFiniteSet(S \cup T) /\ Cardinality(S \cup T) = Cardinality(S) + Cardinality(T)
           /\ Cardinality(S) \in Nat /\ Cardinality(T) \in Nat
<1>1. /\ IsFiniteSet(S \cup T)
      /\ Cardinality(S \cup T) = Cardinality(S) + Cardinality(T) - Cardinality(S \cap T)
  BY FS_Union
<1>2. Cardinality(S \cap T) = 0
  BY FS_EmptySet
<1>3. Cardinality(S) \in Nat /\ Cardinality(T) \in Nat
  BY FS_CardinalityType
<1> QED BY <1>1, <1>2, <1>3

\* Every campaign is in one column.
LEMMA SchoolViewsAgree == SchoolTypes => Schools!ViewsAgree
<1> SUFFICES ASSUME SchoolTypes PROVE Schools!ViewsAgree
  OBVIOUS
<1> DEFINE C == DOMAIN schoolCampaigns
<1>0. /\ IsFiniteSet(C) /\ \A S \in SUBSET C : IsFiniteSet(S)
      /\ \A c \in C : schoolCampaigns[c].status \in Schools!CampaignStatuses
  <2>1. IsFiniteSet(C)
    BY DEF SchoolTypes
  <2>2. \A c \in C : schoolCampaigns[c].status \in Schools!CampaignStatuses
    BY DEF SchoolTypes, CampaignRows
  <2> QED BY <2>1, <2>2, FS_Subset
<1>1. ASSUME NEW s \in Partner
      PROVE  LET board == Schools!Dashboard(s)
             IN  board.live + board.funded + board.paid
                   + Schools!Cardinality({c \in DOMAIN schoolCampaigns :
                        schoolCampaigns[c].school = s /\ schoolCampaigns[c].status = "REJECTED"})
                 = board.totalStudents
  <2> DEFINE own == {c \in C : schoolCampaigns[c].school = s}
             live == {c \in own : schoolCampaigns[c].status
                                     \in {"LIVE", "PENDING_VERIFICATION", "DRAFT"}}
             funded == {c \in own : schoolCampaigns[c].status = "FUNDED"}
             paid == {c \in own : schoolCampaigns[c].status = "DISBURSED"}
             rejected == {c \in C : schoolCampaigns[c].school = s
                                    /\ schoolCampaigns[c].status = "REJECTED"}
  <2>1. /\ {c \in own : Schools!PayoutStatus(schoolCampaigns[c].status) = "AWAITING_FUNDING"} = live
        /\ {c \in own : Schools!PayoutStatus(schoolCampaigns[c].status) = "READY"} = funded
        /\ {c \in own : Schools!PayoutStatus(schoolCampaigns[c].status) = "SENT"} = paid
    BY DEF Schools!PayoutStatus
  <2>2. /\ Schools!Dashboard(s).live = Cardinality(live)
        /\ Schools!Dashboard(s).funded = Cardinality(funded)
        /\ Schools!Dashboard(s).paid = Cardinality(paid)
        /\ Schools!Dashboard(s).totalStudents = Cardinality(own)
    BY <2>1, SchoolCounts DEF Schools!Dashboard
  <2>3. /\ live \cap funded = {} /\ (live \cup funded) \cap paid = {}
        /\ ((live \cup funded) \cup paid) \cap rejected = {}
        /\ ((live \cup funded) \cup paid) \cup rejected = own
    BY <1>0 DEF Schools!CampaignStatuses
  <2>4. IsFiniteSet(live) /\ IsFiniteSet(funded) /\ IsFiniteSet(paid) /\ IsFiniteSet(rejected)
    BY <1>0
  <2> HIDE DEF live, funded, paid, rejected, own
  <2>5. /\ IsFiniteSet(live \cup funded)
        /\ Cardinality(live \cup funded) = Cardinality(live) + Cardinality(funded)
        /\ Cardinality(live) \in Nat /\ Cardinality(funded) \in Nat
    BY <2>3, <2>4, TwoParts
  <2>6. /\ IsFiniteSet((live \cup funded) \cup paid)
        /\ Cardinality((live \cup funded) \cup paid)
           = Cardinality(live \cup funded) + Cardinality(paid)
        /\ Cardinality(paid) \in Nat
    BY <2>3, <2>4, <2>5, TwoParts
  <2>7. /\ Cardinality(own)
           = Cardinality((live \cup funded) \cup paid) + Cardinality(rejected)
        /\ Cardinality(rejected) \in Nat
    BY <2>3, <2>4, <2>6, TwoParts
  <2>8. Schools!Cardinality({c \in DOMAIN schoolCampaigns :
           schoolCampaigns[c].school = s /\ schoolCampaigns[c].status = "REJECTED"})
        = Cardinality(rejected)
    BY SchoolCounts DEF rejected
  <2> QED BY <2>2, <2>5, <2>6, <2>7, <2>8
<1>2. Schools!Stats.studentsFunded + Schools!Stats.campaignsLive
      = Schools!Cardinality(Schools!Gallery)
  <2> DEFINE G == Schools!Gallery
             F == {c \in G : schoolCampaigns[c].status \in {"FUNDED", "DISBURSED"}}
             A == {c \in G : schoolCampaigns[c].status = "LIVE"}
  <2>1. F \cap A = {} /\ F \cup A = G /\ F \subseteq C /\ A \subseteq C
    BY DEF Schools!Gallery
  <2>2. /\ Schools!Stats.studentsFunded = Cardinality(F)
        /\ Schools!Stats.campaignsLive = Cardinality(A)
    BY SchoolCounts DEF Schools!Stats
  <2> HIDE DEF F, A
  <2>3. Cardinality(F) + Cardinality(A) = Cardinality(G)
    <3>1. IsFiniteSet(F) /\ IsFiniteSet(A)
      BY <1>0, <2>1
    <3> QED BY <2>1, <3>1, TwoParts
  <2> QED BY <2>2, <2>3, SchoolCounts
<1> QED BY <1>1, <1>2 DEF Schools!ViewsAgree

-----------------------------------------------------------------------------
\* The requests of schools and students that have not ended.
SchoolBusy == {h \in Hand : schoolTask[h] # Schools!Idle}

\* The steps of the part, with what requestsAlone remembers of them.
SchoolMoves ==
    /\ [Schools!Next]_(Schools!vars)
    /\ requestsAlone' => requestsAlone
    /\ requestsAlone' => Cardinality(SchoolBusy') <= 1 \/ SchoolBusy' = SchoolBusy

\* What the school approved is what the public sees.
TermsStand(drafts, seen) ==
    \A c \in DOMAIN drafts :
        drafts[c].status \in {"LIVE", "FUNDED", "DISBURSED"} /\ drafts[c].verified = "VERIFIED"
        => /\ c \in DOMAIN seen
           /\ seen[c] = [goal |-> drafts[c].goal, school |-> drafts[c].school]

\* A school that signed stays active.
StaysActive(table) == \A p \in Partner : table[p].signed = TRUE => table[p].status = "ACTIVE"

\* What a request waits with does no harm: the status to be stored keeps a school that
\* signed active, and the terms to be stored are of a campaign that nobody sees.
DoesNoHarm(x, table, drafts) ==
    /\ x.step = "payout" => (table[x.school].signed = TRUE => x.to = "ACTIVE")
    /\ x.step = "update" => drafts[x.campaign].status \in {"DRAFT", "REJECTED"}

\* The inductive invariant: as long as requests do not overlap, at most one has not
\* ended, and what it waits with does no harm.
SchoolOrder ==
    /\ IsFiniteSet(SchoolBusy)
    /\ requestsAlone =>
          /\ Cardinality(SchoolBusy) <= 1
          /\ StaysActive(schoolSchool)
          /\ TermsStand(schoolCampaigns, schoolApproved)
          /\ \A h \in Hand : DoesNoHarm(schoolTask[h], schoolSchool, schoolCampaigns)

\* What requestsAlone remembers of the requests of Schools.
LEMMA SchoolsAreWatched == [AllNext]_allVars => SchoolMoves
<1> SUFFICES ASSUME [AllNext]_allVars PROVE SchoolMoves
  OBVIOUS
<1>1. [Schools!Next]_(Schools!vars)
  BY SchoolSteps
<1>2. CASE AllNext
  <2>1. requestsAlone' = (/\ requestsAlone
                          /\ Cardinality({h \in Hand : schoolTask'[h] # Schools!Idle}) <= 1
                          /\ Cardinality({h \in Hand : trustRequest'[h] # Trust!Idle}) <= 1)
    BY <1>2 DEF AllNext
  <2>2. Schools!Idle' = Schools!Idle
    BY DEF Schools!Idle
  <2>3. SchoolBusy' = {h \in Hand : schoolTask'[h] # Schools!Idle}
    BY <2>2 DEF SchoolBusy
  <2> QED BY <1>1, <2>1, <2>3 DEF SchoolMoves
<1>3. CASE UNCHANGED allVars
  <2>1. UNCHANGED <<requestsAlone, schoolTask>>
    BY <1>3 DEF allVars, school
  <2>2. SchoolBusy' = SchoolBusy
    BY <2>1 DEF SchoolBusy, Schools!Idle
  <2> QED BY <1>1, <2>1, <2>2 DEF SchoolMoves
<1> QED BY <1>2, <1>3

LEMMA SchoolOrderInitially == AllInit => SchoolOrder
<1> SUFFICES ASSUME AllInit PROVE SchoolOrder
  OBVIOUS
<1>1. Schools!Init
  BY DEF AllInit
<1>2. SchoolBusy = {} /\ DOMAIN schoolCampaigns = {}
  BY <1>1 DEF Schools!Init, SchoolBusy
<1>3. IsFiniteSet(SchoolBusy) /\ Cardinality(SchoolBusy) <= 1
  BY <1>2, FS_EmptySet
<1>4. StaysActive(schoolSchool)
  BY <1>1 DEF Schools!Init, Schools!NewSchool, StaysActive
<1>5. TermsStand(schoolCampaigns, schoolApproved)
  BY <1>2 DEF TermsStand
<1>6. \A h \in Hand : DoesNoHarm(schoolTask[h], schoolSchool, schoolCampaigns)
  BY <1>1 DEF Schools!Init, Schools!Idle, DoesNoHarm
<1> QED BY <1>3, <1>4, <1>5, <1>6 DEF SchoolOrder

\* What a step does, for the order: a request moves on, and the tables that it changes
\* are still in order, and harmless for the others.
LEMMA SchoolTasksAre ==
    ASSUME SchoolTypes, NEW h \in Hand, NEW next, Schools!Continue(h, next)
    PROVE  /\ schoolTask'[h] = next
           /\ \A q \in Hand \ {h} : schoolTask'[q] = schoolTask[q]
           /\ SchoolBusy' \subseteq SchoolBusy \cup {h}
<1>1. schoolTask = [q \in Hand |-> schoolTask[q]]
  BY DEF SchoolTypes
<1>2. schoolTask' = [q \in Hand |-> IF q = h THEN next ELSE schoolTask[q]]
  BY <1>1 DEF Schools!Continue
<1>3. Schools!Idle' = Schools!Idle
  BY DEF Schools!Idle
<1> QED BY <1>2, <1>3 DEF SchoolBusy

\* One request at most starts.
LEMMA SchoolBusyIsFinite ==
    ASSUME SchoolTypes, IsFiniteSet(SchoolBusy), [Schools!Next]_(Schools!vars)
    PROVE  IsFiniteSet(SchoolBusy')
<1>1. ASSUME NEW h \in Hand, NEW next, Schools!Continue(h, next)
      PROVE  IsFiniteSet(SchoolBusy')
  <2>1. SchoolBusy' \subseteq SchoolBusy \cup {h}
    BY <1>1, SchoolTasksAre
  <2>2. IsFiniteSet(SchoolBusy \cup {h})
    BY FS_AddElement
  <2> QED BY <2>1, <2>2, FS_Subset
<1>2. ASSUME schoolTask' = schoolTask
      PROVE  IsFiniteSet(SchoolBusy')
  BY <1>2 DEF SchoolBusy, Schools!Idle
<1>3. ASSUME NEW h \in Hand, Schools!SchoolStep(h)
      PROVE  IsFiniteSet(SchoolBusy')
  BY <1>1, <1>2, <1>3
     DEF Schools!SchoolStep, Schools!SavePayout, Schools!SignAgreement, Schools!StorePayout,
         Schools!StoreAgreement, Schools!CompleteViaToken, Schools!StoreCompletion,
         Schools!VerifyAdmission, Schools!StoreVerified, Schools!ApproveCampaign,
         Schools!StoreApproval, Schools!Import, Schools!RejectAdmission, Schools!RejectCampaign
<1>4. ASSUME NEW h \in Hand, Schools!StudentStep(h)
      PROVE  IsFiniteSet(SchoolBusy')
  BY <1>1, <1>2, <1>4
     DEF Schools!StudentStep, Schools!CreateCampaign, Schools!UpdateCampaign,
         Schools!SubmitCampaign, Schools!StoreUpdate, Schools!StoreSubmitted
<1> QED
  BY <1>2, <1>3, <1>4
     DEF Schools!Next, Schools!AdminStep, Schools!GenerateLink, Schools!VerifyPayout,
         Schools!LinkExpires, Schools!MoneyMoves, Schools!vars

\* While one request only has not ended, the others wait with nothing.
LEMMA OtherSchoolsAreIdle ==
    ASSUME IsFiniteSet(SchoolBusy), Cardinality(SchoolBusy) <= 1, NEW h \in SchoolBusy
    PROVE  \A q \in Hand \ {h} : schoolTask[q] = Schools!Idle
<1>1. \A q \in SchoolBusy : q = h
  BY OneAtMost
<1> QED BY <1>1 DEF SchoolBusy

\* A step that moves a request and nothing else, or tables whose order and harmlessness
\* it keeps, keeps the order.
LEMMA SchoolOrderKept ==
    ASSUME SchoolTypes, SchoolOrder, SchoolMoves,
           requestsAlone' => StaysActive(schoolSchool'),
           requestsAlone' => TermsStand(schoolCampaigns', schoolApproved'),
           requestsAlone' =>
              \A h \in Hand : DoesNoHarm(schoolTask'[h], schoolSchool', schoolCampaigns')
    PROVE  SchoolOrder'
<1>1. IsFiniteSet(SchoolBusy')
  BY SchoolBusyIsFinite DEF SchoolOrder, SchoolMoves
<1>2. ASSUME requestsAlone'
      PROVE  Cardinality(SchoolBusy') <= 1
  BY <1>2 DEF SchoolOrder, SchoolMoves
<1> QED BY <1>1, <1>2 DEF SchoolOrder

\* A request that goes on with next, while the others wait as they did.
LEMMA HarmlessNext ==
    ASSUME SchoolTypes, NEW h \in Hand, NEW next, Schools!Continue(h, next),
           DoesNoHarm(next, schoolSchool', schoolCampaigns'),
           \A q \in Hand \ {h} : DoesNoHarm(schoolTask[q], schoolSchool', schoolCampaigns')
    PROVE  \A q \in Hand : DoesNoHarm(schoolTask'[q], schoolSchool', schoolCampaigns')
BY SchoolTasksAre

\* A request that ends, when it was the only one that had not.
LEMMA HarmlessEnd ==
    ASSUME SchoolTypes, SchoolOrder, requestsAlone, NEW h \in SchoolBusy,
           Schools!Continue(h, Schools!Idle)
    PROVE  \A q \in Hand : DoesNoHarm(schoolTask'[q], schoolSchool', schoolCampaigns')
<1>1. \A x : x = Schools!Idle => DoesNoHarm(x, schoolSchool', schoolCampaigns')
  BY DEF Schools!Idle, DoesNoHarm
<1>2. \A q \in Hand \ {h} : schoolTask[q] = Schools!Idle
  BY OtherSchoolsAreIdle DEF SchoolOrder
<1>3. h \in Hand
  BY DEF SchoolBusy
<1> QED BY <1>1, <1>2, <1>3, HarmlessNext

\* A step that leaves the tables alone, and continues a request harmlessly.
LEMMA QuietSchoolStep ==
    ASSUME SchoolTypes, SchoolOrder, SchoolMoves, NEW h \in Hand, NEW next,
           Schools!Continue(h, next),
           UNCHANGED <<schoolSchool, schoolCampaigns, schoolApproved>>,
           requestsAlone => DoesNoHarm(next, schoolSchool, schoolCampaigns)
    PROVE  SchoolOrder'
<1>1. requestsAlone' => requestsAlone
  BY DEF SchoolMoves
<1>2. ASSUME requestsAlone
      PROVE  \A q \in Hand : DoesNoHarm(schoolTask'[q], schoolSchool', schoolCampaigns')
  <2>1. \A q \in Hand : DoesNoHarm(schoolTask[q], schoolSchool', schoolCampaigns')
    BY <1>2 DEF SchoolOrder
  <2>2. DoesNoHarm(next, schoolSchool', schoolCampaigns')
    BY <1>2
  <2> QED BY <2>1, <2>2, HarmlessNext
<1>3. requestsAlone => /\ StaysActive(schoolSchool')
                       /\ TermsStand(schoolCampaigns', schoolApproved')
  BY DEF SchoolOrder
<1> QED BY <1>1, <1>2, <1>3, SchoolOrderKept

\* A step that changes one campaign, to one that nobody sees or that is seen as before,
\* while a request may wait.
LEMMA CampaignStepOrder ==
    ASSUME SchoolTypes, SchoolOrder, SchoolMoves, NEW c, NEW row,
           UNCHANGED <<schoolSchool, schoolApproved, schoolTask>>,
           DOMAIN schoolCampaigns' \subseteq DOMAIN schoolCampaigns \cup {c},
           schoolCampaigns'[c] = row,
           \A d \in DOMAIN schoolCampaigns \ {c} : schoolCampaigns'[d] = schoolCampaigns[d],
           c \in DOMAIN schoolCampaigns /\ schoolCampaigns[c].status \in {"DRAFT", "REJECTED"}
              => row.status \in {"DRAFT", "REJECTED"},
           \/ row.status \in {"DRAFT", "REJECTED"}
           \/ /\ c \in DOMAIN schoolCampaigns
              /\ schoolCampaigns[c].status \in {"LIVE", "FUNDED"}
              /\ row.verified = schoolCampaigns[c].verified
              /\ row.goal = schoolCampaigns[c].goal
              /\ row.school = schoolCampaigns[c].school
    PROVE  SchoolOrder'
<1>1. requestsAlone' => requestsAlone
  BY DEF SchoolMoves
<1>2. ASSUME requestsAlone, NEW q \in Hand
      PROVE  DoesNoHarm(schoolTask'[q], schoolSchool', schoolCampaigns')
  <2> PICK x : x = schoolTask[q]
    OBVIOUS
  <2>1. /\ x.step = "payout" => (schoolSchool[x.school].signed = TRUE => x.to = "ACTIVE")
        /\ x.step = "update" => schoolCampaigns[x.campaign].status \in {"DRAFT", "REJECTED"}
    BY <1>2 DEF SchoolOrder, DoesNoHarm
  <2>2. x.step = "update" => x.campaign \in DOMAIN schoolCampaigns
    BY DEF SchoolTypes, TaskFits
  <2>3. x.step = "update" => schoolCampaigns'[x.campaign].status \in {"DRAFT", "REJECTED"}
    <3>1. CASE x.step = "update" /\ x.campaign = c
      BY <2>1, <2>2, <3>1
    <3>2. CASE x.step = "update" /\ x.campaign # c
      BY <2>1, <2>2, <3>2
    <3> QED BY <3>1, <3>2
  <2>4. schoolTask'[q] = x
    OBVIOUS
  <2> QED BY <2>1, <2>3, <2>4 DEF DoesNoHarm
<1>3. ASSUME requestsAlone
      PROVE  TermsStand(schoolCampaigns', schoolApproved')
  <2>1. TermsStand(schoolCampaigns, schoolApproved)
    BY <1>3 DEF SchoolOrder
  <2> SUFFICES ASSUME NEW d \in DOMAIN schoolCampaigns',
                      schoolCampaigns'[d].status \in {"LIVE", "FUNDED", "DISBURSED"},
                      schoolCampaigns'[d].verified = "VERIFIED"
               PROVE  /\ d \in DOMAIN schoolApproved
                      /\ schoolApproved[d] = [goal |-> schoolCampaigns'[d].goal,
                                              school |-> schoolCampaigns'[d].school]
    BY DEF TermsStand
  <2>2. CASE d = c
    BY <2>1, <2>2 DEF TermsStand
  <2>3. CASE d # c
    BY <2>1, <2>3 DEF TermsStand
  <2> QED BY <2>2, <2>3
<1>4. requestsAlone => StaysActive(schoolSchool')
  BY DEF SchoolOrder
<1> QED BY <1>1, <1>2, <1>3, <1>4, SchoolOrderKept

\* What a step of the school does to the order.
LEMMA SchoolStepOrder ==
    ASSUME SchoolTypes, SchoolOrder, SchoolMoves, NEW h \in Hand, Schools!SchoolStep(h)
    PROVE  SchoolOrder'
<1>0. requestsAlone' => requestsAlone
  BY DEF SchoolMoves
<1>b. \A s : schoolTask[h].step = s /\ s # "idle" => h \in SchoolBusy
  BY DEF SchoolBusy, Schools!Idle
<1>1. ASSUME NEW s \in Partner, Schools!SavePayout(h, s)
      PROVE  SchoolOrder'
  <2>1. UNCHANGED <<schoolSchool, schoolCampaigns, schoolApproved>>
    BY <1>1 DEF Schools!SavePayout
  <2>2. PICK to : /\ to \in IF Schools!Transition(schoolSchool[s].status, "start") = {}
                            THEN {schoolSchool[s].status}
                            ELSE Schools!Transition(schoolSchool[s].status, "start")
                  /\ Schools!Continue(h, [step |-> "payout", school |-> s, to |-> to])
    BY <1>1 DEF Schools!SavePayout
  <2>3. schoolSchool[s].status = "ACTIVE" => to = "ACTIVE"
    BY <2>2 DEF Schools!Transition
  <2>4. requestsAlone => (schoolSchool[s].signed = TRUE => schoolSchool[s].status = "ACTIVE")
    BY DEF SchoolOrder, StaysActive
  <2>5. requestsAlone => DoesNoHarm([step |-> "payout", school |-> s, to |-> to],
                                    schoolSchool, schoolCampaigns)
    BY <2>3, <2>4 DEF DoesNoHarm
  <2> QED BY <2>1, <2>2, <2>5, QuietSchoolStep
<1>2. ASSUME NEW next, Schools!Continue(h, next), next.step \notin {"payout", "update"},
             UNCHANGED <<schoolSchool, schoolCampaigns, schoolApproved>>
      PROVE  SchoolOrder'
  <2>1. DoesNoHarm(next, schoolSchool, schoolCampaigns)
    BY <1>2 DEF DoesNoHarm
  <2> QED BY <1>2, <2>1, QuietSchoolStep
<1>3. Schools!Idle.step = "idle"
  BY DEF Schools!Idle
<1>4. ASSUME NEW s \in Partner, Schools!SignAgreement(h, s)
      PROVE  SchoolOrder'
  BY <1>2, <1>4 DEF Schools!SignAgreement
<1>5. ASSUME NEW t \in DOMAIN schoolTokens, Schools!CompleteViaToken(h, t)
      PROVE  SchoolOrder'
  BY <1>2, <1>5 DEF Schools!CompleteViaToken
<1>6. ASSUME NEW s \in Partner, NEW f, Schools!VerifyAdmission(h, s, f)
      PROVE  SchoolOrder'
  BY <1>2, <1>6 DEF Schools!VerifyAdmission
<1>7. CASE Schools!StoreVerified(h)
  BY <1>2, <1>3, <1>7 DEF Schools!StoreVerified
<1>8. ASSUME NEW c \in DOMAIN schoolCampaigns, Schools!ApproveCampaign(h, c)
      PROVE  SchoolOrder'
  BY <1>2, <1>8 DEF Schools!ApproveCampaign
<1>9. ASSUME Schools!Continue(h, Schools!Idle), h \in SchoolBusy,
             UNCHANGED <<schoolCampaigns, schoolApproved>>,
             requestsAlone => StaysActive(schoolSchool')
      PROVE  SchoolOrder'
  <2>1. requestsAlone =>
           \A q \in Hand : DoesNoHarm(schoolTask'[q], schoolSchool', schoolCampaigns')
    BY <1>9, HarmlessEnd
  <2>2. requestsAlone => TermsStand(schoolCampaigns', schoolApproved')
    BY <1>9 DEF SchoolOrder
  <2> QED BY <1>0, <1>9, <2>1, <2>2, SchoolOrderKept
<1>10. ASSUME NEW s, NEW row, schoolSchool' = [schoolSchool EXCEPT ![s] = row],
              requestsAlone => (row.signed = TRUE => row.status = "ACTIVE")
       PROVE  requestsAlone => StaysActive(schoolSchool')
  <2>1. \A p \in Partner : schoolSchool'[p] = IF p = s THEN row ELSE schoolSchool[p]
    BY <1>10 DEF SchoolTypes
  <2> QED BY <1>10, <2>1 DEF SchoolOrder, StaysActive
<1>11. CASE Schools!StorePayout(h)
  <2> PICK x : x = schoolTask[h]
    OBVIOUS
  <2> PICK old : old = schoolSchool[x.school]
    OBVIOUS
  <2> PICK row : row = [old EXCEPT !.data = TRUE, !.status = x.to]
    OBVIOUS
  <2>1. /\ schoolSchool' = [schoolSchool EXCEPT ![x.school] = row]
        /\ Schools!Continue(h, Schools!Idle) /\ UNCHANGED <<schoolCampaigns, schoolApproved>>
        /\ x.step = "payout"
    BY <1>11 DEF Schools!StorePayout
  <2>2. old \in SchoolRows
    BY <2>1 DEF SchoolTypes, TaskFits
  <2>3. row.status = x.to /\ row.signed = old.signed
    BY <2>2 DEF SchoolRows
  <2>4. requestsAlone => (old.signed = TRUE => x.to = "ACTIVE")
    BY <2>1 DEF SchoolOrder, DoesNoHarm
  <2>5. requestsAlone => (row.signed = TRUE => row.status = "ACTIVE")
    BY <2>3, <2>4
  <2>6. h \in SchoolBusy
    BY <1>b, <2>1
  <2>7. requestsAlone => StaysActive(schoolSchool')
    BY <1>10, <2>1, <2>5
  <2> QED BY <1>9, <2>1, <2>6, <2>7
<1>12. CASE Schools!StoreAgreement(h)
  <2> PICK s : s = schoolTask[h].school
    OBVIOUS
  <2> PICK old : old = schoolSchool[s]
    OBVIOUS
  <2> PICK row : row = [old EXCEPT !.signed = TRUE, !.payout = TRUE, !.status = "ACTIVE"]
    OBVIOUS
  <2>1. /\ schoolSchool' = schoolSchool \/ schoolSchool' = [schoolSchool EXCEPT ![s] = row]
        /\ Schools!Continue(h, Schools!Idle) /\ UNCHANGED <<schoolCampaigns, schoolApproved>>
        /\ schoolTask[h].step = "sign"
    BY <1>12 DEF Schools!StoreAgreement
  <2>2. s \in Partner /\ old \in SchoolRows
    BY <2>1 DEF SchoolTypes, TaskFits
  <2>3. row.status = "ACTIVE"
    BY <2>2 DEF SchoolRows
  <2>4. h \in SchoolBusy
    BY <1>b, <2>1
  <2>5. schoolSchool' = schoolSchool => (requestsAlone => StaysActive(schoolSchool'))
    BY DEF SchoolOrder
  <2>6. requestsAlone => StaysActive(schoolSchool')
    BY <1>10, <2>1, <2>3, <2>5
  <2> QED BY <1>9, <2>1, <2>4, <2>6
<1>13. CASE Schools!StoreCompletion(h)
  <2> PICK t : t = schoolTask[h].token
    OBVIOUS
  <2> PICK s : s = schoolTokens[t].school
    OBVIOUS
  <2> PICK row : row = [status |-> "ACTIVE", payout |-> TRUE, data |-> TRUE, signed |-> TRUE]
    OBVIOUS
  <2>1. /\ schoolSchool' = schoolSchool \/ schoolSchool' = [schoolSchool EXCEPT ![s] = row]
        /\ Schools!Continue(h, Schools!Idle) /\ UNCHANGED <<schoolCampaigns, schoolApproved>>
        /\ schoolTask[h].step = "complete"
    BY <1>13 DEF Schools!StoreCompletion
  <2>2. row.status = "ACTIVE"
    OBVIOUS
  <2>3. h \in SchoolBusy
    BY <1>b, <2>1
  <2>4. schoolSchool' = schoolSchool => (requestsAlone => StaysActive(schoolSchool'))
    BY DEF SchoolOrder
  <2>5. requestsAlone => StaysActive(schoolSchool')
    BY <1>10, <2>1, <2>2, <2>4
  <2> QED BY <1>9, <2>1, <2>3, <2>5
<1>14. CASE Schools!StoreApproval(h)
  <2> PICK c : c = schoolTask[h].campaign
    OBVIOUS
  <2> PICK old : old = schoolCampaigns[c]
    OBVIOUS
  <2> PICK row : row = [old EXCEPT !.status = "LIVE", !.verified = "VERIFIED"]
    OBVIOUS
  <2> PICK terms : terms = [goal |-> old.goal, school |-> old.school]
    OBVIOUS
  <2>1. /\ schoolCampaigns' = [schoolCampaigns EXCEPT ![c] = row]
        /\ schoolApproved' = Schools!With(schoolApproved, c, terms)
        /\ Schools!Continue(h, Schools!Idle) /\ schoolSchool' = schoolSchool
        /\ schoolTask[h].step = "approve"
    BY <1>14 DEF Schools!StoreApproval, Schools!Terms
  <2>2. c \in DOMAIN schoolCampaigns /\ old \in CampaignRows
    BY <2>1 DEF SchoolTypes, TaskFits
  <2>3. row.goal = old.goal /\ row.school = old.school
    BY <2>2 DEF CampaignRows
  <2>4. /\ DOMAIN schoolCampaigns' = DOMAIN schoolCampaigns
        /\ schoolCampaigns'[c] = row
        /\ \A d \in DOMAIN schoolCampaigns \ {c} : schoolCampaigns'[d] = schoolCampaigns[d]
    BY <2>1, <2>2
  <2>5. /\ DOMAIN schoolApproved' = DOMAIN schoolApproved \cup {c}
        /\ schoolApproved'[c] = terms
        /\ \A d \in DOMAIN schoolApproved \ {c} : schoolApproved'[d] = schoolApproved[d]
    BY <2>1 DEF Schools!With
  <2>6. ASSUME requestsAlone
        PROVE  TermsStand(schoolCampaigns', schoolApproved')
    <3>1. TermsStand(schoolCampaigns, schoolApproved)
      BY <2>6 DEF SchoolOrder
    <3> SUFFICES ASSUME NEW d \in DOMAIN schoolCampaigns',
                        schoolCampaigns'[d].status \in {"LIVE", "FUNDED", "DISBURSED"},
                        schoolCampaigns'[d].verified = "VERIFIED"
                 PROVE  /\ d \in DOMAIN schoolApproved'
                        /\ schoolApproved'[d] = [goal |-> schoolCampaigns'[d].goal,
                                                 school |-> schoolCampaigns'[d].school]
      BY DEF TermsStand
    <3>2. CASE d = c
      <4>1. schoolCampaigns'[d].goal = old.goal /\ schoolCampaigns'[d].school = old.school
        BY <2>3, <2>4, <3>2
      <4>2. d \in DOMAIN schoolApproved' /\ schoolApproved'[d] = terms
        BY <2>5, <3>2
      <4>3. terms = [goal |-> schoolCampaigns'[d].goal, school |-> schoolCampaigns'[d].school]
        BY <4>1, Zenon
      <4> QED BY <4>2, <4>3
    <3>3. CASE d # c
      BY <2>4, <2>5, <3>1, <3>3 DEF TermsStand
    <3> QED BY <3>2, <3>3
  <2>7. h \in SchoolBusy
    BY <1>b, <2>1
  <2>8. requestsAlone =>
           \A q \in Hand : DoesNoHarm(schoolTask'[q], schoolSchool', schoolCampaigns')
    BY <2>1, <2>7, HarmlessEnd
  <2>9. requestsAlone => StaysActive(schoolSchool')
    BY <2>1 DEF SchoolOrder
  <2> QED BY <1>0, <2>6, <2>8, <2>9, SchoolOrderKept
<1>15. ASSUME UNCHANGED <<schoolSchool, schoolCampaigns, schoolApproved, schoolTask>>
       PROVE  SchoolOrder'
  BY <1>0, <1>15, SchoolOrderKept DEF SchoolOrder
<1>16. ASSUME NEW s \in Partner, NEW f, Schools!RejectAdmission(s, f)
       PROVE  SchoolOrder'
  BY <1>15, <1>16 DEF Schools!RejectAdmission
<1>17. ASSUME NEW s \in Partner, NEW file, Schools!Import(s, file)
       PROVE  SchoolOrder'
  BY <1>15, <1>17 DEF Schools!Import
<1>18. ASSUME NEW c \in DOMAIN schoolCampaigns, Schools!RejectCampaign(c)
       PROVE  SchoolOrder'
  <2> PICK old : old = schoolCampaigns[c]
    OBVIOUS
  <2> PICK row : row = [old EXCEPT !.status = "REJECTED", !.verified = "REJECTED"]
    OBVIOUS
  <2>1. /\ schoolCampaigns' = [schoolCampaigns EXCEPT ![c] = row]
        /\ UNCHANGED <<schoolSchool, schoolApproved, schoolTask>>
    BY <1>18 DEF Schools!RejectCampaign
  <2>2. row.status = "REJECTED"
    BY DEF SchoolTypes, CampaignRows
  <2>3. /\ DOMAIN schoolCampaigns' = DOMAIN schoolCampaigns
        /\ schoolCampaigns'[c] = row
        /\ \A d \in DOMAIN schoolCampaigns \ {c} : schoolCampaigns'[d] = schoolCampaigns[d]
    BY <2>1
  <2> QED BY <2>1, <2>2, <2>3, CampaignStepOrder
<1> QED
  BY <1>1, <1>4, <1>5, <1>6, <1>7, <1>8, <1>11, <1>12, <1>13, <1>14, <1>16, <1>17, <1>18
     DEF Schools!SchoolStep

\* What a step of a student does to the order.
LEMMA StudentStepOrder ==
    ASSUME SchoolTypes, SchoolOrder, SchoolMoves, NEW h \in Hand, Schools!StudentStep(h)
    PROVE  SchoolOrder'
<1>0. requestsAlone' => requestsAlone
  BY DEF SchoolMoves
<1>b. \A s : schoolTask[h].step = s /\ s # "idle" => h \in SchoolBusy
  BY DEF SchoolBusy, Schools!Idle
<1>1. ASSUME NEW c \in Pupil, NEW s \in Partner, NEW goal \in CampaignGoal,
             Schools!CreateCampaign(c, s, goal)
      PROVE  SchoolOrder'
  <2> PICK row : row = [school |-> s, goal |-> goal, status |-> "DRAFT", verified |-> "NONE"]
    OBVIOUS
  <2>1. /\ UNCHANGED <<schoolSchool, schoolApproved, schoolTask>>
        /\ schoolCampaigns' = Schools!With(schoolCampaigns, c, row)
        /\ c \notin DOMAIN schoolCampaigns
    BY <1>1 DEF Schools!CreateCampaign
  <2>2. /\ DOMAIN schoolCampaigns' = DOMAIN schoolCampaigns \cup {c}
        /\ schoolCampaigns'[c] = row
        /\ \A d \in DOMAIN schoolCampaigns \ {c} : schoolCampaigns'[d] = schoolCampaigns[d]
    BY <2>1 DEF Schools!With
  <2>3. row.status = "DRAFT"
    OBVIOUS
  <2> QED BY <2>1, <2>2, <2>3, CampaignStepOrder
<1>2. ASSUME NEW c \in DOMAIN schoolCampaigns, NEW s \in Partner, NEW goal \in CampaignGoal,
             Schools!UpdateCampaign(h, c, s, goal)
      PROVE  SchoolOrder'
  <2> PICK next : next = [step |-> "update", campaign |-> c, school |-> s, goal |-> goal]
    OBVIOUS
  <2>1. /\ UNCHANGED <<schoolSchool, schoolCampaigns, schoolApproved>>
        /\ Schools!Continue(h, next) /\ schoolCampaigns[c].status = "DRAFT"
    BY <1>2 DEF Schools!UpdateCampaign, Schools!IsDraft
  <2>2. DoesNoHarm(next, schoolSchool, schoolCampaigns)
    BY <2>1 DEF DoesNoHarm
  <2> QED BY <2>1, <2>2, QuietSchoolStep
<1>3. ASSUME NEW c \in DOMAIN schoolCampaigns, Schools!SubmitCampaign(h, c)
      PROVE  SchoolOrder'
  <2> PICK next : next = [step |-> "submit", campaign |-> c]
    OBVIOUS
  <2>1. /\ UNCHANGED <<schoolSchool, schoolCampaigns, schoolApproved>>
        /\ Schools!Continue(h, next)
    BY <1>3 DEF Schools!SubmitCampaign
  <2>2. DoesNoHarm(next, schoolSchool, schoolCampaigns)
    BY DEF DoesNoHarm
  <2> QED BY <2>1, <2>2, QuietSchoolStep
<1>4. ASSUME NEW c \in DOMAIN schoolCampaigns, NEW row, h \in SchoolBusy,
             schoolCampaigns' = [schoolCampaigns EXCEPT ![c] = row],
             Schools!Continue(h, Schools!Idle), UNCHANGED <<schoolSchool, schoolApproved>>,
             requestsAlone => row.status \in {"DRAFT", "REJECTED", "PENDING_VERIFICATION"}
      PROVE  SchoolOrder'
  <2>1. /\ DOMAIN schoolCampaigns' = DOMAIN schoolCampaigns
        /\ schoolCampaigns'[c] = row
        /\ \A d \in DOMAIN schoolCampaigns \ {c} : schoolCampaigns'[d] = schoolCampaigns[d]
    BY <1>4
  <2>2. requestsAlone =>
           \A q \in Hand : DoesNoHarm(schoolTask'[q], schoolSchool', schoolCampaigns')
    BY <1>4, HarmlessEnd
  <2>3. requestsAlone => StaysActive(schoolSchool')
    BY <1>4 DEF SchoolOrder
  <2>4. ASSUME requestsAlone
        PROVE  TermsStand(schoolCampaigns', schoolApproved')
    <3>1. TermsStand(schoolCampaigns, schoolApproved)
      BY <2>4 DEF SchoolOrder
    <3> SUFFICES ASSUME NEW d \in DOMAIN schoolCampaigns,
                        schoolCampaigns'[d].status \in {"LIVE", "FUNDED", "DISBURSED"},
                        schoolCampaigns'[d].verified = "VERIFIED"
                 PROVE  /\ d \in DOMAIN schoolApproved'
                        /\ schoolApproved'[d] = [goal |-> schoolCampaigns'[d].goal,
                                                 school |-> schoolCampaigns'[d].school]
      BY <2>1 DEF TermsStand
    <3>2. d # c
      BY <1>4, <2>1, <2>4
    <3> QED BY <1>4, <2>1, <3>1, <3>2 DEF TermsStand
  <2> QED BY <1>0, <2>2, <2>3, <2>4, SchoolOrderKept
<1>5. CASE Schools!StoreUpdate(h)
  <2> PICK x : x = schoolTask[h]
    OBVIOUS
  <2> PICK old : old = schoolCampaigns[x.campaign]
    OBVIOUS
  <2> PICK row : row = [old EXCEPT !.school = x.school, !.goal = x.goal]
    OBVIOUS
  <2>1. /\ UNCHANGED <<schoolSchool, schoolApproved>> /\ Schools!Continue(h, Schools!Idle)
        /\ schoolCampaigns' = [schoolCampaigns EXCEPT ![x.campaign] = row]
        /\ x.step = "update"
    BY <1>5 DEF Schools!StoreUpdate
  <2>2. x.campaign \in DOMAIN schoolCampaigns
    BY <2>1 DEF SchoolTypes, TaskFits
  <2>3. row.status = old.status
    BY <2>2 DEF SchoolTypes, CampaignRows
  <2>4. requestsAlone => old.status \in {"DRAFT", "REJECTED"}
    BY <2>1 DEF SchoolOrder, DoesNoHarm
  <2>5. h \in SchoolBusy
    BY <1>b, <2>1
  <2> QED BY <1>4, <2>1, <2>2, <2>3, <2>4, <2>5
<1>6. CASE Schools!StoreSubmitted(h)
  <2> PICK c : c = schoolTask[h].campaign
    OBVIOUS
  <2> PICK old : old = schoolCampaigns[c]
    OBVIOUS
  <2> PICK row : row = [old EXCEPT !.status = "PENDING_VERIFICATION", !.verified = "PENDING"]
    OBVIOUS
  <2>1. /\ UNCHANGED <<schoolSchool, schoolApproved>> /\ Schools!Continue(h, Schools!Idle)
        /\ schoolCampaigns' = [schoolCampaigns EXCEPT ![c] = row]
        /\ schoolTask[h].step = "submit"
    BY <1>6 DEF Schools!StoreSubmitted
  <2>2. c \in DOMAIN schoolCampaigns
    BY <2>1 DEF SchoolTypes, TaskFits
  <2>3. row.status = "PENDING_VERIFICATION"
    BY <2>2 DEF SchoolTypes, CampaignRows
  <2>4. h \in SchoolBusy
    BY <1>b, <2>1
  <2> QED BY <1>4, <2>1, <2>2, <2>3, <2>4
<1> QED BY <1>1, <1>2, <1>3, <1>5, <1>6 DEF Schools!StudentStep

\* Whoever acts, the order is kept.
LEMMA SchoolOrderStep ==
    ASSUME SchoolTypes, SchoolOrder, [AllNext]_allVars
    PROVE  SchoolOrder'
<1>1. SchoolMoves
  BY SchoolsAreWatched
<1>2. requestsAlone' => requestsAlone
  BY <1>1 DEF SchoolMoves
<1>3. ASSUME UNCHANGED <<schoolSchool, schoolCampaigns, schoolApproved, schoolTask>>
      PROVE  SchoolOrder'
  BY <1>1, <1>2, <1>3, SchoolOrderKept DEF SchoolOrder
<1>4. ASSUME NEW s \in Partner, NEW flag \in BOOLEAN, Schools!VerifyPayout(s, flag)
      PROVE  SchoolOrder'
  <2> PICK old : old = schoolSchool[s]
    OBVIOUS
  <2> PICK row : row = [old EXCEPT !.payout = flag]
    OBVIOUS
  <2>1. /\ schoolSchool' = [schoolSchool EXCEPT ![s] = row]
        /\ UNCHANGED <<schoolCampaigns, schoolApproved, schoolTask>>
    BY <1>4 DEF Schools!VerifyPayout
  <2>2. row.signed = old.signed /\ row.status = old.status
    BY DEF SchoolTypes, SchoolRows
  <2>3. \A p \in Partner : /\ schoolSchool'[p].signed = schoolSchool[p].signed
                           /\ schoolSchool'[p].status = schoolSchool[p].status
    BY <2>1, <2>2 DEF SchoolTypes
  <2>4. requestsAlone => StaysActive(schoolSchool')
    BY <2>3 DEF SchoolOrder, StaysActive
  <2>5. requestsAlone => TermsStand(schoolCampaigns', schoolApproved')
    BY <2>1 DEF SchoolOrder
  <2>6. requestsAlone =>
           \A q \in Hand : DoesNoHarm(schoolTask'[q], schoolSchool', schoolCampaigns')
    BY <2>1, <2>3 DEF SchoolOrder, SchoolTypes, TaskFits, DoesNoHarm
  <2> QED BY <1>1, <1>2, <2>4, <2>5, <2>6, SchoolOrderKept
<1>5. ASSUME NEW c \in DOMAIN schoolCampaigns, Schools!MoneyMoves(c)
      PROVE  SchoolOrder'
  <2> PICK old : old = schoolCampaigns[c]
    OBVIOUS
  <2>1. PICK status \in {"FUNDED", "DISBURSED"} :
          /\ UNCHANGED <<schoolSchool, schoolApproved, schoolTask>>
          /\ schoolCampaigns' = [schoolCampaigns EXCEPT ![c] = [old EXCEPT !.status = status]]
          /\ old.status \in {"LIVE", "FUNDED"}
    BY <1>5 DEF Schools!MoneyMoves
  <2> PICK row : row = [old EXCEPT !.status = status]
    OBVIOUS
  <2>2. old \in CampaignRows
    BY DEF SchoolTypes
  <2>3. row.verified = old.verified /\ row.goal = old.goal /\ row.school = old.school
    BY <2>2 DEF CampaignRows
  <2>4. /\ DOMAIN schoolCampaigns' = DOMAIN schoolCampaigns
        /\ schoolCampaigns'[c] = row
        /\ \A d \in DOMAIN schoolCampaigns \ {c} : schoolCampaigns'[d] = schoolCampaigns[d]
    BY <2>1
  <2>5. old.status \notin {"DRAFT", "REJECTED"}
    BY <2>1
  <2> QED BY <1>1, <2>1, <2>3, <2>4, <2>5, CampaignStepOrder
<1> QED
  BY <1>1, <1>3, <1>4, <1>5, SchoolStepOrder, StudentStepOrder
     DEF SchoolMoves, Schools!Next, Schools!AdminStep, Schools!GenerateLink, Schools!LinkExpires,
         Schools!vars
-----------------------------------------------------------------------------
(* Lists of admissions: only reviews decide.                               *)

\* Every school has a list, perhaps empty.
ListsAreThere == DOMAIN importAdmissions = Partner

\* What a review has decided stays decided.
ReviewsStand ==
    \A s \in Partner : \A f \in DOMAIN importAdmissions[s] :
        importAdmissions[s][f] # "PENDING" => importAdmissions'[s][f] # "PENDING"

\* A step of the whole is one of the second school, or leaves it alone.
LEMMA ImportSteps == [AllNext]_allVars => [Import!Next]_(Import!vars)
BY DEF AllNext, PartNext, OtherParts, allVars, import, Import!vars

\* In the second list is decided what is decided in the first.
StillDecided(old, list) == \A f \in DOMAIN old : old[f] # "PENDING" => list[f] # "PENDING"

\* One list of a school is replaced, by one in which nothing decided is pending.
LEMMA ListReplaced ==
    ASSUME ListsAreThere, NEW s \in Partner, NEW list,
           importAdmissions' = [importAdmissions EXCEPT ![s] = list],
           StillDecided(importAdmissions[s], list)
    PROVE  ListsAreThere' /\ ReviewsStand
<1>1. DOMAIN importAdmissions' = Partner
  BY DEF ListsAreThere
<1>2. \A q \in Partner : importAdmissions'[q] = IF q = s THEN list ELSE importAdmissions[q]
  BY DEF ListsAreThere
<1> QED BY <1>1, <1>2 DEF ListsAreThere, ReviewsStand, StillDecided

\* One admission of a list is decided.
LEMMA AdmissionDecided ==
    ASSUME ListsAreThere, NEW s, NEW f, NEW verdict, verdict # "PENDING",
           importAdmissions' = [importAdmissions EXCEPT ![s][f] = verdict]
    PROVE  ListsAreThere' /\ ReviewsStand
<1> PICK old : old = importAdmissions[s]
  OBVIOUS
<1> PICK list : list = [old EXCEPT ![f] = verdict]
  OBVIOUS
<1>1. importAdmissions' = [importAdmissions EXCEPT ![s] = list]
  OBVIOUS
<1>2. StillDecided(old, list)
  BY DEF StillDecided
<1>3. CASE s \in Partner
  BY <1>1, <1>2, <1>3, ListReplaced
<1>4. CASE s \notin Partner
  <2>1. DOMAIN importAdmissions' = Partner
    BY <1>1 DEF ListsAreThere
  <2>2. \A q \in Partner : importAdmissions'[q] = importAdmissions[q]
    BY <1>1, <1>4 DEF ListsAreThere
  <2> QED BY <2>1, <2>2 DEF ListsAreThere, ReviewsStand
<1> QED BY <1>3, <1>4

\* Whoever acts, what is decided stays decided.
LEMMA ImportStepKeeps ==
    ASSUME ListsAreThere, [AllNext]_allVars
    PROVE  ListsAreThere' /\ [ReviewsStand]_(Import!vars)
<1>1. [Import!Next]_(Import!vars)
  BY ImportSteps
<1>2. ASSUME UNCHANGED importAdmissions
      PROVE  ListsAreThere' /\ ReviewsStand
  BY <1>2 DEF ListsAreThere, ReviewsStand
<1>3. ASSUME NEW h \in ImportHand, Import!SchoolStep(h)
      PROVE  ListsAreThere' /\ ReviewsStand
  <2>1. ASSUME NEW s \in Partner, NEW file \in AdmissionList, Import!Import(s, file)
        PROVE  ListsAreThere' /\ ReviewsStand
    <3> PICK refs : refs = Import!Parse(file).records
      OBVIOUS
    <3> PICK list : list = Import!Upsert(importAdmissions[s], refs)
      OBVIOUS
    <3>1. importAdmissions' = [importAdmissions EXCEPT ![s] = list]
      BY <2>1 DEF Import!Import, ListsAreThere
    <3>2. \A f \in DOMAIN importAdmissions[s] : list[f] = importAdmissions[s][f]
      BY DEF Import!Upsert
    <3>3. StillDecided(importAdmissions[s], list)
      BY <3>2 DEF StillDecided
    <3> QED BY <3>1, <3>3, ListReplaced
  <2>2. CASE Import!StoreVerified(h)
    <3> PICK s : s = importTask[h].school
      OBVIOUS
    <3> PICK f : f = importTask[h].ref
      OBVIOUS
    <3>1. \/ importAdmissions' = importAdmissions
          \/ importAdmissions' = [importAdmissions EXCEPT ![s][f] = "VERIFIED"]
      BY <2>2, Zenon DEF Import!StoreVerified
    <3>2. CASE importAdmissions' = importAdmissions
      BY <1>2, <3>2
    <3>3. CASE importAdmissions' = [importAdmissions EXCEPT ![s][f] = "VERIFIED"]
      BY <3>3, AdmissionDecided
    <3> QED BY <3>1, <3>2, <3>3
  <2>3. ASSUME NEW s \in Partner, NEW f, Import!RejectAdmission(s, f)
        PROVE  ListsAreThere' /\ ReviewsStand
    <3>1. importAdmissions' = [importAdmissions EXCEPT ![s][f] = "REJECTED"]
      BY <2>3 DEF Import!RejectAdmission
    <3> QED BY <3>1, AdmissionDecided
  <2>4. ASSUME ~ UNCHANGED importAdmissions
        PROVE  \/ \E s \in Partner, file \in AdmissionList : Import!Import(s, file)
               \/ Import!StoreVerified(h)
               \/ \E s \in Partner, f \in Reference : Import!RejectAdmission(s, f)
    BY <1>3, <2>4
       DEF Import!SchoolStep, Import!SavePayout, Import!SignAgreement, Import!StorePayout,
           Import!StoreAgreement, Import!CompleteViaToken, Import!StoreCompletion,
           Import!VerifyAdmission, Import!ApproveCampaign, Import!StoreApproval,
           Import!RejectCampaign
  <2> QED BY <1>2, <2>1, <2>2, <2>3, <2>4
<1>4. ASSUME NEW h \in ImportHand, Import!StudentStep(h)
      PROVE  UNCHANGED importAdmissions
  BY <1>4
     DEF Import!StudentStep, Import!CreateCampaign, Import!UpdateCampaign,
         Import!SubmitCampaign, Import!StoreUpdate, Import!StoreSubmitted
<1>5. CASE Import!Next
  BY <1>2, <1>3, <1>4, <1>5
     DEF Import!Next, Import!AdminStep, Import!GenerateLink, Import!VerifyPayout,
         Import!LinkExpires, Import!MoneyMoves
<1>6. CASE UNCHANGED Import!vars
  BY <1>2, <1>6 DEF Import!vars
<1> QED BY <1>1, <1>5, <1>6

-----------------------------------------------------------------------------
\* The types that the model states follow.
LEMMA SchoolTypesOf == SchoolTypes => Schools!TypeOK
BY DEF SchoolTypes, SchoolRows, LinkRows, CampaignRows, TaskFits, Schools!TypeOK

\* The order is what the public and the school rely on.
LEMMA SchoolOrderShows ==
    SchoolTypes /\ SchoolOrder /\ requestsAlone
    => Schools!SignedIsActive /\ Schools!ApprovedTermsStand
<1> SUFFICES ASSUME SchoolTypes, SchoolOrder, requestsAlone
             PROVE  Schools!SignedIsActive /\ Schools!ApprovedTermsStand
  OBVIOUS
<1>1. Schools!SignedIsActive
  <2>1. \A p \in Partner : schoolSchool[p].signed \in BOOLEAN
    BY DEF SchoolTypes, SchoolRows
  <2>2. \A p \in Partner : schoolSchool[p].signed = TRUE => schoolSchool[p].status = "ACTIVE"
    BY DEF SchoolOrder, StaysActive
  <2> QED BY <2>1, <2>2 DEF Schools!SignedIsActive
<1>2. Schools!ApprovedTermsStand
  BY DEF SchoolOrder, TermsStand, Schools!ApprovedTermsStand, Schools!Gallery, Schools!Terms
<1> QED BY <1>1, <1>2

\* A school that is active has signed and said where money goes, whatever overlaps;
\* as long as requests do not overlap, one that signed stays active and the public sees
\* the terms that the school approved; a dashboard counts every campaign once; and only
\* reviews decide on admissions, for any number of schools, campaigns and handlers
\* (savePayout, signAgreement, completeViaToken, approve, updateForUser, import).
THEOREM SchoolsAlwaysDecide == AllSpec => SchoolsDecide
<1>1. AllInit => SchoolTypes /\ SchoolOrder /\ ListsAreThere
  <2>1. AllInit => ListsAreThere
    BY DEF AllInit, Import!Init, ListsAreThere
  <2> QED BY <2>1, SchoolTypesInitially, SchoolOrderInitially
<1>2. SchoolTypes /\ SchoolOrder /\ ListsAreThere /\ [AllNext]_allVars
      => SchoolTypes' /\ SchoolOrder' /\ ListsAreThere' /\ [ReviewsStand]_(Import!vars)
  BY SchoolTypesStep, SchoolOrderStep, ImportStepKeeps
<1>3. SchoolTypes /\ SchoolOrder
      => (focus = "school" =>
             /\ Schools!TypeOK /\ Schools!ActiveIsSigned /\ Schools!ViewsAgree
             /\ requestsAlone => Schools!SignedIsActive /\ Schools!ApprovedTermsStand)
  BY SchoolTypesOf, AllOnboarded, SchoolViewsAgree, SchoolOrderShows DEF Schools!ActiveIsSigned
<1>4. AllSpec => [](SchoolTypes /\ SchoolOrder)
                 /\ [][ReviewsStand]_(Import!vars)
  BY <1>1, <1>2, PTL DEF AllSpec
<1>5. [][ReviewsStand]_(Import!vars) => Import!OnlyReviewsDecide
  BY PTL DEF ReviewsStand, Import!OnlyReviewsDecide
<1> QED BY <1>3, <1>4, <1>5, PTL DEF SchoolsDecide
===============================================================================
