----------------------------- MODULE PayrollProofs -----------------------------
(***************************************************************************)
(* Theorems about Payroll, for any employees, runs, gifts, caps and goals. *)
(*                                                                         *)
(* A run decides that a campaign is funded on the total it read when it    *)
(* started.  That is sound because the total only grows: the invariant     *)
(* says that what a run remembers is at most what is raised, and that a    *)
(* run which deals with an employee has one.                               *)
(*                                                                         *)
(* As long as runs do not overlap, the matches fit the cap of each         *)
(* employee: what a run believes is left of it covers the sum of the rows. *)
(***************************************************************************)
EXTENDS MCPayroll, Sums

\* What a run remembers of the campaign is old but never too much: no payroll
\* run takes money back (runCampaign).
SnapshotsFit == \A r \in Run : run[r].raised <= raised

\* A run that deals with an employee has one, and knows its year
\* (commitContribution).
Dealing ==
    \A r \in Run :
        /\ run[r].at \in {"append", "commit", "failed"} => run[r].todo # {}
        /\ run[r].at \in {"loop", "append", "commit"} => run[r].year \in Year

\* A run commits only after its entry is in the ledger (ledger.append).
EntryIsWritten == \A r \in Run : run[r].at = "commit" => <<r, NextOf(r)>> \in entered

IInv ==
    /\ TypeOK
    /\ SnapshotsFit
    /\ Dealing
    /\ EntryIsWritten
    /\ FundedIsCovered
    /\ LedgerShowsGifts

USE DEF Year

\* The next employee of a run that has one is one of them (employeeExternalId).
LEMMA NextIsListed ==
    ASSUME TypeOK, NEW r \in Run, run[r].todo # {}
    PROVE  NextOf(r) \in run[r].todo /\ NextOf(r) \in Employee
<1>1. run[r].todo \subseteq Employee /\ run[r].todo \in SUBSET Nat
  BY PayrollAssumption DEF TypeOK, RunState
<1>2. \E e \in run[r].todo : \A o \in run[r].todo : e <= o
  BY <1>1, LeastNatural
<1> QED BY <1>1, <1>2 DEF NextOf

\* The amounts a run computes for its next employee are natural numbers
\* (applyPayrollMatchRule, splitContribution).
LEMMA AmountsAreNatural ==
    ASSUME TypeOK, NEW r \in Run, run[r].todo # {}
    PROVE  UsedSoFar(r) \in Nat /\ Match(r) \in Nat /\ Booked(r) \in Nat
<1>t. run[r] \in RunState
  BY DEF TypeOK
<1>1. UsedSoFar(r) \in Nat /\ run[r].cap \in Nat /\ run[r].gift \in Nat /\ run[r].raised \in Nat
  BY <1>t, NextIsListed DEF RunState, UsedSoFar
<1>2. Remaining(r) \in Nat /\ Gap(r) \in Nat
  BY <1>1, PayrollAssumption DEF Remaining, Gap
<1>3. Match(r) \in Nat
  BY <1>1, <1>2 DEF Match
<1> QED BY <1>1, <1>2, <1>3 DEF Booked

\* A run state is the record of its fields.
LEMMA RunStateFields ==
    ASSUME NEW s \in RunState
    PROVE  /\ s = [at |-> s.at, gift |-> s.gift, cap |-> s.cap, raised |-> s.raised,
                   status |-> s.status, year |-> s.year, todo |-> s.todo, used |-> s.used]
           /\ s.gift \in Nat /\ s.cap \in Nat /\ s.raised \in Nat /\ s.status \in Status
           /\ s.year \in 0 .. MaxYear /\ s.todo \in SUBSET Employee /\ s.used \in [Employee -> Nat]
  BY DEF RunState

\* A run that only moves on keeps what it remembers.
LEMMA RunMovesOn ==
    ASSUME TypeOK, NEW r \in Run,
           NEW at \in {"append", "commit", "done", "failed"}, run' = [run EXCEPT ![r].at = at]
    PROVE  /\ run' \in [Run -> RunState]
           /\ \A q \in Run \ {r} : run'[q] = run[q]
           /\ run'[r].at = at /\ run'[r].raised = run[r].raised
           /\ run'[r].year = run[r].year /\ run'[r].todo = run[r].todo
           /\ run'[r].cap = run[r].cap /\ run'[r].used = run[r].used
<1> DEFINE s == run[r]
           next == [at |-> at, gift |-> s.gift, cap |-> s.cap, raised |-> s.raised,
                    status |-> s.status, year |-> s.year, todo |-> s.todo, used |-> s.used]
<1>1. s \in RunState
  BY DEF TypeOK
<1>2. next \in RunState
  BY <1>1, RunStateFields DEF RunState
<1>3. [s EXCEPT !.at = at] = next
  BY <1>1, RunStateFields
<1>4. run' = [run EXCEPT ![r] = next]
  BY <1>3 DEF TypeOK
<1>5. /\ next.at = at /\ next.raised = run[r].raised
      /\ next.year = run[r].year /\ next.todo = run[r].todo
      /\ next.cap = run[r].cap /\ next.used = run[r].used
  OBVIOUS
<1> HIDE DEF next, s
<1> QED BY <1>2, <1>4, <1>5 DEF TypeOK

LEMMA InitInvariant == Init => IInv
<1> SUFFICES ASSUME Init PROVE IInv
  OBVIOUS
<1> USE PayrollAssumption
<1>1. Idle \in RunState
  BY DEF Idle, RunState, Status
<1>2. TypeOK
  BY <1>1 DEF Init, TypeOK, Status
<1> QED BY <1>2 DEF Init, IInv, SnapshotsFit, Dealing, EntryIsWritten, FundedIsCovered,
                   LedgerShowsGifts, Idle

\* A step that leaves the runs and the books alone keeps what is said of them.
LEMMA RunsStay ==
    ASSUME IInv, UNCHANGED <<run, entered, booked>>, raised' \in Nat, raised <= raised'
    PROVE  SnapshotsFit' /\ Dealing' /\ EntryIsWritten' /\ LedgerShowsGifts'
<1>1. \A r \in Run : run[r].raised \in Nat
  BY DEF IInv, TypeOK, RunState
<1>2. SnapshotsFit'
  BY <1>1 DEF IInv, SnapshotsFit, TypeOK
<1> QED BY <1>2 DEF IInv, Dealing, EntryIsWritten, LedgerShowsGifts, NextOf

\* A run that moves on to a state where no entry waits for its contribution, and
\* had none waiting, keeps what is said of the books.
LEMMA BooksStay ==
    ASSUME LedgerShowsGifts, EntryIsWritten, TypeOK, UNCHANGED <<entered, booked>>, NEW r \in Run,
           \A q \in Run \ {r} : run'[q] = run[q],
           run[r].at \notin {"commit", "failed"}, run'[r].at # "commit"
    PROVE  LedgerShowsGifts' /\ EntryIsWritten'
<1>1. ASSUME NEW g \in entered \ booked
      PROVE  run'[g[1]].at \in {"commit", "failed"} /\ g[2] = NextOf(g[1])'
  <2>1. g[1] \in Run /\ g[1] # r
    BY <1>1 DEF LedgerShowsGifts, TypeOK
  <2>2. run'[g[1]] = run[g[1]]
    BY <2>1
  <2> QED BY <1>1, <2>2 DEF LedgerShowsGifts, NextOf
<1>2. EntryIsWritten'
  BY DEF EntryIsWritten, NextOf
<1> QED BY <1>1, <1>2 DEF LedgerShowsGifts

LEMMA StepInvariant == IInv /\ [Next]_vars => IInv'
<1> SUFFICES ASSUME IInv, [Next]_vars PROVE IInv'
  OBVIOUS
<1> USE PayrollAssumption DEF Program, Campaign, Books
<1>t. TypeOK /\ SnapshotsFit /\ Dealing /\ EntryIsWritten /\ FundedIsCovered /\ LedgerShowsGifts
  BY DEF IInv
<1>n. raised \in Nat /\ \A r \in Run : run[r] \in RunState
  BY <1>t DEF TypeOK
<1>1. ASSUME NEW cap \in Caps, ConfigureRule(cap) PROVE IInv'
  <2>1. TypeOK'
    BY <1>1, <1>t DEF ConfigureRule, TypeOK
  <2> QED BY <1>1, <1>t, <1>n, <2>1, RunsStay DEF ConfigureRule, IInv, FundedIsCovered
<1>2. ASSUME NEW e \in Employee, ActivateEmployee(e) PROVE IInv'
  <2>1. TypeOK'
    BY <1>2, <1>t DEF ActivateEmployee, TypeOK
  <2> QED BY <1>2, <1>t, <1>n, <2>1, RunsStay DEF ActivateEmployee, IInv, FundedIsCovered
<1>3. CASE NewYear
  <2>1. TypeOK'
    BY <1>3, <1>t DEF NewYear, TypeOK
  <2> QED BY <1>3, <1>t, <1>n, <2>1, RunsStay DEF NewYear, IInv, FundedIsCovered
<1>4. CASE Verify
  <2>1. TypeOK'
    BY <1>4, <1>t DEF Verify, TypeOK, Status
  <2> QED BY <1>4, <1>t, <1>n, <2>1, RunsStay DEF Verify, IInv, FundedIsCovered
<1>5. ASSUME NEW r \in Run, NEW gift \in Gift, RunCampaign(r, gift) PROVE IInv'
  <2>1. PICK cap \in rule :
           run' = [run EXCEPT ![r] =
                     [at |-> "employees", gift |-> gift, cap |-> cap, raised |-> raised,
                      status |-> status, year |-> 0, todo |-> {}, used |-> [e \in Employee |-> 0]]]
    BY <1>5 DEF RunCampaign, Idle
  <2> DEFINE next == [at |-> "employees", gift |-> gift, cap |-> cap, raised |-> raised,
                      status |-> status, year |-> 0, todo |-> {}, used |-> [e \in Employee |-> 0]]
  <2>2. next \in RunState
    BY <1>t DEF RunState, TypeOK
  <2>3. next.at = "employees" /\ next.raised = raised /\ run' = [run EXCEPT ![r] = next]
    BY <2>1
  <2> HIDE DEF next
  <2>4. run' \in [Run -> RunState] /\ run'[r] = next /\ \A q \in Run \ {r} : run'[q] = run[q]
    BY <2>2, <2>3, <1>t DEF TypeOK
  <2>5. TypeOK'
    BY <1>5, <1>t, <2>4 DEF RunCampaign, TypeOK
  <2>6. SnapshotsFit' /\ Dealing'
    BY <1>5, <1>t, <1>n, <2>3, <2>4 DEF RunCampaign, SnapshotsFit, Dealing
  <2>7. LedgerShowsGifts' /\ EntryIsWritten'
    BY <1>5, <1>t, <2>3, <2>4, BooksStay DEF RunCampaign
  <2> QED BY <1>5, <1>t, <2>5, <2>6, <2>7 DEF RunCampaign, IInv, FundedIsCovered
<1>6. ASSUME NEW r \in Run, ReadEmployees(r) PROVE IInv'
  <2> DEFINE read == [e \in Employee |-> IF usedYear[e] = year THEN used[e] ELSE 0]
             next == [at |-> IF active = {} THEN "done" ELSE "loop", gift |-> run[r].gift,
                      cap |-> run[r].cap, raised |-> run[r].raised, status |-> run[r].status,
                      year |-> year, todo |-> active, used |-> read]
  <2>1. read \in [Employee -> Nat]
    BY <1>t DEF TypeOK
  <2>2. run' = [run EXCEPT ![r] =
                  [run[r] EXCEPT !.at = IF active = {} THEN "done" ELSE "loop",
                                 !.year = year, !.todo = active, !.used = read]]
    BY <1>6 DEF ReadEmployees
  <2> HIDE DEF read
  <2>r. run[r] = [at |-> run[r].at, gift |-> run[r].gift, cap |-> run[r].cap,
                  raised |-> run[r].raised, status |-> run[r].status, year |-> run[r].year,
                  todo |-> run[r].todo, used |-> run[r].used]
    BY <1>n, RunStateFields
  <2>3. [run[r] EXCEPT !.at = IF active = {} THEN "done" ELSE "loop",
                       !.year = year, !.todo = active, !.used = read] = next
    <3> DEFINE s == run[r]
               at == IF active = {} THEN "done" ELSE "loop"
               moved == [s EXCEPT !.at = at]
               dated == [moved EXCEPT !.year = year]
               listed == [dated EXCEPT !.todo = active]
    <3> HIDE DEF at
    <3>1. moved = [at |-> at, gift |-> s.gift, cap |-> s.cap, raised |-> s.raised,
                   status |-> s.status, year |-> s.year, todo |-> s.todo, used |-> s.used]
      BY <2>r
    <3> HIDE DEF moved
    <3>2. dated = [at |-> at, gift |-> s.gift, cap |-> s.cap, raised |-> s.raised,
                   status |-> s.status, year |-> year, todo |-> s.todo, used |-> s.used]
      BY <3>1
    <3> HIDE DEF dated
    <3>3. listed = [at |-> at, gift |-> s.gift, cap |-> s.cap, raised |-> s.raised,
                    status |-> s.status, year |-> year, todo |-> active, used |-> s.used]
      BY <3>2
    <3> HIDE DEF listed
    <3>4. [listed EXCEPT !.used = read]
             = [at |-> at, gift |-> s.gift, cap |-> s.cap, raised |-> s.raised,
                status |-> s.status, year |-> year, todo |-> active, used |-> read]
      BY <3>3
    <3> QED BY <3>4 DEF at, moved, dated, listed
  <2>4. next \in RunState
    BY <1>n, <1>t, <2>1, RunStateFields DEF RunState, TypeOK
  <2>5. /\ next.at \in {"done", "loop"} /\ next.raised = run[r].raised /\ next.year \in Year
        /\ run' = [run EXCEPT ![r] = next]
    BY <1>t, <2>2, <2>3 DEF TypeOK
  <2> HIDE DEF next
  <2>6. run' \in [Run -> RunState] /\ run'[r] = next /\ \A q \in Run \ {r} : run'[q] = run[q]
    BY <2>4, <2>5, <1>t DEF TypeOK
  <2>7. TypeOK'
    BY <1>6, <1>t, <2>6 DEF ReadEmployees, TypeOK
  <2>8. SnapshotsFit' /\ Dealing'
    BY <1>6, <1>t, <2>5, <2>6 DEF ReadEmployees, SnapshotsFit, Dealing
  <2>9. LedgerShowsGifts' /\ EntryIsWritten'
    BY <1>6, <1>t, <2>5, <2>6, BooksStay DEF ReadEmployees
  <2> QED BY <1>6, <1>t, <2>7, <2>8, <2>9 DEF ReadEmployees, IInv, FundedIsCovered
<1>7. ASSUME NEW r \in Run, Begin(r) PROVE IInv'
  <2>1. run[r].at = "loop" /\ run[r].todo # {} /\ run' = [run EXCEPT ![r].at = "append"]
    BY <1>7 DEF Begin
  <2>2. TypeOK'
    BY <1>7, <1>t, <2>1, RunMovesOn DEF Begin, TypeOK
  <2>3. SnapshotsFit' /\ Dealing'
    BY <1>7, <1>t, <2>1, RunMovesOn DEF Begin, SnapshotsFit, Dealing
  <2>4. LedgerShowsGifts' /\ EntryIsWritten'
    BY <1>7, <1>t, <2>1, RunMovesOn, BooksStay DEF Begin
  <2> QED BY <1>7, <1>t, <2>2, <2>3, <2>4 DEF Begin, IInv, FundedIsCovered
<1>8. ASSUME NEW r \in Run, Append(r) PROVE IInv'
  <2>1. run[r].at = "append" /\ run[r].todo # {} /\ run' = [run EXCEPT ![r].at = "commit"]
    BY <1>8, <1>t DEF Append, Dealing
  <2>2. <<r, NextOf(r)>> \in Run \X Employee /\ NextOf(r)' = NextOf(r)
    BY <2>1, <1>t, NextIsListed, RunMovesOn DEF NextOf
  <2>3. TypeOK'
    BY <1>8, <1>t, <2>1, <2>2, RunMovesOn DEF Append, TypeOK
  <2>4. SnapshotsFit' /\ Dealing'
    BY <1>8, <1>t, <2>1, RunMovesOn DEF Append, SnapshotsFit, Dealing
  <2>5. LedgerShowsGifts'
    <3>1. ASSUME NEW g \in entered' \ booked'
          PROVE  run'[g[1]].at \in {"commit", "failed"} /\ g[2] = NextOf(g[1])'
      <4>1. CASE g = <<r, NextOf(r)>>
        BY <4>1, <2>1, <2>2, <1>t, RunMovesOn
      <4>2. CASE g \in entered \ booked
        <5>1. g[1] \in Run /\ g[1] # r
          BY <4>2, <2>1, <1>t DEF LedgerShowsGifts, TypeOK
        <5>2. run'[g[1]] = run[g[1]]
          BY <5>1, <2>1, <1>t, RunMovesOn
        <5> QED BY <4>2, <5>2, <1>t DEF LedgerShowsGifts, NextOf
      <4> QED BY <3>1, <4>1, <4>2, <1>8 DEF Append
    <3> QED BY <3>1, <1>8, <1>t DEF Append, LedgerShowsGifts
  <2>6. EntryIsWritten'
    <3>1. <<r, NextOf(r)>> \in entered' /\ entered \subseteq entered'
      BY <1>8 DEF Append
    <3>2. \A q \in Run \ {r} : run'[q] = run[q]
      BY <2>1, <1>t, RunMovesOn
    <3>3. ASSUME NEW q \in Run \ {r}, run'[q].at = "commit"
          PROVE  <<q, NextOf(q)'>> \in entered'
      BY <3>1, <3>2, <3>3, <1>t DEF EntryIsWritten, NextOf
    <3> QED BY <3>1, <3>3, <2>2 DEF EntryIsWritten
  <2> QED BY <1>8, <1>t, <2>3, <2>4, <2>5, <2>6 DEF Append, IInv, FundedIsCovered
<1>9. ASSUME NEW r \in Run, Commit(r) PROVE IInv'
  <2> DEFINE e == NextOf(r)
             y == run[r].year
             next == [at |-> "loop", gift |-> run[r].gift, cap |-> run[r].cap,
                      raised |-> run[r].raised, status |-> run[r].status, year |-> run[r].year,
                      todo |-> run[r].todo \ {e}, used |-> run[r].used]
  <2>1. run[r].at = "commit" /\ run[r].todo # {} /\ y \in Year
    BY <1>9, <1>t DEF Commit, Dealing
  <2>2. e \in Employee /\ Match(r) \in Nat /\ UsedSoFar(r) \in Nat /\ Booked(r) \in Nat
    BY <2>1, <1>t, NextIsListed, AmountsAreNatural
  <2>r. run[r] = [at |-> run[r].at, gift |-> run[r].gift, cap |-> run[r].cap,
                  raised |-> run[r].raised, status |-> run[r].status, year |-> run[r].year,
                  todo |-> run[r].todo, used |-> run[r].used]
    BY <1>n, RunStateFields
  <2>3. [run[r] EXCEPT !.at = "loop", !.todo = run[r].todo \ {e}] = next
    <3> DEFINE s == run[r]
               left == run[r].todo \ {e}
               looping == [s EXCEPT !.at = "loop"]
    <3>1. looping = [at |-> "loop", gift |-> s.gift, cap |-> s.cap, raised |-> s.raised,
                     status |-> s.status, year |-> s.year, todo |-> s.todo, used |-> s.used]
      BY <2>r
    <3> HIDE DEF left, looping
    <3>2. [looping EXCEPT !.todo = left]
             = [at |-> "loop", gift |-> s.gift, cap |-> s.cap, raised |-> s.raised,
                status |-> s.status, year |-> s.year, todo |-> left, used |-> s.used]
      BY <3>1
    <3> QED BY <3>2 DEF left, looping
  <2>4. next \in RunState
    BY <1>n, RunStateFields DEF RunState
  <2>5. /\ next.at = "loop" /\ next.raised = run[r].raised /\ next.year \in Year
        /\ run' = [run EXCEPT ![r] = next]
    BY <1>9, <2>1, <2>3 DEF Commit
  <2>6. /\ raised' = raised + Booked(r)
        /\ status' = IF Funds(r) /\ run[r].status # "FUNDED" THEN "FUNDED" ELSE status
        /\ booked' = booked \cup {<<r, e>>} /\ entered' = entered
        /\ used' = [used EXCEPT ![e] = UsedSoFar(r) + Match(r)]
        /\ usedYear' = [usedYear EXCEPT ![e] = y]
        /\ matched' = [matched EXCEPT ![e] = [matched[e] EXCEPT ![y] = matched[e][y] + Booked(r)]]
        /\ UNCHANGED <<year, rule, active>>
    BY <1>9 DEF Commit
  <2> HIDE DEF next, e, y
  <2>7. run' \in [Run -> RunState] /\ run'[r] = next /\ \A q \in Run \ {r} : run'[q] = run[q]
    BY <2>4, <2>5, <1>t DEF TypeOK
  <2>8. TypeOK'
    <3>1. raised' \in Nat /\ status' \in Status
      BY <2>2, <2>6, <1>t DEF TypeOK, Status
    <3>2. used' \in [Employee -> Nat] /\ usedYear' \in [Employee -> 0 .. MaxYear]
      BY <2>1, <2>2, <2>6, <1>t DEF TypeOK
    <3>3. [matched[e] EXCEPT ![y] = matched[e][y] + Booked(r)] \in [Year -> Nat]
      BY <2>1, <2>2, <1>t DEF TypeOK
    <3>4. matched' \in [Employee -> [Year -> Nat]]
      BY <3>3, <2>2, <2>6, <1>t DEF TypeOK
    <3>5. booked' \subseteq Run \X Employee
      BY <2>2, <2>6, <1>t DEF TypeOK
    <3> QED BY <3>1, <3>2, <3>4, <3>5, <2>6, <2>7, <1>t DEF TypeOK
  <2>9. SnapshotsFit' /\ Dealing'
    <3>1. \A q \in Run : run'[q].raised = run[q].raised /\ run[q].raised \in Nat
      BY <1>n, <2>5, <2>7 DEF RunState
    <3>2. SnapshotsFit'
      BY <3>1, <2>2, <2>6, <1>n, <1>t DEF SnapshotsFit
    <3> QED BY <3>2, <2>5, <2>7, <1>t DEF Dealing
  <2>10. FundedIsCovered'
    <3>1. run[r].raised <= raised /\ run[r].raised \in Nat
      BY <1>n, <1>t DEF SnapshotsFit, RunState
    <3> QED BY <3>1, <2>2, <2>6, <1>n, <1>t DEF Funds, FundedIsCovered
  <2>11. LedgerShowsGifts'
    <3>1. <<r, e>> \in entered
      BY <2>1, <1>t DEF EntryIsWritten, e
    <3>2. ASSUME NEW g \in entered' \ booked'
          PROVE  run'[g[1]].at \in {"commit", "failed"} /\ g[2] = NextOf(g[1])'
      <4>1. g \in entered \ booked /\ g \in Run \X Employee /\ g # <<r, e>>
        BY <3>2, <2>6, <1>t DEF TypeOK
      <4>2. g[1] # r
        BY <4>1, <1>t DEF LedgerShowsGifts, e
      <4>3. run'[g[1]] = run[g[1]]
        BY <4>1, <4>2, <2>7
      <4> QED BY <4>1, <4>3, <1>t DEF LedgerShowsGifts, NextOf
    <3> QED BY <3>1, <3>2, <2>6, <1>t DEF LedgerShowsGifts
  <2>12. EntryIsWritten'
    BY <2>5, <2>6, <2>7, <1>t DEF EntryIsWritten, NextOf
  <2> QED BY <2>8, <2>9, <2>10, <2>11, <2>12 DEF IInv
<1>10. ASSUME NEW r \in Run, Finish(r) PROVE IInv'
  <2>1. run[r].at = "loop" /\ run' = [run EXCEPT ![r].at = "done"]
    BY <1>10 DEF Finish
  <2>2. TypeOK'
    BY <1>10, <1>t, <2>1, RunMovesOn DEF Finish, TypeOK
  <2>3. SnapshotsFit' /\ Dealing'
    BY <1>10, <1>t, <2>1, RunMovesOn DEF Finish, SnapshotsFit, Dealing
  <2>4. LedgerShowsGifts' /\ EntryIsWritten'
    BY <1>10, <1>t, <2>1, RunMovesOn, BooksStay DEF Finish
  <2> QED BY <1>10, <1>t, <2>2, <2>3, <2>4 DEF Finish, IInv, FundedIsCovered
<1>11. ASSUME NEW r \in Run, Fail(r) PROVE IInv'
  <2>1. run[r].at \in {"append", "commit"} /\ run[r].todo # {} /\ run' = [run EXCEPT ![r].at = "failed"]
    BY <1>11, <1>t DEF Fail, Dealing
  <2>2. /\ run' \in [Run -> RunState] /\ \A q \in Run \ {r} : run'[q] = run[q]
        /\ run'[r].at = "failed" /\ run'[r].raised = run[r].raised
        /\ run'[r].year = run[r].year /\ run'[r].todo = run[r].todo
    BY <1>t, <2>1, RunMovesOn
  <2>3. TypeOK'
    BY <1>11, <1>t, <2>2 DEF Fail, TypeOK
  <2>4. SnapshotsFit' /\ Dealing'
    BY <1>11, <1>t, <2>1, <2>2 DEF Fail, SnapshotsFit, Dealing
  <2>5. LedgerShowsGifts'
    <3>1. \A q \in Run : run'[q].todo = run[q].todo
      BY <2>2
    <3>2. \A g \in entered \ booked : g[1] \in Run /\ NextOf(g[1])' = NextOf(g[1])
      BY <3>1, <1>t DEF NextOf, TypeOK
    <3>3. \A g \in entered \ booked : run'[g[1]].at \in {"commit", "failed"}
      BY <3>2, <2>2, <1>t DEF LedgerShowsGifts
    <3> QED BY <3>2, <3>3, <1>11, <1>t DEF Fail, LedgerShowsGifts
  <2>6. EntryIsWritten'
    BY <1>11, <1>t, <2>2 DEF Fail, EntryIsWritten, NextOf
  <2> QED BY <1>11, <1>t, <2>3, <2>4, <2>5, <2>6 DEF Fail, IInv, FundedIsCovered
<1>12. ASSUME NEW amount \in Others, OthersGive(amount) PROVE IInv'
  <2>1. raised' \in Nat /\ raised <= raised' /\ status' \in Status
    BY <1>12, <1>t, <1>n DEF OthersGive, TypeOK, Status
  <2>2. TypeOK'
    BY <1>12, <1>t, <2>1 DEF OthersGive, TypeOK
  <2>3. FundedIsCovered'
    BY <1>12, <1>t, <2>1 DEF OthersGive, FundedIsCovered
  <2> QED BY <1>12, <1>t, <2>1, <2>2, <2>3, RunsStay DEF OthersGive, IInv
<1>13. CASE Disburse
  <2>1. TypeOK'
    BY <1>13, <1>t DEF Disburse, TypeOK, Status
  <2>2. FundedIsCovered'
    BY <1>13, <1>t DEF Disburse, FundedIsCovered
  <2> QED BY <1>13, <1>n, <2>1, <2>2, RunsStay DEF Disburse, IInv
<1>14. CASE UNCHANGED vars
  BY <1>14, <1>t DEF vars, IInv, TypeOK, SnapshotsFit, Dealing, EntryIsWritten, FundedIsCovered,
                     LedgerShowsGifts, NextOf
<1> QED BY <1>1, <1>2, <1>3, <1>4, <1>5, <1>6, <1>7, <1>8, <1>9, <1>10, <1>11, <1>12, <1>13, <1>14
        DEF Next, Proceed

\* The inductive invariant of the payroll runs.
THEOREM PayrollInvariant == Spec => []IInv
  BY InitInvariant, StepInvariant, PTL DEF Spec

\* Rules, balances, runs and books keep their types (payroll.service.ts).
THEOREM PayrollTypes == Spec => []TypeOK
<1>1. IInv => TypeOK
  BY DEF IInv
<1> QED BY <1>1, PayrollInvariant, PTL

\* A campaign that payroll runs declare funded has its goal covered, however
\* old what they read is (commitContribution).
THEOREM PayrollFundsCovered == Spec => []FundedIsCovered
<1>1. IInv => FundedIsCovered
  BY DEF IInv
<1> QED BY <1>1, PayrollInvariant, PTL

\* Every payroll contribution has its entry in the ledger, and an entry without
\* one belongs to a run that failed there or is about to commit
\* (commitContribution).
THEOREM PayrollIsInLedger == Spec => []LedgerShowsGifts
<1>1. IInv => LedgerShowsGifts
  BY DEF IInv
<1> QED BY <1>1, PayrollInvariant, PTL

\* Funding and ledger of payroll gifts are right together.
THEOREM PayrollIsAccounted == Spec => []GiftsAreAccounted
<1>1. IInv => GiftsAreAccounted
  BY DEF IInv, GiftsAreAccounted
<1> QED BY <1>1, PayrollInvariant, PTL

-----------------------------------------------------------------------------
(* The cap of the rule, as long as runs do not overlap.                    *)

Busy == {r \in Run : run[r].at \notin {"idle", "done", "failed"}}

\* What a run was told is a cap a rule has, and its year is no later than ours
\* (runCampaign).
RunsAreInformed ==
    /\ \A r \in Busy : run[r].cap \in Caps
    /\ \A r \in Run : run[r].at \in {"loop", "append", "commit"} => run[r].year <= year

\* matchUsedCents is about the last year an employee was matched in, covers
\* what was matched then, and fits a cap a rule has had (updateBalance).
BalancesCover ==
    /\ \A e \in Employee : usedYear[e] <= year /\ \E cap \in Caps \cup {0} : used[e] <= cap
    /\ \A e \in Employee, y \in Year :
          /\ y > usedYear[e] => matched[e][y] = 0
          /\ y = usedYear[e] => matched[e][y] <= used[e]

\* What a run remembers of the employees it still has to deal with is what
\* their balances say (usedThisYear).
BalancesAreFresh ==
    \A r \in Run : run[r].at \in {"loop", "append", "commit"} =>
        \A e \in run[r].todo :
            /\ usedYear[e] <= run[r].year
            /\ run[r].used[e] = IF usedYear[e] = run[r].year THEN used[e] ELSE 0

CapInv ==
    /\ IsFiniteSet(Busy)
    /\ alone => /\ \A q, r \in Busy : q = r
                /\ RunsAreInformed
                /\ BalancesCover
                /\ BalancesAreFresh
                /\ WithinCap

\* A step is one of at most one run.
LEMMA OneRunMoves ==
    ASSUME TypeOK, Next
    PROVE  run' = run \/ \E r \in Run : \A q \in Run \ {r} : run'[q] = run[q]
<1>1. ASSUME NEW r \in Run, Proceed(r) \/ Fail(r) PROVE \A q \in Run \ {r} : run'[q] = run[q]
  <2>1. run \in [Run -> RunState]
    BY DEF TypeOK
  <2> QED BY <1>1, <2>1 DEF Proceed, ReadEmployees, Begin, Append, Commit, Finish, Fail
<1>2. ASSUME NEW r \in Run, NEW gift \in Gift, RunCampaign(r, gift)
      PROVE  \A q \in Run \ {r} : run'[q] = run[q]
  BY <1>2 DEF RunCampaign, TypeOK
<1>3. CASE (\E cap \in Caps : ConfigureRule(cap)) \/ (\E e \in Employee : ActivateEmployee(e))
           \/ NewYear \/ Verify \/ (\E amount \in Others : OthersGive(amount)) \/ Disburse
  BY <1>3 DEF ConfigureRule, ActivateEmployee, NewYear, Verify, OthersGive, Disburse
<1> QED BY <1>1, <1>2, <1>3 DEF Next

\* Finitely many runs are at work.
LEMMA BusyStaysFinite == ASSUME TypeOK, Next, IsFiniteSet(Busy) PROVE IsFiniteSet(Busy')
<1>1. CASE run' = run
  BY <1>1 DEF Busy
<1>2. CASE \E r \in Run : \A q \in Run \ {r} : run'[q] = run[q]
  <2>1. PICK r \in Run : \A q \in Run \ {r} : run'[q] = run[q]
    BY <1>2
  <2>2. Busy' \subseteq Busy \cup {r}
    BY <2>1 DEF Busy
  <2>3. IsFiniteSet(Busy \cup {r})
    BY FS_AddElement
  <2> QED BY <2>2, <2>3, FS_Subset
<1> QED BY <1>1, <1>2, OneRunMoves

\* The conjuncts of CapInv that hold while runs do not overlap.
CapsHold == RunsAreInformed /\ BalancesCover /\ BalancesAreFresh /\ WithinCap

\* A step that leaves the runs and the balances alone keeps them.
LEMMA BalancesStay ==
    ASSUME TypeOK, year' \in Nat, year <= year', CapsHold, Dealing,
           UNCHANGED <<used, usedYear, matched, run>>
    PROVE  CapsHold'
<1> USE PayrollAssumption
<1>1. /\ \A e \in Employee : usedYear[e] \in Nat
      /\ \A r \in Run : run[r].at \in {"loop", "append", "commit"} => run[r].year \in Nat
      /\ year \in Nat
  BY DEF TypeOK, Dealing
<1>2. RunsAreInformed'
  BY <1>1 DEF CapsHold, RunsAreInformed, Busy
<1>3. BalancesCover'
  BY <1>1 DEF CapsHold, BalancesCover
<1>4. BalancesAreFresh' /\ WithinCap'
  BY DEF CapsHold, BalancesAreFresh, WithinCap
<1> QED BY <1>2, <1>3, <1>4 DEF CapsHold

\* A run that moves on with what it remembers keeps them.
LEMMA CapsStay ==
    ASSUME CapsHold, NEW r \in Busy, UNCHANGED <<year, used, usedYear, matched>>,
           \A q \in Run \ {r} : run'[q] = run[q],
           run'[r].year = run[r].year, run'[r].todo = run[r].todo,
           run'[r].cap = run[r].cap, run'[r].used = run[r].used,
           run'[r].at \in {"loop", "append", "commit"} => run[r].at \in {"loop", "append", "commit"}
    PROVE  CapsHold'
<1>1. RunsAreInformed'
  BY DEF CapsHold, RunsAreInformed, Busy
<1>2. BalancesAreFresh'
  BY DEF CapsHold, BalancesAreFresh, Busy
<1> QED BY <1>1, <1>2 DEF CapsHold, BalancesCover, WithinCap

\* A run that commits alone keeps them: it adds its match to a balance it read
\* and nobody has changed since (commitContribution).
LEMMA CommitKeepsCaps ==
    ASSUME IInv, CapsHold, \A q, r \in Busy : q = r, NEW r \in Run, Commit(r)
    PROVE  CapsHold'
<1> USE PayrollAssumption
<1> DEFINE e == NextOf(r)
           y == run[r].year
           next == [run[r] EXCEPT !.at = "loop", !.todo = run[r].todo \ {e}]
<1>t. TypeOK /\ Dealing /\ run[r] \in RunState
  BY DEF IInv, TypeOK
<1>1. run[r].at = "commit" /\ run[r].todo # {} /\ y \in Year /\ r \in Busy
  BY <1>t DEF Commit, Dealing, Busy
<1>2. /\ e \in Employee /\ e \in run[r].todo
      /\ Match(r) \in Nat /\ UsedSoFar(r) \in Nat /\ Booked(r) \in Nat
  BY <1>1, <1>t, NextIsListed, AmountsAreNatural
<1>3. /\ next.at = "loop" /\ next.cap = run[r].cap /\ next.year = run[r].year
      /\ next.used = run[r].used /\ next.todo = run[r].todo \ {e}
  BY <1>t DEF RunState
<1>4. /\ used' = [used EXCEPT ![e] = UsedSoFar(r) + Match(r)]
      /\ usedYear' = [usedYear EXCEPT ![e] = y]
      /\ matched' = [matched EXCEPT ![e] = [matched[e] EXCEPT ![y] = matched[e][y] + Booked(r)]]
      /\ run' = [run EXCEPT ![r] = next]
      /\ year' = year
  BY DEF Commit
<1>5. run[r].cap \in Caps /\ y <= year
  BY <1>1, <1>t DEF CapsHold, RunsAreInformed
<1>6. usedYear[e] <= y /\ UsedSoFar(r) = IF usedYear[e] = y THEN used[e] ELSE 0
  BY <1>1, <1>2 DEF CapsHold, BalancesAreFresh, UsedSoFar
<1> HIDE DEF next, e, y
<1>7. run'[r] = next /\ \A q \in Run \ {r} : run'[q] = run[q]
  BY <1>4, <1>t DEF TypeOK
<1>8. /\ used'[e] = UsedSoFar(r) + Match(r) /\ usedYear'[e] = y
      /\ matched'[e] = [matched[e] EXCEPT ![y] = matched[e][y] + Booked(r)]
      /\ \A o \in Employee \ {e} :
            used'[o] = used[o] /\ usedYear'[o] = usedYear[o] /\ matched'[o] = matched[o]
  BY <1>2, <1>4, <1>t DEF TypeOK
<1>9. /\ matched'[e][y] = matched[e][y] + Booked(r)
      /\ \A z \in Year \ {y} : matched'[e][z] = matched[e][z]
  BY <1>1, <1>2, <1>8, <1>t DEF TypeOK
<1>10. \A q \in Run \ {r} : run[q].at \in {"idle", "done", "failed"}
  BY <1>1 DEF Busy
<1>11. RunsAreInformed'
  <2>1. \A q \in Run : run'[q].at \notin {"idle", "done", "failed"} => q = r
    BY <1>7, <1>10
  <2> QED BY <2>1, <1>3, <1>4, <1>5, <1>7, <1>10 DEF RunsAreInformed, Busy, y
<1>12. BalancesAreFresh'
  <2>1. ASSUME NEW o \in run[r].todo \ {e}
        PROVE  /\ usedYear'[o] <= run[r].year
               /\ run[r].used[o] = IF usedYear'[o] = run[r].year THEN used'[o] ELSE 0
    <3>1. o \in Employee \ {e}
      BY <1>t DEF RunState
    <3> QED BY <1>1, <1>8, <3>1 DEF CapsHold, BalancesAreFresh
  <2> QED BY <2>1, <1>3, <1>7, <1>10 DEF BalancesAreFresh
\* What is matched fits what is used, and what is used fits the cap.
<1>13. /\ Booked(r) <= Match(r)
       /\ UsedSoFar(r) < run[r].cap => UsedSoFar(r) + Match(r) <= run[r].cap
       /\ UsedSoFar(r) >= run[r].cap => Match(r) = 0
  <2>1. run[r].cap \in Nat /\ run[r].gift \in Nat /\ run[r].raised \in Nat
    BY <1>t DEF RunState
  <2>2. Gap(r) \in Nat
    BY <2>1 DEF Gap
  <2>3. Booked(r) <= Match(r)
    BY <2>2, <1>2 DEF Booked
  <2> QED BY <2>1, <2>3, <1>2 DEF Match, Remaining
<1>14. \E cap \in Caps \cup {0} : used'[e] <= cap
  <2>1. CASE UsedSoFar(r) < run[r].cap
    BY <2>1, <1>5, <1>8, <1>13
  <2>2. CASE UsedSoFar(r) >= run[r].cap /\ usedYear[e] = y
    <3>1. used'[e] = used[e]
      BY <2>2, <1>2, <1>6, <1>8, <1>13
    <3> QED BY <3>1, <1>2 DEF CapsHold, BalancesCover
  <2>3. CASE UsedSoFar(r) >= run[r].cap /\ usedYear[e] # y
    BY <2>3, <1>6, <1>8, <1>13
  <2>4. run[r].cap \in Nat
    BY <1>t DEF RunState
  <2> QED BY <2>1, <2>2, <2>3, <2>4, <1>2
<1>15. used[e] \in Nat /\ matched[e] \in [Year -> Nat]
  BY <1>2, <1>t DEF TypeOK
<1>16. matched'[e][y] <= used'[e]
  <2>1. matched[e][y] \in Nat /\ used[e] \in Nat
    BY <1>1, <1>2, <1>15 DEF TypeOK
  <2>2. matched[e][y] <= UsedSoFar(r)
    <3>1. usedYear[e] \in Nat /\ y \in Nat
      BY <1>1, <1>2, <1>t DEF TypeOK
    <3>2. CASE usedYear[e] = y
      BY <3>2, <1>1, <1>2, <1>6 DEF CapsHold, BalancesCover
    <3>3. CASE usedYear[e] # y
      BY <3>1, <3>3, <1>1, <1>2, <1>6 DEF CapsHold, BalancesCover
    <3> QED BY <3>2, <3>3
  <2> QED BY <2>1, <2>2, <1>2, <1>8, <1>9, <1>13
<1>17. BalancesCover'
  <2>1. ASSUME NEW o \in Employee
        PROVE  usedYear'[o] <= year' /\ \E cap \in Caps \cup {0} : used'[o] <= cap
    <3>1. CASE o = e
      BY <3>1, <1>4, <1>5, <1>8, <1>14
    <3>2. CASE o # e
      BY <3>2, <1>4, <1>8 DEF CapsHold, BalancesCover
    <3> QED BY <3>1, <3>2
  <2>2. ASSUME NEW o \in Employee, NEW z \in Year
        PROVE  /\ z > usedYear'[o] => matched'[o][z] = 0
               /\ z = usedYear'[o] => matched'[o][z] <= used'[o]
    <3>1. CASE o = e
      <4>1. usedYear[e] \in Nat /\ y \in Nat /\ z \in Nat
        BY <1>1, <1>2, <1>t DEF TypeOK
      <4>2. CASE z > y
        <5>1. z > usedYear[e] => matched[e][z] = 0
          BY <1>2 DEF CapsHold, BalancesCover
        <5>2. z > usedYear[e]
          BY <4>1, <4>2, <1>6
        <5> QED BY <3>1, <4>1, <4>2, <5>1, <5>2, <1>8, <1>9
      <4>3. CASE z <= y
        BY <3>1, <4>1, <4>3, <1>8, <1>16
      <4> QED BY <4>1, <4>2, <4>3
    <3>2. CASE o # e
      BY <3>2, <1>8 DEF CapsHold, BalancesCover
    <3> QED BY <3>1, <3>2
  <2> QED BY <2>1, <2>2 DEF BalancesCover
<1>18. WithinCap'
  <2>1. ASSUME NEW o \in Employee, NEW z \in Year
        PROVE  \E cap \in Caps \cup {0} : matched'[o][z] <= cap
    <3>1. CASE o = e /\ z = y
      <4>1. PICK cap \in Caps \cup {0} : used'[e] <= cap
        BY <1>14
      <4>2. cap \in Nat /\ used'[e] \in Nat /\ matched'[e][y] \in Nat
        <5>1. matched[e][y] \in Nat
          BY <1>1, <1>15
        <5> QED BY <5>1, <1>2, <1>8, <1>9
      <4> QED BY <3>1, <4>1, <4>2, <1>16
    <3>2. CASE o # e \/ z # y
      BY <3>2, <1>8, <1>9 DEF CapsHold, WithinCap
    <3> QED BY <3>1, <3>2
  <2> QED BY <2>1 DEF WithinCap
<1> QED BY <1>11, <1>12, <1>17, <1>18 DEF CapsHold

\* A run that starts knows a cap; one that reads the employees knows their balances.
LEMMA StartKeepsCaps ==
    ASSUME TypeOK, CapsHold, NEW r \in Run, NEW gift \in Gift, RunCampaign(r, gift)
    PROVE  CapsHold'
<1> DEFINE next(cap) == [at |-> "employees", gift |-> gift, cap |-> cap, raised |-> raised,
                         status |-> status, year |-> 0, todo |-> {}, used |-> [e \in Employee |-> 0]]
<1>1. PICK cap \in rule : run' = [run EXCEPT ![r] = next(cap)]
  BY DEF RunCampaign, Idle
<1>2. next(cap).at = "employees" /\ next(cap).cap = cap /\ cap \in Caps
  BY DEF TypeOK
<1> HIDE DEF next
<1>3. run'[r] = next(cap) /\ \A q \in Run \ {r} : run'[q] = run[q]
  BY <1>1 DEF TypeOK
<1>4. UNCHANGED <<year, used, usedYear, matched>>
  BY DEF RunCampaign, Program, Books
<1>5. RunsAreInformed' /\ BalancesAreFresh'
  BY <1>2, <1>3, <1>4 DEF CapsHold, RunsAreInformed, BalancesAreFresh, Busy
<1> QED BY <1>4, <1>5 DEF CapsHold, BalancesCover, WithinCap

LEMMA ReadKeepsCaps ==
    ASSUME TypeOK, CapsHold, NEW r \in Run, ReadEmployees(r)
    PROVE  CapsHold'
<1> DEFINE read == [e \in Employee |-> IF usedYear[e] = year THEN used[e] ELSE 0]
           next == [run[r] EXCEPT !.at = IF active = {} THEN "done" ELSE "loop",
                                  !.year = year, !.todo = active, !.used = read]
<1>1. run' = [run EXCEPT ![r] = next] /\ run[r].at = "employees"
  BY DEF ReadEmployees
<1>2. run[r] \in RunState /\ active \subseteq Employee
  BY DEF TypeOK
<1>3. \A e \in Employee : read[e] = IF usedYear[e] = year THEN used[e] ELSE 0
  OBVIOUS
<1> HIDE DEF read
<1>4. /\ next.cap = run[r].cap /\ next.year = year /\ next.todo = active /\ next.used = read
      /\ next.at \in {"done", "loop"}
  BY <1>2 DEF RunState
<1> HIDE DEF next
<1>5. run'[r] = next /\ \A q \in Run \ {r} : run'[q] = run[q]
  BY <1>1 DEF TypeOK
<1>6. UNCHANGED <<year, used, usedYear, matched>>
  BY DEF ReadEmployees, Program, Books
<1>7. year \in Nat /\ \A e \in Employee : usedYear[e] \in Nat /\ usedYear[e] <= year
  BY PayrollAssumption DEF TypeOK, CapsHold, BalancesCover
<1>8. RunsAreInformed'
  BY <1>1, <1>4, <1>5, <1>6, <1>7 DEF CapsHold, RunsAreInformed, Busy
<1>9. BalancesAreFresh'
  <2>1. ASSUME NEW e \in active
        PROVE  usedYear[e] <= year /\ read[e] = IF usedYear[e] = year THEN used[e] ELSE 0
    BY <1>2, <1>3, <1>7
  <2>2. ASSUME NEW q \in Run, run'[q].at \in {"loop", "append", "commit"}, NEW e \in run'[q].todo
        PROVE  /\ usedYear'[e] <= run'[q].year
               /\ run'[q].used[e] = IF usedYear'[e] = run'[q].year THEN used'[e] ELSE 0
    <3>1. CASE q = r
      BY <3>1, <2>1, <2>2, <1>4, <1>5, <1>6
    <3>2. CASE q # r
      BY <3>2, <2>2, <1>5, <1>6 DEF CapsHold, BalancesAreFresh
    <3> QED BY <3>1, <3>2
  <2> QED BY <2>2 DEF BalancesAreFresh
<1> QED BY <1>6, <1>8, <1>9 DEF CapsHold, BalancesCover, WithinCap

LEMMA NextKeepsCaps ==
    ASSUME IInv, CapsHold, \A q, r \in Busy : q = r, Next
    PROVE  CapsHold'
<1> USE PayrollAssumption DEF Program, Campaign, Books
<1>t. TypeOK /\ Dealing
  BY DEF IInv
<1>1. CASE (\E cap \in Caps : ConfigureRule(cap)) \/ (\E e \in Employee : ActivateEmployee(e))
           \/ NewYear \/ Verify \/ (\E amount \in Others : OthersGive(amount)) \/ Disburse
  <2>1. year \in Nat /\ year' \in Nat /\ year <= year' /\ UNCHANGED <<used, usedYear, matched, run>>
    BY <1>1, <1>t DEF ConfigureRule, ActivateEmployee, NewYear, Verify, OthersGive, Disburse, TypeOK
  <2> QED BY <2>1, <1>t, BalancesStay
<1>2. ASSUME NEW r \in Run, NEW gift \in Gift, RunCampaign(r, gift) PROVE CapsHold'
  BY <1>2, <1>t, StartKeepsCaps
<1>3. ASSUME NEW r \in Run, Proceed(r) \/ Fail(r) PROVE CapsHold'
  <2>1. CASE ReadEmployees(r)
    BY <2>1, <1>t, ReadKeepsCaps
  <2>2. CASE Commit(r)
    BY <2>2, CommitKeepsCaps
  <2>3. CASE Begin(r) \/ Append(r) \/ Finish(r) \/ Fail(r)
    <3>1. PICK at \in {"append", "commit", "done", "failed"} : run' = [run EXCEPT ![r].at = at]
      BY <2>3 DEF Begin, Append, Finish, Fail
    <3>2. run[r].at \in {"loop", "append", "commit"} /\ UNCHANGED <<year, used, usedYear, matched>>
      BY <2>3 DEF Begin, Append, Finish, Fail
    <3>3. r \in Busy
      BY <3>2 DEF Busy
    <3> QED BY <3>1, <3>2, <3>3, <1>t, RunMovesOn, CapsStay
  <2> QED BY <1>3, <2>1, <2>2, <2>3 DEF Proceed
<1> QED BY <1>1, <1>2, <1>3 DEF Next

LEMMA CapInit == MCInit => IInv /\ CapInv
<1> SUFFICES ASSUME MCInit PROVE IInv /\ CapInv
  OBVIOUS
<1>1. IInv
  BY InitInvariant DEF MCInit
<1>2. Busy = {} /\ IsFiniteSet(Busy)
  BY FS_EmptySet DEF MCInit, Init, Idle, Busy
<1>3. RunsAreInformed /\ BalancesAreFresh
  BY <1>2 DEF MCInit, Init, Idle, RunsAreInformed, BalancesAreFresh
<1>4. BalancesCover /\ WithinCap
  BY DEF MCInit, Init, BalancesCover, WithinCap
<1> QED BY <1>1, <1>2, <1>3, <1>4 DEF CapInv

LEMMA CapStep == IInv /\ CapInv /\ [MCNext]_<<vars, alone>> => IInv' /\ CapInv'
<1> SUFFICES ASSUME IInv, CapInv, [MCNext]_<<vars, alone>> PROVE IInv' /\ CapInv'
  OBVIOUS
<1>1. IInv'
  BY StepInvariant DEF MCNext
<1>2. CASE MCNext
  <2>1. Next /\ IsFiniteSet(Busy')
    BY <1>2, BusyStaysFinite DEF MCNext, IInv, CapInv
  <2>2. ASSUME alone'
        PROVE  (\A q, r \in Busy' : q = r) /\ CapsHold'
    <3>1. alone /\ Cardinality(Busy') <= 1
      BY <1>2, <2>2 DEF MCNext, Busy
    <3>2. \A q, r \in Busy' : q = r
      BY <2>1, <3>1, OneAtMost
    <3>3. CapsHold /\ \A q, r \in Busy : q = r
      BY <3>1 DEF CapInv, CapsHold
    <3> QED BY <2>1, <3>2, <3>3, NextKeepsCaps
  <2> QED BY <1>1, <2>1, <2>2 DEF CapInv, CapsHold
<1>3. CASE UNCHANGED <<vars, alone>>
  BY <1>1, <1>3 DEF vars, CapInv, Busy, RunsAreInformed, BalancesCover, BalancesAreFresh, WithinCap
<1> QED BY <1>2, <1>3

\* FR-5: runs of a program that do not overlap match no employee beyond the
\* cap in a year, also after a new year, a new rule and runs that failed
\* half-way (applyPayrollMatchRule, commitContribution).
THEOREM MatchesFitTheCap == MCSpec => []WithinCapAlone
<1>1. CapInv => WithinCapAlone
  BY DEF CapInv, WithinCapAlone
<1> QED BY <1>1, CapInit, CapStep, PTL DEF MCSpec
=============================================================================
