---------------------------- MODULE RecurringProofs ----------------------------
(***************************************************************************)
(* Proofs about Recurring, for any number of pledges and overlapping runs, *)
(* any amounts, and with runs that die.                                    *)
(*                                                                         *)
(* A run works with counts it read when it started.  The invariant says    *)
(* what such a snapshot still means: it names pledges that exist, it was   *)
(* taken in the past, and its counts are at most the donations stored by   *)
(* now, because donations are only added.                                  *)
(*                                                                         *)
(* As long as runs neither overlap nor die, every charge has its donation  *)
(* and none is made twice: both are counts over the same rows.             *)
(***************************************************************************)
EXTENDS MCRecurringWizard, Sums

Working(r) == run[r].at \in {"cancel", "charge", "apply", "dead"}

SnapshotsFit ==
    \A r \in Run :
        /\ run[r].at # "idle" =>
              /\ Listed(r) \subseteq Created
              /\ run[r].now <= time
              /\ \A p \in Pledge : run[r].todo[p] <= donations[p]
        /\ Working(r) => run[r].cur \in Listed(r)

IInv == TypeOK /\ SnapshotsFit /\ CountNeverOverstates /\ NeverSkipsAMonth

USE DEF Created

\* What each kind of run state holds.
LEMMA RunKinds ==
    ASSUME NEW s \in RunState
    PROVE  /\ s.at # "idle" => s.todo \in Todo /\ s.now \in Nat
           /\ s.at \in {"cancel", "charge", "apply", "dead"} =>
                 s.cur \in Pledge /\ s.seen \in 0 .. Goal
  BY DEF RunState, Idle

\* The state a run is in after Continue.
LEMMA ContinueFits ==
    ASSUME TypeOK, SnapshotsFit, NEW r \in Run, Working(r), Continue(r)
    PROVE  /\ run' \in [Run -> RunState]
           /\ \A i \in Run \ {r} : run'[i] = run[i]
           /\ run'[r].at = "loop" /\ run'[r].now = run[r].now
           /\ \A q \in Pledge : run'[r].todo[q] \in {run[r].todo[q], NotListed}
<1> DEFINE left == [run[r].todo EXCEPT ![run[r].cur] = NotListed]
<1>1. run[r] \in RunState /\ run[r].at # "idle"
  BY DEF TypeOK, Working
<1>2. run[r].todo \in Todo /\ run[r].now \in Nat
  BY <1>1, RunKinds
<1>3. left \in Todo /\ \A q \in Pledge : left[q] \in {run[r].todo[q], NotListed}
  BY <1>2 DEF Todo
<1>4. run' = [run EXCEPT ![r] = Looping(left, run[r].now)]
  BY DEF Continue
<1> HIDE DEF left
<1>5. Looping(left, run[r].now) \in RunState
  BY <1>2, <1>3 DEF Looping, RunState
<1> QED BY <1>3, <1>4, <1>5 DEF Looping, TypeOK

\* The mark of a pledge that is not listed counts nothing.
LEMMA NotListedIsLeast ==
    ASSUME TypeOK
    PROVE  \A q \in Pledge : NotListed <= donations[q]
  BY DEF TypeOK, NotListed

LEMMA InitInvariant == Init => IInv
<1> SUFFICES ASSUME Init PROVE IInv
  OBVIOUS
<1>1. TypeOK
  BY RecurringAssumption DEF Init, TypeOK, RunState
<1>2. SnapshotsFit
  BY DEF Init, SnapshotsFit, Idle, Working
<1> QED BY <1>1, <1>2 DEF IInv, Init, CountNeverOverstates, NeverSkipsAMonth

LEMMA StepInvariant == IInv /\ [Next]_vars => IInv'
<1> SUFFICES ASSUME IInv, [Next]_vars PROVE IInv'
  OBVIOUS
<1> USE RecurringAssumption
<1>t. TypeOK /\ SnapshotsFit /\ CountNeverOverstates /\ NeverSkipsAMonth
  BY DEF IInv
<1>1. ASSUME NEW p \in Pledge, Create(p) PROVE IInv'
  <2> DEFINE new == [status |-> "ACTIVE", charges |-> 0, next |-> time, created |-> time]
  <2>1. new \in Row
    BY <1>t DEF Row, Status, TypeOK
  <2>2. pledge' = [q \in Created \cup {p} |-> IF q = p THEN new ELSE pledge[q]]
    BY <1>1 DEF Create
  <2>3. Created' = Created \cup {p} /\ pledge' \in [Created' -> Row]
    BY <2>1, <2>2, <1>t DEF TypeOK
  <2>4. TypeOK'
    BY <1>1, <1>t, <2>3 DEF Create, TypeOK
  <2>5. SnapshotsFit'
    BY <1>1, <1>t, <2>3 DEF Create, SnapshotsFit, Working, Listed
  <2>6. CountNeverOverstates' /\ NeverSkipsAMonth'
    BY <1>1, <1>t, <2>2, <2>3 DEF Create, CountNeverOverstates, NeverSkipsAMonth, TypeOK
  <2> QED BY <2>4, <2>5, <2>6 DEF IInv
<1>2. ASSUME NEW p \in Pledge, NEW status \in Status, SetStatus(p, status) PROVE IInv'
  <2>1. pledge' \in [Created -> Row] /\ Created' = Created
    BY <1>2, <1>t DEF SetStatus, TypeOK, Row
  <2>2. \A q \in Created : pledge'[q].charges = pledge[q].charges /\ pledge'[q].next = pledge[q].next
    BY <1>2, <1>t DEF SetStatus, TypeOK, Row
  <2>3. TypeOK'
    BY <1>2, <1>t, <2>1 DEF SetStatus, TypeOK
  <2>4. SnapshotsFit'
    BY <1>2, <1>t, <2>1 DEF SetStatus, SnapshotsFit, Working, Listed
  <2>5. CountNeverOverstates' /\ NeverSkipsAMonth'
    BY <1>2, <1>t, <2>1, <2>2 DEF SetStatus, CountNeverOverstates, NeverSkipsAMonth
  <2> QED BY <2>3, <2>4, <2>5 DEF IInv
<1>3. CASE Tick
  <2>1. TypeOK'
    BY <1>3, <1>t DEF Tick, TypeOK
  <2>2. SnapshotsFit'
    <3>1. \A r \in Run : run[r].at # "idle" => run[r].now \in Nat
      BY <1>t, RunKinds DEF TypeOK
    <3> QED BY <1>3, <1>t, <3>1 DEF Tick, SnapshotsFit, Working, Listed, TypeOK
  <2>3. CountNeverOverstates' /\ NeverSkipsAMonth'
    BY <1>3, <1>t DEF Tick, CountNeverOverstates, NeverSkipsAMonth, TypeOK, Row
  <2> QED BY <2>1, <2>2, <2>3 DEF IInv
<1>4. CASE CampaignCloses
  BY <1>4, <1>t DEF CampaignCloses, IInv, TypeOK, SnapshotsFit, Working, Listed, CountNeverOverstates,
                    NeverSkipsAMonth
<1>5. ASSUME NEW r \in Run, RunDue(r) PROVE IInv'
  <2> DEFINE due == [p \in Pledge |-> IF p \in DuePledges THEN pledge[p].charges ELSE NotListed]
  <2>1. DuePledges \subseteq Created /\ \A p \in Created : pledge[p].charges \in Nat
    BY <1>t DEF DuePledges, TypeOK, Row
  <2>2. due \in Todo
    BY <2>1 DEF Todo
  <2>3. \A p \in Pledge : due[p] <= donations[p] /\ (due[p] # NotListed => p \in Created)
    BY <1>t, <2>1 DEF CountNeverOverstates, NotListed, TypeOK
  <2>4. run' = [run EXCEPT ![r] = Looping(due, time)]
    BY <1>5 DEF RunDue
  <2> HIDE DEF due
  <2>5. Looping(due, time) \in RunState
    BY <1>t, <2>2 DEF Looping, RunState, TypeOK
  <2>6. TypeOK'
    BY <1>5, <1>t, <2>4, <2>5 DEF RunDue, TypeOK
  <2>7. SnapshotsFit'
    BY <1>5, <1>t, <2>3, <2>4 DEF RunDue, SnapshotsFit, Working, Looping, TypeOK, Listed
  <2> QED BY <1>5, <1>t, <2>6, <2>7 DEF RunDue, IInv, CountNeverOverstates, NeverSkipsAMonth
<1>6. ASSUME NEW r \in Run, NEW p \in Pledge, ReadCampaign(r, p) PROVE IInv'
  <2> DEFINE next == [at |-> IF open /\ raised < Goal THEN "charge" ELSE "cancel",
                      todo |-> run[r].todo, now |-> run[r].now, cur |-> p, seen |-> raised]
  <2>1. run[r].todo \in Todo /\ run[r].now \in Nat /\ run[r].at = "loop"
    BY <1>6, <1>t, RunKinds DEF ReadCampaign, TypeOK
  <2>2. next \in RunState
    BY <1>t, <2>1 DEF RunState, TypeOK
  <2>3. /\ next.todo = run[r].todo /\ next.now = run[r].now
        /\ next.cur \in Listed(r) /\ run' = [run EXCEPT ![r] = next]
    BY <1>6 DEF ReadCampaign
  <2> HIDE DEF next
  <2>4. TypeOK'
    BY <1>6, <1>t, <2>2, <2>3 DEF ReadCampaign, TypeOK
  <2>5. SnapshotsFit'
    BY <1>6, <1>t, <2>1, <2>3 DEF ReadCampaign, SnapshotsFit, Working, Listed, TypeOK
  <2> QED BY <1>6, <1>t, <2>4, <2>5 DEF ReadCampaign, IInv, CountNeverOverstates, NeverSkipsAMonth
<1>7. ASSUME NEW r \in Run, Answer(r) PROVE IInv'
  BY <1>7, <1>t DEF Answer, IInv, TypeOK, RunState, SnapshotsFit, Working, Listed, CountNeverOverstates,
                    NeverSkipsAMonth, Idle
<1>8. ASSUME NEW r \in Run, CancelPledge(r) PROVE IInv'
  <2>1. pledge' \in [Created -> Row] /\ Created' = Created
    BY <1>8, <1>t DEF CancelPledge, TypeOK, Row, Status
  <2>2. \A q \in Created : pledge'[q].charges = pledge[q].charges /\ pledge'[q].next = pledge[q].next
    BY <1>8, <1>t DEF CancelPledge, TypeOK, Row
  <2>3. Working(r) /\ Continue(r)
    BY <1>8 DEF CancelPledge, Working
  <2>4. TypeOK'
    BY <1>8, <1>t, <2>1, <2>3, ContinueFits DEF CancelPledge, TypeOK
  <2>5. SnapshotsFit'
    BY <1>8, <1>t, <2>1, <2>3, ContinueFits, NotListedIsLeast DEF CancelPledge, SnapshotsFit, Working, Listed
  <2>6. CountNeverOverstates' /\ NeverSkipsAMonth'
    BY <1>8, <1>t, <2>1, <2>2 DEF CancelPledge, CountNeverOverstates, NeverSkipsAMonth
  <2> QED BY <2>4, <2>5, <2>6 DEF IInv
<1>9. ASSUME NEW r \in Run, Charge(r) PROVE IInv'
  <2>1. Working(r) /\ run[r] \in RunState
    BY <1>9, <1>t DEF Charge, Working, TypeOK
  <2>2. run[r].cur \in Pledge /\ charged' \in [Pledge -> Nat]
    BY <1>9, <1>t, <2>1, RunKinds DEF Charge, TypeOK, Working
  <2>3. CASE run' = [run EXCEPT ![r].at = "apply"]
    <3>1. /\ run' \in [Run -> RunState]
          /\ \A i \in Run \ {r} : run'[i] = run[i]
          /\ run'[r].todo = run[r].todo /\ run'[r].now = run[r].now /\ run'[r].cur = run[r].cur
      <4>1. /\ run[r] = [at |-> run[r].at, todo |-> run[r].todo, now |-> run[r].now,
                         cur |-> run[r].cur, seen |-> run[r].seen]
            /\ run[r].todo \in Todo /\ run[r].now \in Nat /\ run[r].cur \in Pledge
            /\ run[r].seen \in 0 .. Goal
        BY <1>9, <2>1 DEF Charge, RunState, Idle
      <4> DEFINE next == [at |-> "apply", todo |-> run[r].todo, now |-> run[r].now,
                          cur |-> run[r].cur, seen |-> run[r].seen]
      <4>2. next \in RunState
        BY <4>1 DEF RunState
      <4>3. [run[r] EXCEPT !.at = "apply"] = next
        BY <4>1
      <4>4. run' = [run EXCEPT ![r] = next]
        BY <2>3, <4>3, <1>t DEF TypeOK
      <4> QED BY <4>2, <4>4, <1>t DEF TypeOK
    <3>2. TypeOK'
      BY <1>9, <1>t, <2>2, <3>1 DEF Charge, TypeOK
    <3>3. SnapshotsFit'
      BY <1>9, <1>t, <2>1, <3>1 DEF Charge, SnapshotsFit, Working, Listed
    <3> QED BY <1>9, <1>t, <3>2, <3>3 DEF Charge, IInv, CountNeverOverstates, NeverSkipsAMonth
  <2>4. CASE Continue(r)
    <3>1. TypeOK'
      BY <1>9, <1>t, <2>1, <2>2, <2>4, ContinueFits DEF Charge, TypeOK
    <3>2. SnapshotsFit'
      BY <1>9, <1>t, <2>1, <2>4, ContinueFits, NotListedIsLeast DEF Charge, SnapshotsFit, Working, Listed
    <3> QED BY <1>9, <1>t, <3>1, <3>2 DEF Charge, IInv, CountNeverOverstates, NeverSkipsAMonth
  <2> QED BY <1>9, <2>3, <2>4 DEF Charge
<1>10. ASSUME NEW r \in Run, ApplyCharge(r) PROVE IInv'
  <2> DEFINE p == run[r].cur
             row == [status |-> pledge[p].status, created |-> pledge[p].created,
                     charges |-> NextCount(run[r].todo[p]), next |-> NextRun(run[r].now)]
             total == run[r].seen + ToGoal(run[r].seen)
  <2>1. Working(r) /\ Continue(r) /\ run[r] \in RunState
    BY <1>10, <1>t DEF ApplyCharge, Working, TypeOK
  <2>2. /\ p \in Listed(r) /\ p \in Created /\ run[r].todo \in Todo
        /\ run[r].now \in Nat /\ run[r].now <= time /\ run[r].seen \in 0 .. Goal
        /\ run[r].todo[p] <= donations[p]
    BY <1>10, <1>t, <2>1, RunKinds DEF ApplyCharge, SnapshotsFit, Working, Listed
  <2>3. run[r].todo[p] \in Nat
    BY <2>2 DEF Todo, Listed
  <2>4. /\ pledge' = [pledge EXCEPT ![p] = row]
        /\ donations' = [donations EXCEPT ![p] = donations[p] + 1]
        /\ raised' = total /\ open' \in BOOLEAN
    BY <1>10, <1>t DEF ApplyCharge, TypeOK
  <2>5. total \in 0 .. Goal
    BY <2>2 DEF ToGoal
  <2>6. row \in Row
    BY <1>t, <2>2, <2>3 DEF Row, NextCount, NextRun, TypeOK
  <2>7. /\ row.charges <= donations[p] + 1
        /\ row.next <= time + 1
    BY <1>t, <2>2, <2>3 DEF NextCount, NextRun, TypeOK
  <2>8. donations[p] \in Nat /\ p \in Pledge
    BY <1>t, <2>2 DEF TypeOK
  <2> HIDE DEF p, row, total
  <2>9. TypeOK'
    BY <1>10, <1>t, <2>1, <2>2, <2>4, <2>5, <2>6, <2>8, ContinueFits DEF ApplyCharge, TypeOK
  <2>10. \A q \in Pledge : donations[q] <= donations'[q]
    BY <1>t, <2>4, <2>8 DEF TypeOK
  <2>11. SnapshotsFit'
    <3>1. \A i \in Run : run[i].at # "idle" => run[i].todo \in Todo
      BY <1>t, RunKinds DEF TypeOK
    <3>2. \A i \in Run : run[i].at # "idle" =>
             \A q \in Pledge : run[i].todo[q] <= donations'[q]
      BY <1>t, <2>9, <2>10, <3>1 DEF SnapshotsFit, TypeOK, Todo, NotListed
    <3>3. \A q \in Pledge : NotListed <= donations'[q]
      BY <2>9 DEF TypeOK, NotListed
    <3>4. Created' = Created /\ time' = time
      BY <1>10, <1>t, <2>4 DEF ApplyCharge, TypeOK
    <3> QED BY <1>10, <1>t, <2>1, <3>2, <3>3, <3>4, ContinueFits DEF SnapshotsFit, Working, Listed
  <2>12. CountNeverOverstates' /\ NeverSkipsAMonth'
    BY <1>10, <1>t, <2>2, <2>4, <2>7, <2>8 DEF ApplyCharge, CountNeverOverstates,
                                               NeverSkipsAMonth, TypeOK
  <2> QED BY <2>9, <2>11, <2>12 DEF IInv
<1>11. ASSUME NEW r \in Run, Stop(r) PROVE IInv'
  <2>1. run[r] \in RunState /\ Working(r)
    BY <1>11, <1>t DEF Stop, TypeOK, Working
  <2>2. /\ run[r] = [at |-> run[r].at, todo |-> run[r].todo, now |-> run[r].now,
                     cur |-> run[r].cur, seen |-> run[r].seen]
        /\ run[r].todo \in Todo /\ run[r].now \in Nat /\ run[r].cur \in Pledge
        /\ run[r].seen \in 0 .. Goal
    BY <1>11, <2>1 DEF Stop, RunState, Idle
  <2> DEFINE next == [at |-> "dead", todo |-> run[r].todo, now |-> run[r].now,
                      cur |-> run[r].cur, seen |-> run[r].seen]
  <2>3. next \in RunState
    BY <2>2 DEF RunState
  <2>4. [run[r] EXCEPT !.at = "dead"] = next
    BY <2>2
  <2>5. run' = [run EXCEPT ![r] = next]
    BY <1>11, <2>4, <1>t DEF Stop, TypeOK
  <2>6. /\ run' \in [Run -> RunState]
        /\ \A i \in Run \ {r} : run'[i] = run[i]
        /\ run'[r].todo = run[r].todo /\ run'[r].now = run[r].now /\ run'[r].cur = run[r].cur
        /\ run'[r].at = "dead"
    BY <2>3, <2>5, <1>t DEF TypeOK
  <2> HIDE DEF next
  <2>7. TypeOK'
    <3>1. stops' \in 0 .. MaxStops
      BY <1>11, <1>t, RecurringAssumption DEF Stop, TypeOK
    <3> QED BY <1>11, <1>t, <2>6, <3>1 DEF Stop, TypeOK
  <2>8. SnapshotsFit'
    BY <1>11, <1>t, <2>1, <2>6 DEF Stop, SnapshotsFit, Working, Listed
  <2> QED BY <1>11, <1>t, <2>7, <2>8 DEF Stop, IInv, CountNeverOverstates, NeverSkipsAMonth
<1>12. CASE UNCHANGED vars
  BY <1>12, <1>t DEF vars, IInv, TypeOK, SnapshotsFit, Working, Listed, CountNeverOverstates,
                     NeverSkipsAMonth
<1> QED BY <1>1, <1>2, <1>3, <1>4, <1>5, <1>6, <1>7, <1>8, <1>9, <1>10, <1>11, <1>12
        DEF Next, Proceed

\* The inductive invariant of the recurring pledges.
THEOREM RecurringInvariant == Spec => []IInv
  BY InitInvariant, StepInvariant, PTL DEF Spec

\* Pledges, runs and what they remember keep their types, and the campaign is
\* never raised beyond its goal by them (splitContribution).
THEOREM RecurringTypes == Spec => []TypeOK
<1>1. IInv => TypeOK
  BY DEF IInv
<1> QED BY <1>1, RecurringInvariant, PTL

\* chargesCount never counts a charge that is no donation, however many runs
\* overlap or die (applyCharge).
THEOREM CountNeverEverOverstates == Spec => []CountNeverOverstates
<1>1. IInv => CountNeverOverstates
  BY DEF IInv
<1> QED BY <1>1, RecurringInvariant, PTL

\* A pledge is due again within a month, whatever the runs do (addMonth).
THEOREM ScheduleNeverSkips == Spec => []NeverSkipsAMonth
<1>1. IInv => NeverSkipsAMonth
  BY DEF IInv
<1> QED BY <1>1, RecurringInvariant, PTL
-----------------------------------------------------------------------------
(* Every charge is a donation, or its run is about to store it or died.    *)

Before(p) == {r \in Run : run[r].at = "apply" /\ run[r].cur = p}
Died(p) == {r \in Run : run[r].at = "dead" /\ run[r].cur = p}

AccountsInv ==
    \A p \in Pledge :
        /\ IsFiniteSet(Before(p)) /\ IsFiniteSet(Died(p))
        /\ donations[p] + Cardinality(Before(p)) <= charged[p]
        /\ charged[p] <= donations[p] + Cardinality(Before(p)) + Cardinality(Died(p))

\* A step that moves no run into or out of the states in which a charge waits,
\* and charges and stores nothing, keeps the accounts.
LEMMA AccountsStay ==
    ASSUME AccountsInv, UNCHANGED <<charged, donations>>,
           \A r \in Run : \/ run'[r] = run[r]
                          \/ run[r].at \notin {"apply", "dead"} /\ run'[r].at \notin {"apply", "dead"}
    PROVE  AccountsInv'
<1>1. \A p \in Pledge : Before(p)' = Before(p) /\ Died(p)' = Died(p)
  BY DEF Before, Died
<1> QED BY <1>1 DEF AccountsInv

\* The card is charged: one more charge, and one more run that will store it (chargeOne).
LEMMA ChargeKeepsAccounts ==
    ASSUME TypeOK, AccountsInv, NEW r \in Run, Charge(r), run' = [run EXCEPT ![r].at = "apply"],
           charged' = [charged EXCEPT ![run[r].cur] = @ + 1]
    PROVE  AccountsInv'
<1>1. run[r] \in RunState /\ run[r].at = "charge" /\ donations' = donations
  BY DEF TypeOK, Charge
<1>2. PICK p \in Pledge : p = run[r].cur
  BY <1>1, RunKinds
<1>r. run[r] = [at |-> run[r].at, todo |-> run[r].todo, now |-> run[r].now,
              cur |-> run[r].cur, seen |-> run[r].seen]
  BY <1>1 DEF RunState, Idle
<1>3. [run[r] EXCEPT !.at = "apply"].at = "apply" /\ [run[r] EXCEPT !.at = "apply"].cur = p
  BY <1>2, <1>r
<1>4. run'[r].at = "apply" /\ run'[r].cur = p /\ \A q \in Run \ {r} : run'[q] = run[q]
  BY <1>3 DEF TypeOK
<1>5. /\ Before(p)' = Before(p) \cup {r} /\ r \notin Before(p)
      /\ \A q \in Pledge \ {p} : Before(q)' = Before(q)
      /\ \A q \in Pledge : Died(q)' = Died(q)
  BY <1>1, <1>2, <1>4 DEF Before, Died
<1>6. charged'[p] = charged[p] + 1 /\ \A q \in Pledge \ {p} : charged'[q] = charged[q]
  BY <1>2 DEF TypeOK
<1>7. IsFiniteSet(Before(p)') /\ Cardinality(Before(p)') = Cardinality(Before(p)) + 1
  BY <1>2, <1>5, FS_AddElement DEF AccountsInv
<1>8. /\ Cardinality(Before(p)) \in Nat /\ Cardinality(Died(p)) \in Nat
      /\ charged[p] \in Nat /\ donations[p] \in Nat
  BY <1>2, FS_CardinalityType DEF AccountsInv, TypeOK
<1>9. /\ donations'[p] + Cardinality(Before(p)') <= charged'[p]
      /\ charged'[p] <= donations'[p] + Cardinality(Before(p)') + Cardinality(Died(p)')
  BY <1>1, <1>2, <1>5, <1>6, <1>7, <1>8 DEF AccountsInv
<1> QED BY <1>1, <1>2, <1>5, <1>6, <1>7, <1>9 DEF AccountsInv

\* The donation is stored: the charge does not wait any more (applyCharge).
LEMMA ApplyKeepsAccounts ==
    ASSUME TypeOK, SnapshotsFit, AccountsInv, NEW r \in Run, ApplyCharge(r)
    PROVE  AccountsInv'
<1>1. /\ run[r] \in RunState /\ run[r].at = "apply" /\ Working(r) /\ Continue(r)
      /\ charged' = charged /\ donations' = [donations EXCEPT ![run[r].cur] = @ + 1]
  BY DEF TypeOK, ApplyCharge, Working
<1>2. PICK p \in Pledge : p = run[r].cur
  BY <1>1, RunKinds
<1>4. run'[r].at = "loop" /\ \A q \in Run \ {r} : run'[q] = run[q]
  BY <1>1, ContinueFits
<1>5. /\ Before(p)' = Before(p) \ {r} /\ r \in Before(p)
      /\ \A q \in Pledge \ {p} : Before(q)' = Before(q)
      /\ \A q \in Pledge : Died(q)' = Died(q)
  BY <1>1, <1>2, <1>4 DEF Before, Died
<1>6. donations'[p] = donations[p] + 1 /\ \A q \in Pledge \ {p} : donations'[q] = donations[q]
  BY <1>1, <1>2 DEF TypeOK
<1>7. IsFiniteSet(Before(p)') /\ Cardinality(Before(p)') = Cardinality(Before(p)) - 1
  BY <1>2, <1>5, FS_RemoveElement DEF AccountsInv
<1>8. /\ Cardinality(Before(p)) \in Nat /\ Cardinality(Died(p)) \in Nat
      /\ charged[p] \in Nat /\ donations[p] \in Nat
  BY <1>2, FS_CardinalityType DEF AccountsInv, TypeOK
<1>9. /\ donations'[p] + Cardinality(Before(p)') <= charged'[p]
      /\ charged'[p] <= donations'[p] + Cardinality(Before(p)') + Cardinality(Died(p)')
  BY <1>1, <1>2, <1>5, <1>6, <1>7, <1>8 DEF AccountsInv
<1> QED BY <1>1, <1>2, <1>5, <1>6, <1>7, <1>9 DEF AccountsInv

\* A run dies: its charge, if it has one, waits for ever (runDue).
LEMMA StopKeepsAccounts ==
    ASSUME TypeOK, AccountsInv, NEW r \in Run, Stop(r)
    PROVE  AccountsInv'
<1>1. /\ run[r] \in RunState /\ run[r].at \in {"cancel", "charge", "apply"}
      /\ UNCHANGED <<charged, donations>> /\ run' = [run EXCEPT ![r].at = "dead"]
  BY DEF TypeOK, Stop
<1>2. PICK p \in Pledge : p = run[r].cur
  BY <1>1, RunKinds
<1>r. run[r] = [at |-> run[r].at, todo |-> run[r].todo, now |-> run[r].now,
              cur |-> run[r].cur, seen |-> run[r].seen]
  BY <1>1 DEF RunState, Idle
<1>3. [run[r] EXCEPT !.at = "dead"].at = "dead" /\ [run[r] EXCEPT !.at = "dead"].cur = p
  BY <1>2, <1>r
<1>4. run'[r].at = "dead" /\ run'[r].cur = p /\ \A q \in Run \ {r} : run'[q] = run[q]
  BY <1>1, <1>3 DEF TypeOK
<1>5. /\ Died(p)' = Died(p) \cup {r} /\ r \notin Died(p)
      /\ \A q \in Pledge \ {p} : Died(q)' = Died(q)
  BY <1>1, <1>2, <1>4 DEF Died
<1>6. /\ Before(p)' = Before(p) \ {r}
      /\ \A q \in Pledge \ {p} : Before(q)' = Before(q)
  <2>1. \A q \in Pledge \ {p} : r \notin Before(q)
    BY <1>2 DEF Before
  <2> QED BY <2>1, <1>4 DEF Before
<1>7. /\ IsFiniteSet(Before(p)) /\ IsFiniteSet(Died(p))
      /\ Cardinality(Before(p)) \in Nat /\ Cardinality(Died(p)) \in Nat
      /\ charged[p] \in Nat /\ donations[p] \in Nat
  BY <1>2, FS_CardinalityType DEF AccountsInv, TypeOK
<1>8. IsFiniteSet(Died(p)') /\ Cardinality(Died(p)') = Cardinality(Died(p)) + 1
  BY <1>5, <1>7, FS_AddElement
<1>9. /\ IsFiniteSet(Before(p)')
      /\ Cardinality(Before(p)') \in {Cardinality(Before(p)), Cardinality(Before(p)) - 1}
  BY <1>6, <1>7, FS_RemoveElement
<1>10. /\ donations'[p] + Cardinality(Before(p)') <= charged'[p]
       /\ charged'[p] <= donations'[p] + Cardinality(Before(p)') + Cardinality(Died(p)')
  BY <1>1, <1>2, <1>7, <1>8, <1>9 DEF AccountsInv
<1> QED BY <1>1, <1>2, <1>5, <1>6, <1>8, <1>9, <1>10 DEF AccountsInv

LEMMA NextKeepsAccounts == ASSUME IInv, AccountsInv, Next PROVE AccountsInv'
<1>t. TypeOK /\ SnapshotsFit
  BY DEF IInv
<1>1. CASE (\E p \in Pledge : Create(p)) \/ (\E p \in Pledge, status \in Status : SetStatus(p, status))
           \/ Tick \/ CampaignCloses
  BY <1>1, AccountsStay DEF Create, SetStatus, Tick, CampaignCloses
<1>2. ASSUME NEW r \in Run, RunDue(r) \/ Proceed(r) \/ Stop(r) PROVE AccountsInv'
  <2>1. CASE RunDue(r) \/ (\E p \in Pledge : ReadCampaign(r, p)) \/ Answer(r)
    <3>1. /\ \A q \in Run \ {r} : run'[q] = run[q]
          /\ run[r].at \notin {"apply", "dead"} /\ run'[r].at \notin {"apply", "dead"}
      BY <2>1, <1>t DEF RunDue, ReadCampaign, Answer, Looping, Idle, TypeOK
    <3>2. UNCHANGED <<charged, donations>>
      BY <2>1 DEF RunDue, ReadCampaign, Answer
    <3> QED BY <3>1, <3>2, AccountsStay
  <2>2. CASE CancelPledge(r) \/ (Charge(r) /\ Continue(r) /\ charged' = charged)
    <3>1. Working(r) /\ Continue(r) /\ run[r].at \notin {"apply", "dead"}
      BY <2>2 DEF CancelPledge, Charge, Working
    <3>2. \A q \in Run \ {r} : run'[q] = run[q]
      BY <3>1, <1>t, ContinueFits
    <3>3. run'[r].at = "loop"
      BY <3>1, <1>t, ContinueFits
    <3>4. UNCHANGED <<charged, donations>>
      BY <2>2 DEF CancelPledge, Charge
    <3> QED BY <3>1, <3>2, <3>3, <3>4, AccountsStay
  <2>3. CASE Charge(r) /\ ~(Continue(r) /\ charged' = charged)
    <3>1. charged' = [charged EXCEPT ![run[r].cur] = @ + 1] /\ run' = [run EXCEPT ![r].at = "apply"]
      BY <2>3 DEF Charge
    <3> QED BY <2>3, <3>1, <1>t, ChargeKeepsAccounts
  <2>4. CASE ApplyCharge(r)
    BY <2>4, <1>t, ApplyKeepsAccounts
  <2>5. CASE Stop(r)
    BY <2>5, <1>t, StopKeepsAccounts
  <2> QED BY <1>2, <2>1, <2>2, <2>3, <2>4, <2>5 DEF Proceed
<1> QED BY <1>1, <1>2 DEF Next

-----------------------------------------------------------------------------
(* Runs that do not overlap or die.                                        *)

Busy == {r \in Run : run[r] # Idle}
Applied(p) == \E r \in Run : run[r].at = "apply" /\ run[r].cur = p

\* The charges of a pledge, its donations and chargesCount are the same number,
\* but for the charge a run is about to store; and each month since the pledge
\* was created has been charged at most once, up to the month it is due.
CountsAgree ==
    /\ \A p \in Created :
          /\ pledge[p].charges = donations[p]
          /\ charged[p] = IF Applied(p) THEN donations[p] + 1 ELSE donations[p]
          /\ pledge[p].charges + pledge[p].created <= pledge[p].next
    /\ \A p \in Pledge \ Created : charged[p] = 0 /\ donations[p] = 0

\* What a run has left to charge was due when it started, and has the count
\* the run read.
ListedAreDue ==
    \A r \in Busy : \A p \in Listed(r) :
        run[r].todo[p] = pledge[p].charges /\ pledge[p].next <= run[r].now

AloneFacts ==
    /\ \A r \in Run : run[r].at # "dead"
    /\ \A q, r \in Busy : q = r
    /\ CountsAgree
    /\ ListedAreDue

AloneInv == IsFiniteSet(Busy) /\ (alone => AloneFacts)

FullInv == IInv /\ AccountsInv /\ AloneInv
\* A step that leaves counts, charges and donations alone, and moves no run into
\* or out of the state in which a charge waits.
LEMMA CountsStay ==
    ASSUME CountsAgree, UNCHANGED <<charged, donations>>, Created' = Created,
           \A p \in Created : /\ pledge'[p].charges = pledge[p].charges
                              /\ pledge'[p].next = pledge[p].next
                              /\ pledge'[p].created = pledge[p].created,
           \A r \in Run : \/ run'[r] = run[r]
                          \/ run[r].at # "apply" /\ run'[r].at # "apply"
    PROVE  CountsAgree'
<1>1. ASSUME NEW p \in Pledge PROVE Applied(p)' = Applied(p)
  BY DEF Applied
<1>2. Created \subseteq Pledge => \A p \in Created : Applied(p)' = Applied(p)
  BY <1>1
<1>3. \A p \in Created : Applied(p)' = Applied(p)
  BY DEF Applied
<1> QED BY <1>3 DEF CountsAgree

\* A run at no step is the idle record.
LEMMA IdleHasNothing == ASSUME TypeOK, NEW r \in Run, run[r].at = "idle" PROVE run[r] = Idle
  BY DEF TypeOK, RunState, Idle

\* A run that goes on, or stops, with less on its list keeps what is due.
LEMMA DueStays ==
    ASSUME TypeOK, ListedAreDue, SnapshotsFit,
           \A p \in Created : pledge'[p].charges = pledge[p].charges /\ pledge'[p].next = pledge[p].next,
           \A r \in Run : \/ run'[r] = run[r]
                          \/ run'[r] = Idle
                          \/ /\ run[r] # Idle /\ run[r].at # "idle" /\ run'[r].now = run[r].now
                             /\ \A p \in Pledge : run'[r].todo[p] \in {run[r].todo[p], NotListed}
    PROVE  ListedAreDue'
<1> SUFFICES ASSUME NEW r \in Run, run'[r] # Idle, NEW p \in Pledge, run'[r].todo[p] # NotListed
             PROVE  run'[r].todo[p] = pledge'[p].charges /\ pledge'[p].next <= run'[r].now
  BY DEF ListedAreDue, Busy, Listed
<1>1. /\ run[r] # Idle /\ run'[r].now = run[r].now /\ run'[r].todo[p] = run[r].todo[p]
  OBVIOUS
<1>2. r \in Busy /\ p \in Listed(r)
  BY <1>1 DEF Busy, Listed
<1>3. run[r].todo[p] = pledge[p].charges /\ pledge[p].next <= run[r].now
  BY <1>2 DEF ListedAreDue
<1>4. run[r].at # "idle" => p \in Created
  BY <1>2 DEF SnapshotsFit
<1>5. run'[r] = run[r] => run[r].at # "idle"
  BY <1>2, IdleHasNothing DEF Busy
<1>6. pledge'[p].charges = pledge[p].charges /\ pledge'[p].next = pledge[p].next
  BY <1>4, <1>5
<1> QED BY <1>1, <1>3, <1>6

LEMMA AloneStep ==
    ASSUME IInv, IInv', AloneFacts, Next, stops' = 0, \A q, r \in Busy' : q = r
    PROVE  CountsAgree' /\ ListedAreDue' /\ \A r \in Run : run'[r].at # "dead"
<1> USE RecurringAssumption
<1> DEFINE Thesis == CountsAgree' /\ ListedAreDue' /\ \A r \in Run : run'[r].at # "dead"
<1> SUFFICES Thesis OBVIOUS
<1>t. TypeOK /\ SnapshotsFit /\ NeverSkipsAMonth /\ TypeOK'
  BY DEF IInv
<1>a. /\ CountsAgree /\ ListedAreDue /\ \A r \in Run : run[r].at # "dead"
      /\ \A q, r \in Busy : q = r
  BY DEF AloneFacts
<1>1. ASSUME NEW p \in Pledge, Create(p) PROVE Thesis
  <2> DEFINE new == [status |-> "ACTIVE", charges |-> 0, next |-> time, created |-> time]
  <2>1. /\ p \notin Created /\ UNCHANGED <<charged, donations, run>>
        /\ pledge' = [q \in Created \cup {p} |-> IF q = p THEN new ELSE pledge[q]]
    BY <1>1 DEF Create
  <2>2. /\ Created' = Created \cup {p} /\ pledge'[p].charges = 0
        /\ pledge'[p].next = time /\ pledge'[p].created = time
        /\ \A q \in Created : pledge'[q] = pledge[q]
    BY <2>1
  <2>3. \A r \in Run : run[r].at # "idle" => p \notin Listed(r)
    BY <2>1, <1>t DEF SnapshotsFit
  <2>4. ~Applied(p) /\ \A q \in Pledge : Applied(q)' = Applied(q)
    <3>1. \A r \in Run : run[r].at = "apply" => run[r].cur \in Listed(r)
      BY <1>t DEF SnapshotsFit, Working
    <3>2. ~Applied(p)
      BY <2>3, <3>1 DEF Applied
    <3> QED BY <2>1, <3>2 DEF Applied
  <2>5. time \in Nat /\ Created \subseteq Pledge
    BY <1>t DEF TypeOK
  <2>6. CountsAgree'
    <3>1. charged[p] = 0 /\ donations[p] = 0
      BY <2>1, <1>a DEF CountsAgree
    <3>2. ASSUME NEW q \in Created \cup {p}
          PROVE  /\ pledge'[q].charges = donations'[q]
                 /\ charged'[q] = IF Applied(q)' THEN donations'[q] + 1 ELSE donations'[q]
                 /\ pledge'[q].charges + pledge'[q].created <= pledge'[q].next
      <4>1. CASE q = p
        BY <4>1, <3>1, <2>1, <2>2, <2>4, <2>5
      <4>2. CASE q # p
        BY <4>2, <2>1, <2>2, <2>4, <2>5, <1>a DEF CountsAgree
      <4> QED BY <4>1, <4>2
    <3> QED BY <3>2, <2>1, <2>2, <1>a DEF CountsAgree
  <2>7. ListedAreDue'
    <3>1. ASSUME NEW r \in Busy, NEW q \in Listed(r) PROVE q \in Created
      <4>1. run[r].at # "idle"
        BY <1>t, IdleHasNothing DEF Busy
      <4> QED BY <4>1, <1>t DEF SnapshotsFit, Busy
    <3> QED BY <3>1, <2>1, <2>2, <1>a DEF ListedAreDue, Busy, Listed
  <2> QED BY <2>1, <2>6, <2>7, <1>a
<1>2. ASSUME NEW p \in Pledge, NEW status \in Status, SetStatus(p, status) PROVE Thesis
  <2>1. /\ Created' = Created /\ UNCHANGED <<charged, donations, run>>
        /\ \A q \in Created : /\ pledge'[q].charges = pledge[q].charges
                              /\ pledge'[q].next = pledge[q].next
                              /\ pledge'[q].created = pledge[q].created
    BY <1>2, <1>t DEF SetStatus, TypeOK, Row
  <2> QED BY <2>1, <1>t, <1>a, CountsStay, DueStays
<1>3. CASE Tick \/ CampaignCloses
  <2>1. UNCHANGED <<pledge, charged, donations, run>>
    BY <1>3 DEF Tick, CampaignCloses
  <2> QED BY <2>1, <1>t, <1>a, CountsStay, DueStays
<1>5. ASSUME NEW r \in Run, RunDue(r) PROVE Thesis
  <2> DEFINE due == [p \in Pledge |-> IF p \in DuePledges THEN pledge[p].charges ELSE NotListed]
  <2>1. run[r] = Idle /\ run' = [run EXCEPT ![r] = Looping(due, time)]
        /\ UNCHANGED <<pledge, charged, donations>>
    BY <1>5 DEF RunDue
  <2>2. \A p \in Pledge : due[p] # NotListed =>
            due[p] = pledge[p].charges /\ pledge[p].next <= time
    BY DEF DuePledges
  <2> HIDE DEF due
  <2>3. /\ run'[r].at = "loop" /\ run'[r].todo = due /\ run'[r].now = time
        /\ \A q \in Run \ {r} : run'[q] = run[q]
    BY <2>1, <1>t DEF Looping, TypeOK
  <2>4. CountsAgree'
    BY <2>1, <2>3, <1>a, CountsStay DEF Idle
  <2>5. ListedAreDue'
    <3>1. ASSUME NEW q \in Run, run'[q] # Idle, NEW p \in Pledge, run'[q].todo[p] # NotListed
          PROVE  run'[q].todo[p] = pledge'[p].charges /\ pledge'[p].next <= run'[q].now
      <4>1. CASE q = r
        BY <4>1, <3>1, <2>1, <2>2, <2>3
      <4>2. CASE q # r
        BY <4>2, <3>1, <2>1, <2>3, <1>a DEF ListedAreDue, Busy, Listed
      <4> QED BY <4>1, <4>2
    <3> QED BY <3>1 DEF ListedAreDue, Busy, Listed
  <2> QED BY <2>3, <2>4, <2>5, <1>a
<1>6. ASSUME NEW r \in Run, NEW p \in Pledge, ReadCampaign(r, p) PROVE Thesis
  <2> DEFINE next == [at |-> IF open /\ raised < Goal THEN "charge" ELSE "cancel",
                      todo |-> run[r].todo, now |-> run[r].now, cur |-> p, seen |-> raised]
  <2>1. run[r].at = "loop" /\ run' = [run EXCEPT ![r] = next] /\ UNCHANGED <<pledge, charged, donations>>
    BY <1>6 DEF ReadCampaign
  <2>2. next.at \in {"charge", "cancel"} /\ next.todo = run[r].todo /\ next.now = run[r].now
    OBVIOUS
  <2> HIDE DEF next
  <2>3. run'[r] = next /\ \A q \in Run \ {r} : run'[q] = run[q]
    BY <2>1, <1>t DEF TypeOK
  <2>4. CountsAgree'
    BY <2>1, <2>2, <2>3, <1>a, CountsStay
  <2>5. ListedAreDue'
    <3>1. run[r] # Idle
      BY <2>1 DEF Idle
    <3> QED BY <3>1, <2>1, <2>2, <2>3, <1>t, <1>a, DueStays
  <2> QED BY <2>2, <2>3, <2>4, <2>5, <1>a
<1>7. ASSUME NEW r \in Run, Answer(r) PROVE Thesis
  <2>1. /\ run[r].at = "loop" /\ run'[r] = Idle /\ UNCHANGED <<pledge, charged, donations>>
        /\ \A q \in Run \ {r} : run'[q] = run[q]
    BY <1>7, <1>t DEF Answer, TypeOK
  <2>2. CountsAgree' /\ ListedAreDue'
    BY <2>1, <1>t, <1>a, CountsStay, DueStays DEF Idle
  <2> QED BY <2>1, <2>2, <1>a DEF Idle
<1>8. ASSUME NEW r \in Run, CancelPledge(r) PROVE Thesis
  <2>1. /\ Created' = Created /\ UNCHANGED <<charged, donations>>
        /\ \A q \in Created : /\ pledge'[q].charges = pledge[q].charges
                              /\ pledge'[q].next = pledge[q].next
                              /\ pledge'[q].created = pledge[q].created
    BY <1>8, <1>t DEF CancelPledge, TypeOK, Row
  <2>2. Working(r) /\ Continue(r) /\ run[r].at = "cancel" /\ run[r] # Idle
    BY <1>8 DEF CancelPledge, Working, Idle
  <2>3. /\ \A i \in Run \ {r} : run'[i] = run[i]
        /\ run'[r].at = "loop" /\ run'[r].now = run[r].now
        /\ \A q \in Pledge : run'[r].todo[q] \in {run[r].todo[q], NotListed}
    BY <2>2, <1>t, ContinueFits
  <2>4. CountsAgree'
    BY <2>1, <2>2, <2>3, <1>a, CountsStay
  <2>5. ListedAreDue'
    BY <2>1, <2>2, <2>3, <1>t, <1>a, DueStays
  <2> QED BY <2>3, <2>4, <2>5, <1>a
<1>9. ASSUME NEW r \in Run, Charge(r) PROVE Thesis
  <2>1. /\ Working(r) /\ run[r] \in RunState /\ run[r].at = "charge" /\ run[r] # Idle
        /\ UNCHANGED <<pledge, donations>>
    BY <1>9, <1>t DEF Charge, Working, TypeOK, Idle
  <2>2. CASE run' = [run EXCEPT ![r].at = "apply"] /\ charged' = [charged EXCEPT ![run[r].cur] = @ + 1]
    <3>r. run[r] = [at |-> run[r].at, todo |-> run[r].todo, now |-> run[r].now,
                    cur |-> run[r].cur, seen |-> run[r].seen]
      BY <2>1 DEF RunState, Idle
    <3> DEFINE next == [run[r] EXCEPT !.at = "apply"]
    <3>1. /\ next.at = "apply" /\ next.cur = run[r].cur /\ next.todo = run[r].todo
          /\ next.now = run[r].now
      BY <3>r
    <3> HIDE DEF next
    <3>2. run'[r] = next /\ \A q \in Run \ {r} : run'[q] = run[q]
      BY <2>2, <1>t DEF TypeOK, next
    <3>3. ListedAreDue'
      BY <2>1, <3>1, <3>2, <1>t, <1>a, DueStays
    <3>4. PICK p \in Pledge : p = run[r].cur
      BY <2>1, RunKinds
    <3>5. \A q \in Run \ {r} : run[q] = Idle
      BY <2>1, <1>a DEF Busy
    <3>6. ~Applied(p) /\ Applied(p)'
      BY <2>1, <3>1, <3>2, <3>4, <3>5 DEF Applied, Idle
    <3>7. \A q \in Pledge \ {p} : ~Applied(q) /\ ~Applied(q)'
      BY <2>1, <3>1, <3>2, <3>4, <3>5 DEF Applied, Idle
    <3>8. charged'[p] = charged[p] + 1 /\ \A q \in Pledge \ {p} : charged'[q] = charged[q]
      BY <2>2, <3>4, <1>t DEF TypeOK
    <3>9. Created' = Created /\ Created \subseteq Pledge /\ p \in Created
      BY <2>1, <3>4, <1>t DEF TypeOK, SnapshotsFit, Working, Listed
    <3>10. CountsAgree'
      <4>1. ASSUME NEW q \in Created
            PROVE  charged'[q] = IF Applied(q)' THEN donations'[q] + 1 ELSE donations'[q]
        <5>1. CASE q = p
          BY <5>1, <2>1, <3>6, <3>8, <3>9, <1>a DEF CountsAgree
        <5>2. CASE q # p
          BY <5>2, <2>1, <3>7, <3>8, <3>9, <1>a DEF CountsAgree
        <5> QED BY <5>1, <5>2
      <4>2. \A q \in Pledge \ Created : charged'[q] = 0
        BY <3>8, <3>9, <1>a DEF CountsAgree
      <4> QED BY <4>1, <4>2, <2>1, <3>9, <1>a DEF CountsAgree
    <3> QED BY <3>1, <3>2, <3>3, <3>10, <1>a
  <2>3. CASE Continue(r) /\ UNCHANGED charged
    <3>1. /\ \A i \in Run \ {r} : run'[i] = run[i]
          /\ run'[r].at = "loop" /\ run'[r].now = run[r].now
          /\ \A q \in Pledge : run'[r].todo[q] \in {run[r].todo[q], NotListed}
      BY <2>1, <2>3, <1>t, ContinueFits
    <3>2. CountsAgree'
      BY <2>1, <2>3, <3>1, <1>a, CountsStay
    <3>3. ListedAreDue'
      BY <2>1, <3>1, <1>t, <1>a, DueStays
    <3> QED BY <3>1, <3>2, <3>3, <1>a
  <2> QED BY <1>9, <2>2, <2>3 DEF Charge
<1>10. ASSUME NEW r \in Run, ApplyCharge(r) PROVE Thesis
  <2>1. Working(r) /\ Continue(r) /\ run[r] \in RunState /\ run[r].at = "apply" /\ run[r] # Idle
    BY <1>10, <1>t DEF ApplyCharge, Working, TypeOK, Idle
  <2>2. PICK p \in Pledge : p = run[r].cur
    BY <2>1, RunKinds
  <2> DEFINE row == [status |-> pledge[p].status, created |-> pledge[p].created,
                     charges |-> NextCount(run[r].todo[p]), next |-> NextRun(run[r].now)]
  <2>3. /\ p \in Listed(r) /\ p \in Created /\ run[r].now \in Nat /\ r \in Busy
        /\ run[r].todo[p] = pledge[p].charges /\ pledge[p].next <= run[r].now
    BY <2>1, <2>2, <1>t, <1>a, RunKinds DEF SnapshotsFit, Working, Listed, Busy, ListedAreDue
  <2>4. /\ pledge' = [pledge EXCEPT ![p] = row] /\ charged' = charged
        /\ donations' = [donations EXCEPT ![p] = @ + 1]
    BY <1>10, <2>2 DEF ApplyCharge
  <2>5. /\ row.created = pledge[p].created /\ row.charges = pledge[p].charges + 1
        /\ row.next = run[r].now + 1
    BY <2>3 DEF NextCount, NextRun
  <2> HIDE DEF row
  <2>6. /\ Created' = Created /\ Created \subseteq Pledge /\ pledge'[p] = row
        /\ \A q \in Created \ {p} : pledge'[q] = pledge[q]
        /\ donations'[p] = donations[p] + 1 /\ \A q \in Pledge \ {p} : donations'[q] = donations[q]
    BY <2>2, <2>3, <2>4, <1>t DEF TypeOK
  <2>7. run'[r] = Looping([run[r].todo EXCEPT ![p] = NotListed], run[r].now)
        /\ \A q \in Run \ {r} : run'[q] = run[q] /\ run[q] = Idle
    BY <2>1, <2>2, <1>t, <1>a DEF Continue, TypeOK, Busy
  <2>8. Applied(p) /\ (\A q \in Pledge \ {p} : ~Applied(q)) /\ \A q \in Pledge : ~Applied(q)'
    BY <2>1, <2>2, <2>7 DEF Applied, Idle, Looping
  <2>9. CountsAgree'
    <3>1. /\ pledge[p].charges \in Nat /\ pledge[p].created \in Nat /\ pledge[p].next \in Nat
          /\ donations[p] \in Nat
      BY <2>2, <2>3, <1>t DEF TypeOK, Row
    <3>2. ASSUME NEW q \in Created
          PROVE  /\ pledge'[q].charges = donations'[q]
                 /\ charged'[q] = IF Applied(q)' THEN donations'[q] + 1 ELSE donations'[q]
                 /\ pledge'[q].charges + pledge'[q].created <= pledge'[q].next
      <4>1. CASE q = p
        <5>1. /\ pledge[p].charges = donations[p] /\ charged[p] = donations[p] + 1
              /\ pledge[p].charges + pledge[p].created <= pledge[p].next
          BY <2>3, <2>8, <1>a DEF CountsAgree
        <5> QED BY <4>1, <5>1, <3>1, <2>3, <2>4, <2>5, <2>6, <2>8
      <4>2. CASE q # p
        <5>1. /\ pledge[q].charges = donations[q] /\ charged[q] = donations[q]
              /\ pledge[q].charges + pledge[q].created <= pledge[q].next
          BY <4>2, <2>6, <2>8, <1>a DEF CountsAgree
        <5> QED BY <4>2, <5>1, <2>4, <2>6, <2>8
      <4> QED BY <4>1, <4>2
    <3>3. \A q \in Pledge \ Created : charged'[q] = 0 /\ donations'[q] = 0
      BY <2>3, <2>4, <2>6, <1>a DEF CountsAgree
    <3> QED BY <3>2, <3>3, <2>6 DEF CountsAgree
  <2>10. ListedAreDue'
    <3>1. run[r].todo \in Todo
      BY <2>1, RunKinds
    <3>2. /\ run'[r].now = run[r].now /\ run'[r].todo[p] = NotListed
          /\ \A q \in Pledge \ {p} : run'[r].todo[q] = run[r].todo[q]
      BY <2>2, <2>7, <3>1 DEF Looping, Todo
    <3>3. ASSUME NEW q \in Pledge, run'[r].todo[q] # NotListed
          PROVE  run'[r].todo[q] = pledge'[q].charges /\ pledge'[q].next <= run'[r].now
      <4>1. q # p /\ q \in Listed(r)
        BY <3>2, <3>3 DEF Listed
      <4>2. q \in Created
        BY <4>1, <2>1, <1>t DEF SnapshotsFit
      <4> QED BY <4>1, <4>2, <3>2, <2>3, <2>6, <1>a DEF ListedAreDue
    <3> QED BY <3>3, <2>7 DEF ListedAreDue, Busy, Listed
  <2>11. \A q \in Run : run'[q].at # "dead"
    BY <2>7, <1>a DEF Looping
  <2> QED BY <2>9, <2>10, <2>11
<1>11. ASSUME NEW r \in Run, Stop(r) PROVE Thesis
  BY <1>11, <1>t DEF Stop, TypeOK
<1> HIDE DEF Thesis
<1> QED BY <1>1, <1>2, <1>3, <1>5, <1>6, <1>7, <1>8, <1>9, <1>10, <1>11 DEF Next, Proceed

\* At most one run moves, so that finitely many are at work.
LEMMA BusyStaysFinite == ASSUME TypeOK, SnapshotsFit, Next, IsFiniteSet(Busy) PROVE IsFiniteSet(Busy')
<1>1. CASE run' = run
  BY <1>1 DEF Busy
<1>2. ASSUME NEW r \in Run, \A q \in Run \ {r} : run'[q] = run[q] PROVE IsFiniteSet(Busy')
  <2>1. Busy' \subseteq Busy \cup {r}
    BY <1>2 DEF Busy
  <2> QED BY <2>1, FS_AddElement, FS_Subset
<1>3. run' = run \/ \E r \in Run : \A q \in Run \ {r} : run'[q] = run[q]
  <2>1. CASE (\E p \in Pledge : Create(p)) \/ (\E p \in Pledge, status \in Status : SetStatus(p, status))
             \/ Tick \/ CampaignCloses
    BY <2>1 DEF Create, SetStatus, Tick, CampaignCloses
  <2>2. ASSUME NEW r \in Run, RunDue(r) \/ Proceed(r) \/ Stop(r)
        PROVE  \A q \in Run \ {r} : run'[q] = run[q]
    <3>1. \E next : run' = [run EXCEPT ![r] = next]
      <4>1. CASE RunDue(r)
        BY <4>1 DEF RunDue
      <4>2. CASE \E p \in Pledge : ReadCampaign(r, p)
        BY <4>2 DEF ReadCampaign
      <4>3. CASE Answer(r) \/ CancelPledge(r) \/ ApplyCharge(r)
        BY <4>3 DEF Answer, CancelPledge, ApplyCharge, Continue
      <4>4. CASE Charge(r)
        BY <4>4 DEF Charge, Continue
      <4>5. CASE Stop(r)
        BY <4>5 DEF Stop
      <4> QED BY <2>2, <4>1, <4>2, <4>3, <4>4, <4>5 DEF Proceed
    <3> QED BY <3>1 DEF TypeOK
  <2> QED BY <2>1, <2>2 DEF Next
<1> QED BY <1>1, <1>2, <1>3

LEMMA FullInit == MCInit => FullInv
<1> SUFFICES ASSUME MCInit PROVE FullInv
  OBVIOUS
<1>1. IInv
  BY InitInvariant DEF MCInit
<1>2. \A p \in Pledge : Before(p) = {} /\ Died(p) = {} /\ charged[p] = 0 /\ donations[p] = 0
  BY DEF MCInit, Init, Idle, Before, Died
<1>3. AccountsInv
  BY <1>2, FS_EmptySet DEF AccountsInv
<1>4. Busy = {} /\ IsFiniteSet(Busy) /\ Created = {} /\ \A r \in Run : run[r].at # "dead"
  BY FS_EmptySet DEF MCInit, Init, Busy, Idle
<1>5. CountsAgree
  BY <1>2, <1>4 DEF CountsAgree
<1>6. ListedAreDue
  BY <1>4 DEF ListedAreDue
<1> QED BY <1>1, <1>3, <1>4, <1>5, <1>6 DEF FullInv, AloneInv, AloneFacts

LEMMA FullStep == FullInv /\ [MCNext]_<<vars, alone>> => FullInv'
<1> SUFFICES ASSUME FullInv, [MCNext]_<<vars, alone>> PROVE FullInv'
  OBVIOUS
<1>t. IInv /\ AccountsInv /\ AloneInv /\ TypeOK /\ SnapshotsFit
  BY DEF FullInv, IInv
<1>1. IInv'
  BY <1>t, StepInvariant DEF MCNext
<1>2. CASE MCNext
  <2>1. Next /\ AccountsInv' /\ IsFiniteSet(Busy')
    BY <1>2, <1>t, NextKeepsAccounts, BusyStaysFinite DEF MCNext, AloneInv
  <2>2. ASSUME alone' PROVE AloneFacts'
    <3>1. alone /\ stops' = 0 /\ Cardinality(Busy') <= 1
      BY <1>2, <2>2 DEF MCNext, Busy
    <3>2. \A q, r \in Busy' : q = r
      BY <2>1, <3>1, OneAtMost
    <3> QED BY <1>1, <1>t, <2>1, <3>1, <3>2, AloneStep DEF AloneInv, AloneFacts
  <2> QED BY <1>1, <2>1, <2>2 DEF FullInv, AloneInv
<1>3. CASE UNCHANGED <<vars, alone>>
  <2>1. AccountsInv'
    BY <1>3, <1>t, AccountsStay DEF vars
  <2>2. AloneInv'
    BY <1>3, <1>t DEF vars, AloneInv, AloneFacts, Busy, CountsAgree, ListedAreDue, Applied, Listed
  <2> QED BY <1>1, <2>1, <2>2 DEF FullInv
<1> QED BY <1>2, <1>3

\* What the invariant says of charges is what is promised of them.
LEMMA FullImplies ==
    FullInv => /\ TypeOK /\ CountNeverOverstates /\ ChargesAreAccounted
               /\ MonthlyAtMostOnceAlone /\ CountIsChargesAlone
<1> SUFFICES ASSUME FullInv
             PROVE  /\ TypeOK /\ CountNeverOverstates /\ ChargesAreAccounted
                    /\ MonthlyAtMostOnceAlone /\ CountIsChargesAlone
  OBVIOUS
<1>1. TypeOK /\ SnapshotsFit /\ CountNeverOverstates /\ NeverSkipsAMonth
  BY DEF FullInv, IInv
<1>2. ChargesAreAccounted
  BY DEF FullInv, AccountsInv, ChargesAreAccounted, Before, Died
<1>3. ASSUME alone PROVE MonthlyAtMostOnce
  <2>1. CountsAgree /\ ListedAreDue
    BY <1>3 DEF FullInv, AloneInv, AloneFacts
  <2>2. ASSUME NEW p \in Created PROVE charged[p] <= time - pledge[p].created + 1
    <3>1. /\ p \in Pledge /\ pledge[p] \in Row /\ time \in Nat
          /\ charged[p] \in Nat /\ donations[p] \in Nat
      BY <1>1, RecurringAssumption DEF TypeOK
    <3>2. pledge[p].charges \in Nat /\ pledge[p].next \in Nat /\ pledge[p].created \in Nat
      BY <3>1 DEF Row
    <3>3. /\ pledge[p].charges = donations[p]
          /\ charged[p] = IF Applied(p) THEN donations[p] + 1 ELSE donations[p]
          /\ pledge[p].charges + pledge[p].created <= pledge[p].next
          /\ pledge[p].next <= time + 1
      BY <2>1, <1>1 DEF CountsAgree, NeverSkipsAMonth
    <3>4. CASE ~Applied(p)
      BY <3>1, <3>2, <3>3, <3>4
    <3>5. CASE Applied(p)
      <4>1. PICK r \in Run : run[r].at = "apply" /\ run[r].cur = p
        BY <3>5 DEF Applied
      <4>2. p \in Listed(r) /\ run[r].now <= time /\ r \in Busy
        BY <4>1, <1>1 DEF SnapshotsFit, Working, Busy, Idle
      <4>3. run[r].now \in Nat
        BY <4>1, <1>1, RunKinds DEF TypeOK
      <4>4. pledge[p].next <= run[r].now
        BY <4>2, <2>1 DEF ListedAreDue
      <4> QED BY <3>1, <3>2, <3>3, <3>5, <4>2, <4>3, <4>4
    <3> QED BY <3>4, <3>5
  <2> QED BY <2>2 DEF MonthlyAtMostOnce
<1>4. ASSUME alone, \A r \in Run : run[r] = Idle, NEW p \in Created
      PROVE  pledge[p].charges = charged[p] /\ donations[p] = charged[p]
  <2>1. CountsAgree
    BY <1>4 DEF FullInv, AloneInv, AloneFacts
  <2>2. ~Applied(p)
    BY <1>4 DEF Applied, Idle
  <2> QED BY <2>1, <2>2 DEF CountsAgree
<1> QED BY <1>1, <1>2, <1>3, <1>4 DEF MonthlyAtMostOnceAlone, CountIsCharges, CountIsChargesAlone

\* The invariant of runs that may overlap and die, of the charges they make.
THEOREM ChargesInvariant == AllSpec => []FullInv
<1>1. AllInit => FullInv
  BY FullInit DEF AllInit
<1>2. FullInv /\ [AllNext]_allVars => FullInv'
  <2> SUFFICES ASSUME FullInv, [AllNext]_allVars PROVE FullInv'
    OBVIOUS
  <2>1. [MCNext]_<<vars, alone>>
    BY DEF AllNext, OtherParts, allVars
  <2> QED BY <2>1, FullStep
<1> QED BY <1>1, <1>2, PTL DEF AllSpec

\* A pledge is charged at most once a month and its chargesCount is the number
\* of its charges, as long as runs do not overlap or die; and however they do,
\* the count never overstates, and every charge is a donation or that of a run
\* which is about to store it or died (runDue, chargeOne, applyCharge).
THEOREM RecurringChargesAreRight == AllSpec => []ChargesAreRight
<1>1. FullInv => ChargesAreRight
  BY FullImplies DEF ChargesAreRight
<1> QED BY <1>1, ChargesInvariant, PTL
-----------------------------------------------------------------------------
(* The draft of the campaign wizard.                                       *)

OneTab == \A s, t \in Tab : s = t

\* With one tab, what the student last saw is what would be loaded, and what
\* an unfinished wizard shows.
DraftKept ==
    OneTab =>
        /\ wizardTyped = Wizard!LoadWizardState
        /\ \A t \in Tab : wizardScreen[t] = "wizard" /\ ~wizardCommitted[t] => wizardDraft[t] = wizardTyped

WizardInv == Wizard!TypeOK /\ DraftKept

\* The kinds of calls there are.
LEMMA WizardCalls ==
    /\ Wizard!NoCall \in [what : {"NONE", "me", "profile", "create", "submit"}, at : {"NONE", "sent", "done"}]
    /\ \A w \in {"me", "profile", "create", "submit"} :
          Wizard!Sent(w) \in [what : {"NONE", "me", "profile", "create", "submit"}, at : {"NONE", "sent", "done"}]
  BY DEF Wizard!NoCall, Wizard!Sent

\* Nothing typed is a draft, and what is loaded is one.
LEMMA WizardDrafts ==
    /\ Wizard!EmptyWizardState \in Wizard!Draft
    /\ NoDraft \notin Wizard!Draft
    /\ wizardStored \in Wizard!Draft \union {NoDraft} => Wizard!LoadWizardState \in Wizard!Draft
<1>1. Wizard!EmptyWizardState \in Wizard!Draft
  BY DEF Wizard!EmptyWizardState, Wizard!Draft
<1> QED BY <1>1, RecurringWizardAssumption DEF Wizard!WizardAssumption, Wizard!LoadWizardState

\* A change of the wizard by the student is saved unless the campaign exists.
LEMMA EditKeeps ==
    ASSUME WizardInv, NEW t \in Tab, NEW d \in Wizard!Draft, Wizard!Edit(t, d),
           UNCHANGED <<wizardScreen, wizardCommitted>>
    PROVE  /\ wizardStored' \in Wizard!Draft \union {NoDraft}
           /\ wizardDraft' \in [Tab -> Wizard!Draft]
           /\ wizardTyped' \in Wizard!Draft
           /\ DraftKept'
<1>1. /\ wizardStored' \in Wizard!Draft \union {NoDraft}
      /\ wizardDraft' \in [Tab -> Wizard!Draft]
      /\ wizardTyped' \in Wizard!Draft
  BY DEF Wizard!Edit, WizardInv, Wizard!TypeOK
<1>2. ASSUME OneTab PROVE DraftKept'
  <2>1. CASE wizardCommitted[t]
    <3>1. wizardStored' = wizardStored /\ wizardTyped' = wizardTyped
      BY <2>1 DEF Wizard!Edit
    <3>2. Wizard!LoadWizardState' = Wizard!LoadWizardState
      BY <3>1 DEF Wizard!LoadWizardState
    <3>3. \A s \in Tab : wizardCommitted'[s]
      BY <1>2, <2>1 DEF OneTab
    <3> QED BY <1>2, <3>1, <3>2, <3>3 DEF WizardInv, DraftKept
  <2>2. CASE ~wizardCommitted[t]
    <3>1. wizardStored' = d /\ wizardTyped' = d /\ wizardDraft'[t] = d
      BY <2>2 DEF Wizard!Edit, WizardInv, Wizard!TypeOK
    <3>2. Wizard!LoadWizardState' = d
      BY <3>1, WizardDrafts DEF Wizard!LoadWizardState
    <3> QED BY <1>2, <3>1, <3>2 DEF OneTab, DraftKept
  <2> QED BY <2>1, <2>2
<1> QED BY <1>1, <1>2 DEF DraftKept, OneTab

\* What leaves the draft of an unfinished wizard and what is stored alone.
LEMMA DraftStays ==
    ASSUME DraftKept, UNCHANGED <<wizardStored, wizardTyped>>,
           \A t \in Tab : wizardScreen'[t] = "wizard" /\ ~wizardCommitted'[t] =>
              /\ wizardScreen[t] = "wizard" /\ ~wizardCommitted[t]
              /\ wizardDraft'[t] = wizardDraft[t]
    PROVE  DraftKept'
  BY DEF DraftKept, OneTab, Wizard!LoadWizardState

\* The calls of the page, on their way there and back.
LEMMA CallsKeepDraft ==
    ASSUME WizardInv, NEW t \in Tab,
           \/ Wizard!Served(t) \/ Wizard!CallFailed(t) \/ Wizard!TryAgain(t) \/ Wizard!Reload(t)
           \/ Wizard!SaveProfile(t) \/ Wizard!Create(t) \/ Wizard!Submit(t)
    PROVE  WizardInv'
<1> USE WizardCalls, WizardDrafts
<1>1. CASE Wizard!Served(t)
  <2>1. Wizard!TypeOK'
    BY <1>1 DEF Wizard!Served, Wizard!Upsert, Wizard!CreateForUser, Wizard!SubmitForUser, WizardInv, Wizard!TypeOK
  <2> QED BY <1>1, <2>1, DraftStays DEF Wizard!Served, WizardInv
<1>2. CASE Wizard!CallFailed(t)
  <2>1. Wizard!TypeOK'
    BY <1>2 DEF Wizard!CallFailed, WizardInv, Wizard!TypeOK
  <2>2. \A s \in Tab : wizardScreen'[s] = "wizard" => wizardScreen[s] = "wizard"
    BY <1>2 DEF Wizard!CallFailed, WizardInv, Wizard!TypeOK
  <2> QED BY <1>2, <2>1, <2>2, DraftStays DEF Wizard!CallFailed, WizardInv
<1>3. CASE Wizard!TryAgain(t)
  <2>1. Wizard!TypeOK'
    BY <1>3 DEF Wizard!TryAgain, Wizard!Load, WizardInv, Wizard!TypeOK
  <2>2. \A s \in Tab : wizardScreen'[s] = "wizard" => wizardScreen[s] = "wizard"
    BY <1>3 DEF Wizard!TryAgain, Wizard!Load, WizardInv, Wizard!TypeOK
  <2> QED BY <1>3, <2>1, <2>2, DraftStays DEF Wizard!TryAgain, WizardInv
<1>4. CASE Wizard!Reload(t)
  <2>1. wizardReloads' \in 0..MaxReloads
    BY <1>4, RecurringWizardAssumption DEF Wizard!Reload, WizardInv, Wizard!TypeOK, Wizard!WizardAssumption
  <2>2. Wizard!TypeOK'
    BY <1>4, <2>1 DEF Wizard!Reload, Wizard!Load, Wizard!Upsert, Wizard!CreateForUser, Wizard!SubmitForUser,
                      WizardInv, Wizard!TypeOK
  <2>3. \A s \in Tab : wizardScreen'[s] = "wizard" =>
           s # t /\ wizardScreen[s] = "wizard" /\ wizardDraft'[s] = wizardDraft[s]
                 /\ wizardCommitted'[s] = wizardCommitted[s]
    BY <1>4 DEF Wizard!Reload, Wizard!Load, WizardInv, Wizard!TypeOK
  <2> QED BY <1>4, <2>2, <2>3, DraftStays DEF Wizard!Reload, WizardInv
<1>5. CASE Wizard!SaveProfile(t) \/ Wizard!Create(t) \/ Wizard!Submit(t)
  <2>1. Wizard!TypeOK'
    BY <1>5 DEF Wizard!SaveProfile, Wizard!Create, Wizard!Submit, WizardInv, Wizard!TypeOK
  <2> QED BY <1>5, <2>1, DraftStays DEF Wizard!SaveProfile, Wizard!Create, Wizard!Submit, WizardInv
<1> QED BY <1>1, <1>2, <1>3, <1>4, <1>5

\* The wizard comes up with what is stored.
LEMMA MeAnsweredKeepsDraft == ASSUME WizardInv, NEW t \in Tab, Wizard!MeAnswered(t) PROVE WizardInv'
<1> USE WizardCalls, WizardDrafts
<1>1. wizardScreen'[t] \in {"profile", "wizard", "status", "submitted"}
      /\ wizardScreen' \in [Tab -> {"loading", "error", "profile", "wizard", "status", "submitted"}]
  BY DEF Wizard!MeAnswered, WizardInv, Wizard!TypeOK
<1>2. CASE wizardProfile /\ wizardCampaign = "NONE"
  <2>1. Wizard!Mount(t) /\ UNCHANGED wizardTyped
    BY <1>2 DEF Wizard!MeAnswered
  <2>2. Wizard!LoadWizardState \in Wizard!Draft
    BY DEF WizardInv, Wizard!TypeOK
  <2>3. Wizard!TypeOK'
    BY <1>1, <2>1, <2>2, RecurringWizardAssumption
       DEF Wizard!MeAnswered, Wizard!Mount, WizardInv, Wizard!TypeOK, Wizard!WizardAssumption
  <2>4. Wizard!LoadWizardState' = Wizard!LoadWizardState
    BY <2>1, <2>2 DEF Wizard!Mount, Wizard!LoadWizardState
  <2>5. wizardDraft'[t] = Wizard!LoadWizardState
    BY <2>1 DEF Wizard!Mount, WizardInv, Wizard!TypeOK
  <2>6. DraftKept'
    BY <2>1, <2>4, <2>5 DEF DraftKept, OneTab, WizardInv
  <2> QED BY <2>3, <2>6 DEF WizardInv
<1>3. CASE ~(wizardProfile /\ wizardCampaign = "NONE")
  <2>1. UNCHANGED <<wizardStored, wizardDraft, wizardCommitted, wizardCoach, wizardRemaining, wizardTyped>>
    BY <1>3 DEF Wizard!MeAnswered
  <2>2. wizardScreen'[t] # "wizard" /\ \A s \in Tab \ {t} : wizardScreen'[s] = wizardScreen[s]
    BY <1>3 DEF Wizard!MeAnswered, WizardInv, Wizard!TypeOK
  <2>3. Wizard!TypeOK'
    BY <1>1, <2>1 DEF Wizard!MeAnswered, WizardInv, Wizard!TypeOK
  <2>4. DraftKept'
    BY <2>1, <2>2, DraftStays DEF WizardInv
  <2> QED BY <2>3, <2>4 DEF WizardInv
<1> QED BY <1>2, <1>3

\* A campaign that was created takes its draft with it.
LEMMA SavedKeepsDraft == ASSUME WizardInv, NEW t \in Tab, Wizard!Saved(t) PROVE WizardInv'
<1> USE WizardCalls, WizardDrafts
<1>1. wizardScreen'[t] = "loading" /\ (\A s \in Tab \ {t} : wizardScreen'[s] = wizardScreen[s])
      /\ wizardScreen' \in [Tab -> {"loading", "error", "profile", "wizard", "status", "submitted"}]
  BY DEF Wizard!Saved, Wizard!Load, WizardInv, Wizard!TypeOK
<1>2. Wizard!TypeOK'
  BY <1>1 DEF Wizard!Saved, Wizard!Load, WizardInv, Wizard!TypeOK
<1>3. CASE wizardCall[t].what = "create"
  <2>1. wizardStored' = NoDraft /\ wizardTyped' = Wizard!EmptyWizardState
    BY <1>3 DEF Wizard!Saved
  <2>2. wizardTyped' = Wizard!LoadWizardState'
    BY <2>1 DEF Wizard!LoadWizardState, Wizard!EmptyWizardState
  <2>3. OneTab => \A s \in Tab : wizardScreen'[s] = "loading"
    BY <1>1 DEF OneTab
  <2> QED BY <1>2, <2>2, <2>3 DEF WizardInv, DraftKept, OneTab
<1>4. CASE wizardCall[t].what # "create"
  <2>1. UNCHANGED <<wizardCommitted, wizardStored, wizardTyped, wizardDraft>>
    BY <1>4 DEF Wizard!Saved
  <2>2. DraftKept'
    BY <1>1, <2>1, DraftStays DEF WizardInv
  <2> QED BY <1>2, <2>2 DEF WizardInv
<1> QED BY <1>3, <1>4

\* The switch of the video is either way.
LEMMA FlipFits == \A e \in Wizard!Draft : [e EXCEPT !.videoInvalid = ~@] \in Wizard!Draft
<1> SUFFICES ASSUME NEW e \in Wizard!Draft PROVE [e EXCEPT !.videoInvalid = ~@] \in Wizard!Draft
  OBVIOUS
<1>1. \A b \in {TRUE, FALSE} : [e EXCEPT !.videoInvalid = b] \in Wizard!Draft
  BY DEF Wizard!Draft
<1>2. CASE e.videoInvalid
  <2>1. [e EXCEPT !.videoInvalid = ~@] = [e EXCEPT !.videoInvalid = FALSE]
    BY <1>2, Zenon
  <2> QED BY <1>1, <2>1
<1>3. CASE ~e.videoInvalid
  <2>1. [e EXCEPT !.videoInvalid = ~@] = [e EXCEPT !.videoInvalid = TRUE]
    BY <1>3, Zenon
  <2> QED BY <1>1, <2>1
<1> QED BY <1>2, <1>3

\* The student types, turns a page or takes over a text of the coach.
LEMMA TypingKeepsDraft ==
    ASSUME WizardInv, NEW t \in Tab, Wizard!Type(t) \/ Wizard!Turn(t) \/ Wizard!ApplyStory(t)
    PROVE  WizardInv'
<1>1. wizardDraft[t] \in Wizard!Draft
  BY DEF WizardInv, Wizard!TypeOK
<1> DEFINE d == wizardDraft[t]
<1>a. /\ d.step \in 1..3 /\ d.title \in Text \union {Empty, Offer} /\ d.story \in Text \union {Empty, Offer}
      /\ d.videoInvalid \in BOOLEAN
      /\ d = [step |-> d.step, title |-> d.title, story |-> d.story, videoInvalid |-> d.videoInvalid]
  BY <1>1 DEF Wizard!Draft
<1>2. /\ \A x \in Text \union {Empty, Offer} :
             [d EXCEPT !.title = x] \in Wizard!Draft /\ [d EXCEPT !.story = x] \in Wizard!Draft
      /\ [d EXCEPT !.videoInvalid = ~@] \in Wizard!Draft
      /\ d.step < 3 => [d EXCEPT !.step = @ + 1] \in Wizard!Draft
      /\ d.step > 1 => [d EXCEPT !.step = @ - 1] \in Wizard!Draft
  <2>1. \A x \in Text \union {Empty, Offer} :
             [d EXCEPT !.title = x] \in Wizard!Draft /\ [d EXCEPT !.story = x] \in Wizard!Draft
    BY <1>a DEF Wizard!Draft
  <2>2. [d EXCEPT !.videoInvalid = ~@] \in Wizard!Draft
    BY <1>1, FlipFits
  <2>3. d.step < 3 => [d EXCEPT !.step = @ + 1] \in Wizard!Draft
    BY <1>a DEF Wizard!Draft
  <2>4. d.step > 1 => [d EXCEPT !.step = @ - 1] \in Wizard!Draft
    BY <1>a DEF Wizard!Draft
  <2> QED BY <2>1, <2>2, <2>3, <2>4
<1>3. PICK e \in Wizard!Draft : Wizard!Edit(t, e)
  <2>1. CASE Wizard!Type(t)
    BY <1>2, <2>1 DEF Wizard!Type
  <2>2. CASE Wizard!Turn(t)
    BY <1>2, <2>2 DEF Wizard!Turn
  <2>3. CASE Wizard!ApplyStory(t)
    BY <1>2, <2>3 DEF Wizard!ApplyStory
  <2> QED BY <2>1, <2>2, <2>3
<1>4. UNCHANGED <<wizardProfile, wizardCampaign, wizardBudget, wizardScreen, wizardCommitted, wizardCall, wizardReloads>>
  BY DEF Wizard!Type, Wizard!Turn, Wizard!ApplyStory
<1>5. /\ wizardCoach' \in [Tab -> {"idle", "asking", "offered"}]
      /\ wizardRemaining' \in [Tab -> 0..MaxBudget]
  BY RecurringWizardAssumption
     DEF Wizard!Type, Wizard!Turn, Wizard!ApplyStory, WizardInv, Wizard!TypeOK, Wizard!WizardAssumption
<1>6. /\ wizardStored' \in Wizard!Draft \union {NoDraft}
      /\ wizardDraft' \in [Tab -> Wizard!Draft]
      /\ wizardTyped' \in Wizard!Draft
      /\ DraftKept'
  BY <1>3, <1>4, EditKeeps
<1> QED BY <1>4, <1>5, <1>6 DEF WizardInv, Wizard!TypeOK

\* The panel of the coach leaves the text of the student alone.
LEMMA PanelKeepsDraft ==
    ASSUME WizardInv, NEW t \in Tab, Wizard!BudgetKnown(t) \/ Wizard!Generate(t) \/ Wizard!CoachAnswered(t)
    PROVE  WizardInv'
<1>1. /\ wizardCoach' \in [Tab -> {"idle", "asking", "offered"}]
      /\ wizardRemaining' \in [Tab -> 0..MaxBudget]
      /\ wizardBudget' \in 0..MaxBudget
  BY RecurringWizardAssumption
     DEF Wizard!BudgetKnown, Wizard!Generate, Wizard!CoachAnswered, WizardInv, Wizard!TypeOK, Wizard!WizardAssumption
<1>2. UNCHANGED <<wizardProfile, wizardCampaign, wizardStored, wizardScreen, wizardDraft, wizardCommitted,
                  wizardCall, wizardTyped, wizardReloads>>
  BY DEF Wizard!BudgetKnown, Wizard!Generate, Wizard!CoachAnswered
<1>3. DraftKept'
  BY <1>2, DraftStays DEF WizardInv
<1> QED BY <1>1, <1>2, <1>3 DEF WizardInv, Wizard!TypeOK

LEMMA WizardNext == ASSUME WizardInv, Wizard!Next PROVE WizardInv'
<1>1. PICK t \in Tab :
        \/ Wizard!Answer(t) \/ Wizard!TryAgain(t) \/ Wizard!Reload(t)
        \/ Wizard!SaveProfile(t) \/ Wizard!Type(t) \/ Wizard!Turn(t) \/ Wizard!Create(t) \/ Wizard!Submit(t)
        \/ Wizard!BudgetKnown(t) \/ Wizard!Generate(t) \/ Wizard!CoachAnswered(t) \/ Wizard!ApplyStory(t)
  BY DEF Wizard!Next
<1> QED BY <1>1, CallsKeepDraft, MeAnsweredKeepsDraft, SavedKeepsDraft, TypingKeepsDraft, PanelKeepsDraft
        DEF Wizard!Answer

LEMMA WizardInit == Wizard!Init => WizardInv
<1> SUFFICES ASSUME Wizard!Init PROVE WizardInv
  OBVIOUS
<1>1. Wizard!TypeOK
  <2>1. /\ wizardCall \in [Tab -> [what : {"NONE", "me", "profile", "create", "submit"},
                                   at : {"NONE", "sent", "done"}]]
    BY WizardCalls DEF Wizard!Init
  <2>2. wizardDraft \in [Tab -> Wizard!Draft] /\ wizardTyped \in Wizard!Draft
    BY WizardDrafts DEF Wizard!Init
  <2>3. /\ wizardBudget \in 0..MaxBudget /\ wizardReloads \in 0..MaxReloads
        /\ wizardRemaining \in [Tab -> 0..MaxBudget]
    BY RecurringWizardAssumption DEF Wizard!Init, Wizard!WizardAssumption
  <2>4. /\ wizardProfile \in BOOLEAN
        /\ wizardCommitted \in [Tab -> BOOLEAN]
        /\ wizardCampaign \in {"NONE", "DRAFT", "PENDING_VERIFICATION"}
        /\ wizardStored \in Wizard!Draft \union {NoDraft}
        /\ wizardScreen \in [Tab -> {"loading", "error", "profile", "wizard", "status", "submitted"}]
        /\ wizardCoach \in [Tab -> {"idle", "asking", "offered"}]
    BY DEF Wizard!Init
  <2> QED BY <2>1, <2>2, <2>3, <2>4 DEF Wizard!TypeOK
<1>2. DraftKept
  BY DEF Wizard!Init, DraftKept, Wizard!LoadWizardState
<1> QED BY <1>1, <1>2 DEF WizardInv

\* With one tab, an unfinished wizard shows what the student last made of it,
\* through reloads, failed calls and answers of the coach (saveWizardState,
\* loadWizardState, create).
THEOREM DraftsAlwaysSurvive == AllSpec => []DraftsSurvive
<1>1. AllInit => WizardInv
  BY WizardInit DEF AllInit
<1>2. WizardInv /\ [AllNext]_allVars => WizardInv'
  <2> SUFFICES ASSUME WizardInv, [AllNext]_allVars PROVE WizardInv'
    OBVIOUS
  <2>1. CASE Wizard!Next
    BY <2>1, WizardNext
  <2>2. CASE UNCHANGED wizard
    BY <2>2 DEF wizard, WizardInv, Wizard!TypeOK, DraftKept, OneTab, Wizard!LoadWizardState
  <2> QED BY <2>1, <2>2 DEF AllNext, OtherParts, allVars
<1>3. WizardInv => DraftsSurvive
  BY DEF WizardInv, DraftKept, OneTab, DraftsSurvive, Wizard!ProgressSurvives
<1> QED BY <1>1, <1>2, <1>3, PTL DEF AllSpec
=============================================================================
