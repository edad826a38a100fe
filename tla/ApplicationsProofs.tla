--------------------------- MODULE ApplicationsProofs ---------------------------
(***************************************************************************)
(* Proofs about what MCApplications puts together.                         *)
(*                                                                         *)
(* ScholarshipReview: for any number of requests at the same time,         *)
(* applications, reviewers, cycles and forms, and for any aggregator whose *)
(* values are in 0..100.  The inductive invariant is TypeOK with what the  *)
(* handlers remember: a decision on its way names applications that exist, *)
(* no more of them than some cycle has places, and a renewal on its way    *)
(* follows a year that exists.  In the part of the reviews, where one      *)
(* handler runs at a time, a decision on its way is also the one that the  *)
(* present ranking gives, and a consensus on its way that of the scores.   *)
(*                                                                         *)
(* ApplicationForm: for any fields, answers and number of submissions.     *)
(*                                                                         *)
(* Coach: for any finite number of requests, any texts and any models.     *)
(* What is stored was ranked when it was written, and while requests do    *)
(* not overlap, what the one request has read is what is stored.           *)
(***************************************************************************)
EXTENDS MCApplications, Sums, SequenceTheorems

\* The years of a program have no gap, and a renewal continues them.
YearsFit ==
    /\ \E n \in 1 .. MaxYear : DOMAIN cycles = 1 .. n
    /\ \A h \in Handler : task[h].step = "createCycle" =>
          /\ task[h].year \in 1 .. MaxYear
          /\ task[h].year - 1 \in DOMAIN cycles

\* A decision on its way was made within the places of a cycle.
DecisionsFit ==
    \A h \in Handler : task[h].step = "award" =>
        /\ task[h].winners \subseteq DOMAIN app
        /\ \E y \in DOMAIN cycles : Cardinality(task[h].winners) <= Places(cycles[y])

IInv == TypeOK /\ YearsFit /\ DecisionsFit

USE DEF Awarded

-----------------------------------------------------------------------------
(* What a handler remembers, by the step it is in.                         *)

\* The step of a task tells what else it holds.
LEMMA TaskKinds ==
    ASSUME NEW t \in Tasks
    PROVE  /\ t.step = "addReviewer" => t.reviewer \in Reviewer
           /\ t.step = "aggregate" => t.of \in Application
           /\ t.step = "storeConsensus" => t.of \in Application /\ t.consensus \in 0 .. 100
           /\ t.step = "award" => t.winners \in SUBSET Application
           /\ t.step = "storeStatus" => t.of \in Application /\ t.to \in ScholarStatus
           /\ t.step = "createCycle" => t.year \in Nat /\ t.plan \in Plan
  BY DEF Tasks, Idle

\* A task that was replaced is the new one, the others are what they were.
LEMMA OneContinues ==
    ASSUME task \in [Handler -> Tasks], NEW h \in Handler, NEW t \in Tasks, Continue(h, t)
    PROVE  /\ task' \in [Handler -> Tasks]
           /\ \A i \in Handler : task'[i] = IF i = h THEN t ELSE task[i]
  BY DEF Continue

-----------------------------------------------------------------------------
(* Ranking and counting.                                                   *)

\* A cycle's places fit its slots and its budget.
LEMMA PlacesFit ==
    ASSUME NEW plan \in Plan, NEW n \in Nat, n > 0, n <= Places(plan)
    PROVE  n <= plan.slots /\ n * plan.award <= plan.budget
<1> DEFINE b == plan.budget  a == plan.award  s == plan.slots
<1>1. a \in Nat /\ b \in Nat /\ s \in Nat
  BY DEF Plan
<1>2. a > 0
  BY <1>1 DEF Places
<1>3. n <= b \div a /\ n <= s
  BY <1>1, <1>2 DEF Places
<1>4. (b \div a) * a <= b /\ b \div a \in Nat
  BY <1>1, <1>2
<1>5. n * a <= (b \div a) * a
  <2> DEFINE q == b \div a
  <2>1. q \in Nat /\ n <= q
    BY <1>3, <1>4
  <2> HIDE DEF q
  <2>2. q * a - n * a = (q - n) * a
    BY <2>1, <1>1
  <2>3. (q - n) * a >= 0
    BY <2>1, <1>1
  <2> QED BY <2>1, <2>2, <2>3, <1>1 DEF q
<1> QED BY <1>1, <1>3, <1>4, <1>5

\* The ranking is a strict total order on the applications.
LEMMA AheadOrders ==
    ASSUME TypeOK
    PROVE  \A a, b, d \in DOMAIN app :
              /\ ~Ahead(a, a)
              /\ a # b => Ahead(a, b) \/ Ahead(b, a)
              /\ Ahead(a, b) /\ Ahead(b, d) => Ahead(a, d)
<1> SUFFICES ASSUME NEW a \in DOMAIN app, NEW b \in DOMAIN app, NEW d \in DOMAIN app
             PROVE  /\ ~Ahead(a, a)
                    /\ a # b => Ahead(a, b) \/ Ahead(b, a)
                    /\ Ahead(a, b) /\ Ahead(b, d) => Ahead(a, d)
  OBVIOUS
<1> DEFINE score(x) == app[x].consensus
<1>1. \A x \in DOMAIN app : x \in Int /\ score(x) \in Int
  BY ReviewAssumption DEF TypeOK
<1>2. \A x, y \in DOMAIN app :
         Ahead(x, y) <=> score(x) > score(y) \/ (score(x) = score(y) /\ x < y)
  BY DEF Ahead
<1> HIDE DEF score
<1> QED BY <1>1, <1>2

\* Nobody wins beyond the places: the last of the winners has all the others
\* ahead, and fewer than the places.
LEMMA WinnersFit ==
    ASSUME TypeOK, NEW plan \in Plan, NEW C \in SUBSET DOMAIN app
    PROVE  /\ Winners(C, plan) \subseteq C
           /\ Cardinality(Winners(C, plan)) <= Places(plan)
<1> DEFINE before(a) == {b \in C : Ahead(b, a)}
           rank(a) == Cardinality(before(a))
           P == Places(plan)
           W == Winners(C, plan)
<1>1. W = {a \in C : rank(a) < P}
  BY DEF Winners
<1>2. P \in Nat
  BY DEF Places, Plan
<1>3. IsFiniteSet(C)
  BY ReviewAssumption, FS_Subset DEF TypeOK
<1>4. \A a \in C : IsFiniteSet(before(a)) /\ rank(a) \in Nat
  BY <1>3, FS_Subset, FS_CardinalityType
<1>5. IsFiniteSet(W) /\ Cardinality(W) \in Nat
  BY <1>1, <1>3, FS_Subset, FS_CardinalityType
<1> HIDE DEF rank, before, P, W
<1>6. CASE W = {}
  BY <1>6, <1>2, FS_EmptySet DEF W, P
<1>7. CASE W # {}
  <2> DEFINE gaps == {P - rank(w) : w \in W}
  <2>1. gaps \in SUBSET Nat /\ gaps # {}
    BY <1>1, <1>2, <1>4, <1>7
  <2>2. PICK g \in gaps : \A k \in gaps : g <= k
    BY <2>1, LeastNatural
  <2>3. PICK m \in W : g = P - rank(m)
    BY <2>2
  <2>4. ASSUME NEW w \in W PROVE rank(w) <= rank(m)
    <3>1. g <= P - rank(w)
      BY <2>2
    <3>2. rank(w) \in Nat /\ rank(m) \in Nat
      BY <1>1, <1>4
    <3> QED BY <3>1, <3>2, <2>3, <1>2
  <2>5. \A w \in W \ {m} : w \in before(m)
    <3> SUFFICES ASSUME NEW w \in W \ {m}, w \notin before(m)
                 PROVE  FALSE
      OBVIOUS
    <3>1. w \in C /\ m \in C /\ w # m
      BY <1>1
    <3>2. Ahead(m, w)
      BY <3>1, AheadOrders DEF before
    <3>3. before(m) \cup {m} \subseteq before(w) /\ m \notin before(m)
      BY <3>1, <3>2, AheadOrders DEF before
    <3>4. Cardinality(before(m) \cup {m}) = rank(m) + 1
      BY <3>1, <3>3, <1>4, FS_AddElement DEF rank
    <3>5. Cardinality(before(m) \cup {m}) <= rank(w)
      BY <3>1, <3>3, <1>4, FS_Subset DEF rank
    <3> QED BY <3>1, <3>4, <3>5, <2>4, <1>4
  <2>6. Cardinality(W \ {m}) <= rank(m)
    BY <2>5, <1>1, <1>4, FS_Subset DEF rank
  <2>7. Cardinality(W \ {m}) = Cardinality(W) - 1
    BY <1>5, FS_RemoveElement
  <2>8. rank(m) < P /\ rank(m) \in Nat
    BY <1>1, <1>4
  <2> QED BY <1>1, <1>2, <1>5, <2>6, <2>7, <2>8 DEF W, P
<1> QED BY <1>6, <1>7
-----------------------------------------------------------------------------
(* The invariant.                                                          *)

LEMMA InitInvariant == Init => IInv
<1> SUFFICES ASSUME Init PROVE IInv
  OBVIOUS
<1>1. \A h \in Handler : task[h] = Idle /\ task[h].step = "idle"
  BY DEF Init, Idle
<1>2. TypeOK
  BY ReviewAssumption DEF Init, TypeOK, Tasks, Sheet, Plan
<1>3. YearsFit
  <2>1. DOMAIN cycles = 1 .. 1 /\ 1 \in 1 .. MaxYear
    BY ReviewAssumption DEF Init
  <2> QED BY <1>1, <2>1 DEF YearsFit
<1>4. DecisionsFit
  BY <1>1 DEF DecisionsFit
<1> QED BY <1>2, <1>3, <1>4 DEF IInv

\* The last year is the last one.
LEMMA LastYearIsLast ==
    ASSUME NEW n \in 1 .. MaxYear, DOMAIN cycles = 1 .. n
    PROVE  LastYear = n
<1>1. n \in DOMAIN cycles /\ \A z \in DOMAIN cycles : z <= n
  BY ReviewAssumption
<1>2. \A y \in DOMAIN cycles : (\A z \in DOMAIN cycles : z <= y) => y = n
  BY <1>1, ReviewAssumption
<1> QED BY <1>1, <1>2 DEF LastYear

\* Every request keeps the types.
LEMMA StepKeepsTypes ==
    ASSUME IInv, NEW h \in Handler, Serve(h)
    PROVE  TypeOK'
<1> USE DEF IInv
<1>t. TypeOK /\ task[h] \in Tasks /\ Idle \in Tasks
  BY DEF TypeOK, Tasks
<1>k. /\ task[h].step = "addReviewer" => task[h].reviewer \in Reviewer
      /\ task[h].step = "aggregate" => task[h].of \in Application
      /\ task[h].step = "storeConsensus" =>
            task[h].of \in Application /\ task[h].consensus \in 0 .. 100
      /\ task[h].step = "award" => task[h].winners \in SUBSET Application
      /\ task[h].step = "storeStatus" => task[h].of \in Application /\ task[h].to \in ScholarStatus
      /\ task[h].step = "createCycle" => task[h].year \in Nat /\ task[h].plan \in Plan
  BY <1>t, TaskKinds
<1>1. ASSUME NEW weights \in Forms, SetForm(h, weights) PROVE TypeOK'
  BY <1>1, <1>t DEF SetForm, TypeOK
<1>2. ASSUME NEW a \in Application, CreateApplicationSlot(h, a) PROVE TypeOK'
  <2>1. /\ DOMAIN app' = DOMAIN app \cup {a}
        /\ app' \in [DOMAIN app' -> [status : AppStatus, consensus : 0 .. 100]]
    BY <1>2, <1>t DEF CreateApplicationSlot, With, TypeOK, AppStatus
  <2> QED BY <1>2, <1>t, <2>1 DEF CreateApplicationSlot, TypeOK
<1>3. ASSUME NEW a \in Application, SubmitApplication(h, a) PROVE TypeOK'
  <2>1. /\ DOMAIN app' = DOMAIN app
        /\ app' \in [DOMAIN app' -> [status : AppStatus, consensus : 0 .. 100]]
    BY <1>3, <1>t DEF SubmitApplication, TypeOK, AppStatus
  <2> QED BY <1>3, <1>t, <2>1 DEF SubmitApplication, TypeOK
<1>4. ASSUME NEW v \in Reviewer, AddReviewer(h, v) PROVE TypeOK'
  <2>1. [step |-> "addReviewer", reviewer |-> v] \in Tasks
    BY DEF Tasks
  <2> QED BY <1>4, <1>t, <2>1, OneContinues DEF AddReviewer, TypeOK
<1>5. CASE CreateReviewer(h)
  BY <1>5, <1>t, <1>k, OneContinues DEF CreateReviewer, TypeOK
<1>6. ASSUME NEW a \in Application, NEW v \in Reviewer, NEW fs \in SUBSET Field,
             NEW given \in [fs -> Score], ScoreApplication(h, a, v, given)
      PROVE  TypeOK'
  <2>1. [step |-> "aggregate", of |-> a] \in Tasks
    BY DEF Tasks
  <2>2. scores' \in [Application -> Sheet]
    <3> DEFINE sheet == [vf \in Reviewer \X Field |->
                            IF vf[1] = v /\ vf[2] \in DOMAIN given THEN given[vf[2]]
                            ELSE scores[a][vf]]
    <3>1. sheet \in Sheet
      BY <1>t DEF TypeOK, Sheet
    <3>2. scores' = [scores EXCEPT ![a] = sheet]
      BY <1>6 DEF ScoreApplication
    <3> HIDE DEF sheet
    <3> QED BY <3>1, <3>2, <1>t DEF TypeOK
  <2> QED BY <1>6, <1>t, <2>1, <2>2, OneContinues DEF ScoreApplication, TypeOK
<1>7. CASE ReadScores(h)
  <2> DEFINE a == task[h].of  c == Aggregate(form, scores[a])
  <2>1. a \in Application /\ c \in 0 .. 100
    BY <1>7, <1>t, <1>k, AggregateAssumption DEF ReadScores, TypeOK
  <2>2. Continue(h, [step |-> "storeConsensus", of |-> a, consensus |-> c])
    BY <1>7 DEF ReadScores
  <2> HIDE DEF a, c
  <2>3. [step |-> "storeConsensus", of |-> a, consensus |-> c] \in Tasks
    BY <2>1 DEF Tasks
  <2> QED BY <1>7, <1>t, <2>2, <2>3, OneContinues DEF ReadScores, TypeOK
<1>8. CASE StoreConsensus(h)
  <2>1. /\ DOMAIN app' = DOMAIN app
        /\ app' \in [DOMAIN app' -> [status : AppStatus, consensus : 0 .. 100]]
    BY <1>8, <1>t, <1>k DEF StoreConsensus, TypeOK, AppStatus
  <2> QED BY <1>8, <1>t, <2>1, OneContinues DEF StoreConsensus, TypeOK
<1>9. ASSUME NEW year \in 1 .. MaxYear, Decide(h, year) PROVE TypeOK'
  <2> DEFINE W == Winners(DOMAIN app \ Awarded, cycles[year])
  <2>1. W \in SUBSET Application
    BY <1>t DEF TypeOK, Winners
  <2>2. Continue(h, [step |-> "award", winners |-> W])
    BY <1>9 DEF Decide
  <2> HIDE DEF W
  <2>3. [step |-> "award", winners |-> W] \in Tasks
    BY <2>1 DEF Tasks
  <2> QED BY <1>9, <1>t, <2>2, <2>3, OneContinues DEF Decide, TypeOK
<1>10. CASE AwardWinners(h)
  <2> DEFINE winners == task[h].winners
  <2>1. winners \subseteq DOMAIN app
    BY <1>10 DEF AwardWinners, DecisionsFit
  <2>2. /\ DOMAIN app' = DOMAIN app
        /\ app' \in [DOMAIN app' -> [status : AppStatus, consensus : 0 .. 100]]
    BY <1>10, <1>t DEF AwardWinners, TypeOK, AppStatus
  <2>3. /\ Awarded' \subseteq Awarded \cup winners
        /\ scholar' \in [Awarded' -> [status : ScholarStatus, alumni : BOOLEAN,
                                      withdrawnAt : BOOLEAN]]
    <3> DEFINE Row == [status : ScholarStatus, alumni : BOOLEAN, withdrawnAt : BOOLEAN]
               new == [status |-> "AWARDED", alumni |-> FALSE, withdrawnAt |-> FALSE]
    <3>1. new \in Row
      BY DEF ScholarStatus
    <3>2. \/ scholar' = scholar
          \/ scholar' = [a \in Awarded \cup winners |->
                            IF a \in winners THEN new ELSE scholar[a]]
      BY <1>10 DEF AwardWinners
    <3>3. scholar \in [Awarded -> Row]
      BY <1>t DEF TypeOK
    <3> HIDE DEF Row, new, winners
    <3>4. Awarded' \subseteq Awarded \cup winners /\ scholar' \in [Awarded' -> Row]
      BY <3>1, <3>2, <3>3
    <3> QED BY <3>4 DEF Row
  <2> QED BY <1>10, <1>t, <2>1, <2>2, <2>3, OneContinues DEF AwardWinners, TypeOK
<1>11. ASSUME NEW a \in Application, NEW event \in DOMAIN Transition,
              SetScholarStatus(h, a, event)
       PROVE  TypeOK'
  <2> DEFINE to == Transition[event].to
  <2>1. to \in ScholarStatus
    BY DEF Transition, ScholarStatus
  <2>2. Continue(h, [step |-> "storeStatus", of |-> a, to |-> to])
    BY <1>11 DEF SetScholarStatus
  <2> HIDE DEF to
  <2>3. [step |-> "storeStatus", of |-> a, to |-> to] \in Tasks
    BY <2>1 DEF Tasks
  <2> QED BY <1>11, <1>t, <2>2, <2>3, OneContinues DEF SetScholarStatus, TypeOK
<1>12. CASE StoreStatus(h)
  <2> DEFINE row(x) == [status |-> task[h].to,
                        alumni |-> scholar[x].alumni \/ JoinsAlumni(task[h].to),
                        withdrawnAt |-> scholar[x].withdrawnAt \/ task[h].to = "WITHDRAWN"]
  <2>1. /\ DOMAIN scholar' = DOMAIN scholar
        /\ \A x \in DOMAIN scholar : scholar'[x] = scholar[x] \/ scholar'[x] = row(x)
    BY <1>12, <1>t DEF StoreStatus, TypeOK
  <2>2. \A x \in DOMAIN scholar :
           row(x) \in [status : ScholarStatus, alumni : BOOLEAN, withdrawnAt : BOOLEAN]
    BY <1>12, <1>k DEF StoreStatus, JoinsAlumni
  <2> HIDE DEF row
  <2>3. scholar' = [x \in DOMAIN scholar |-> scholar'[x]]
    BY <1>12, <1>t DEF StoreStatus, TypeOK
  <2>4. scholar' \in [DOMAIN scholar' -> [status : ScholarStatus, alumni : BOOLEAN,
                                          withdrawnAt : BOOLEAN]]
    BY <1>t, <2>1, <2>2, <2>3 DEF TypeOK
  <2> QED BY <1>12, <1>t, <2>1, <2>4, OneContinues DEF StoreStatus, TypeOK
<1>13. ASSUME NEW plan \in Plans \cup {cycles[LastYear]}, Renew(h, plan) PROVE TypeOK'
  <2>1. PICK n \in 1 .. MaxYear : DOMAIN cycles = 1 .. n
    BY DEF YearsFit
  <2>2. LastYear = n
    BY <2>1, LastYearIsLast
  <2>3. plan \in Plan /\ LastYear + 1 \in Nat
    BY <2>1, <2>2, <1>t, ReviewAssumption DEF TypeOK
  <2>4. [step |-> "createCycle", year |-> LastYear + 1, plan |-> plan] \in Tasks
    BY <2>3 DEF Tasks
  <2> QED BY <1>13, <1>t, <2>4, OneContinues DEF Renew, TypeOK
<1>14. CASE CreateCycle(h)
  <2>1. task[h].year \in 1 .. MaxYear
    BY <1>14 DEF CreateCycle, YearsFit
  <2>2. DOMAIN cycles' \subseteq 1 .. MaxYear /\ cycles' \in [DOMAIN cycles' -> Plan]
    BY <1>14, <1>t, <1>k, <2>1 DEF CreateCycle, With, TypeOK
  <2> QED BY <1>14, <1>t, <2>2, OneContinues DEF CreateCycle, TypeOK
<1> QED BY <1>1, <1>2, <1>3, <1>4, <1>5, <1>6, <1>7, <1>8, <1>9, <1>10, <1>11, <1>12,
           <1>13, <1>14 DEF Serve
\* What a step leaves alone, and which steps start what.
LEMMA StepFrame ==
    ASSUME IInv, NEW h \in Handler, Serve(h)
    PROVE  /\ \A i \in Handler \ {h} : task'[i] = task[i]
           /\ DOMAIN app \subseteq DOMAIN app'
           /\ \A y \in DOMAIN cycles : y \in DOMAIN cycles' /\ cycles'[y] = cycles[y]
           /\ scholar' = scholar \/ AwardWinners(h) \/ StoreStatus(h)
           /\ cycles' = cycles \/ CreateCycle(h)
           /\ task'[h].step = "award" => \E year \in 1 .. MaxYear : Decide(h, year)
           /\ task'[h].step = "createCycle" =>
                 \E plan \in Plans \cup {cycles[LastYear]} : Renew(h, plan)
<1>t. TypeOK /\ task \in [Handler -> Tasks] /\ Idle.step = "idle"
  BY DEF IInv, TypeOK, Idle
<1> DEFINE Frame ==
             /\ \A i \in Handler \ {h} : task'[i] = task[i]
             /\ DOMAIN app \subseteq DOMAIN app'
             /\ \A y \in DOMAIN cycles : y \in DOMAIN cycles' /\ cycles'[y] = cycles[y]
           Starts(kind) == task'[h].step = kind
<1>1. ASSUME NEW weights \in Forms, SetForm(h, weights)
      PROVE  Frame /\ ~Starts("award") /\ ~Starts("createCycle")
                   /\ scholar' = scholar /\ cycles' = cycles
  BY <1>1, <1>t DEF SetForm
<1>2. ASSUME NEW a \in Application, CreateApplicationSlot(h, a) \/ SubmitApplication(h, a)
      PROVE  Frame /\ ~Starts("award") /\ ~Starts("createCycle")
                   /\ scholar' = scholar /\ cycles' = cycles
  BY <1>2, <1>t DEF CreateApplicationSlot, SubmitApplication, With
<1>3. ASSUME NEW v \in Reviewer, AddReviewer(h, v)
      PROVE  Frame /\ ~Starts("award") /\ ~Starts("createCycle")
                   /\ scholar' = scholar /\ cycles' = cycles
  BY <1>3, <1>t DEF AddReviewer, Continue
<1>4. ASSUME NEW a \in Application, NEW v \in Reviewer, NEW fs \in SUBSET Field,
             NEW given \in [fs -> Score], ScoreApplication(h, a, v, given)
      PROVE  Frame /\ ~Starts("award") /\ ~Starts("createCycle")
                   /\ scholar' = scholar /\ cycles' = cycles
  BY <1>4, <1>t DEF ScoreApplication, Continue
<1>5. ASSUME CreateReviewer(h) \/ ReadScores(h) \/ StoreConsensus(h)
      PROVE  Frame /\ ~Starts("award") /\ ~Starts("createCycle")
                   /\ scholar' = scholar /\ cycles' = cycles
  BY <1>5, <1>t DEF CreateReviewer, ReadScores, StoreConsensus, Continue
<1>6. ASSUME NEW year \in 1 .. MaxYear, Decide(h, year)
      PROVE  Frame /\ ~Starts("createCycle") /\ scholar' = scholar /\ cycles' = cycles
  BY <1>6, <1>t DEF Decide, Continue
<1>7. ASSUME AwardWinners(h) \/ StoreStatus(h)
      PROVE  Frame /\ ~Starts("award") /\ ~Starts("createCycle") /\ cycles' = cycles
  BY <1>7, <1>t DEF AwardWinners, StoreStatus, Continue
<1>8. ASSUME NEW a \in Application, NEW event \in DOMAIN Transition,
             SetScholarStatus(h, a, event)
      PROVE  Frame /\ ~Starts("award") /\ ~Starts("createCycle")
                   /\ scholar' = scholar /\ cycles' = cycles
  BY <1>8, <1>t DEF SetScholarStatus, Continue
<1>9. ASSUME NEW plan \in Plans \cup {cycles[LastYear]}, Renew(h, plan)
      PROVE  Frame /\ ~Starts("award") /\ scholar' = scholar /\ cycles' = cycles
  BY <1>9, <1>t DEF Renew, Continue
<1>10. ASSUME CreateCycle(h)
       PROVE  Frame /\ ~Starts("award") /\ ~Starts("createCycle") /\ scholar' = scholar
  BY <1>10, <1>t DEF CreateCycle, With, Continue
<1> HIDE DEF Frame, Starts
<1>11. Frame /\ (scholar' = scholar \/ AwardWinners(h) \/ StoreStatus(h))
             /\ (cycles' = cycles \/ CreateCycle(h))
             /\ (Starts("award") => \E year \in 1 .. MaxYear : Decide(h, year))
             /\ (Starts("createCycle") =>
                   \E plan \in Plans \cup {cycles[LastYear]} : Renew(h, plan))
  BY <1>1, <1>2, <1>3, <1>4, <1>5, <1>6, <1>7, <1>8, <1>9, <1>10, Zenon DEF Serve
<1> QED BY <1>11 DEF Frame, Starts

\* Every request keeps the years without a gap.
LEMMA StepKeepsYears ==
    ASSUME IInv, NEW h \in Handler, Serve(h)
    PROVE  YearsFit'
<1>t. TypeOK /\ TypeOK' /\ YearsFit
  BY StepKeepsTypes DEF IInv
<1>n. PICK n \in 1 .. MaxYear : DOMAIN cycles = 1 .. n
  BY <1>t DEF YearsFit
<1>1. \E m \in 1 .. MaxYear : DOMAIN cycles' = 1 .. m
  <2>1. CASE cycles' = cycles
    BY <2>1, <1>n
  <2>2. CASE CreateCycle(h)
    <3> DEFINE year == task[h].year
    <3>1. year \in 1 .. MaxYear /\ year - 1 \in DOMAIN cycles
      BY <1>t, <2>2 DEF CreateCycle, YearsFit
    <3>2. DOMAIN cycles' = DOMAIN cycles \cup {year}
      BY <2>2 DEF CreateCycle, With
    <3>3. CASE year <= n
      BY <3>3, <1>n, <3>1, <3>2
    <3>4. CASE year = n + 1
      <4>1. 1 .. n \cup {n + 1} = 1 .. (n + 1)
        BY <1>n, ReviewAssumption
      <4> QED BY <3>4, <4>1, <1>n, <3>1, <3>2
    <3> QED BY <3>3, <3>4, <1>n, <3>1, ReviewAssumption
  <2> QED BY <2>1, <2>2, StepFrame
<1>2. ASSUME NEW i \in Handler, task'[i].step = "createCycle"
      PROVE  task'[i].year \in 1 .. MaxYear /\ task'[i].year - 1 \in DOMAIN cycles'
  <2>1. CASE i # h
    BY <1>2, <2>1, <1>t, StepFrame DEF YearsFit
  <2>2. CASE i = h
    <3>1. PICK plan \in Plans \cup {cycles[LastYear]} : Renew(h, plan)
      BY <1>2, <2>2, StepFrame
    <3>2. LastYear = n
      BY <1>n, LastYearIsLast
    <3>3. task'[h].year = n + 1 /\ n < MaxYear
      BY <3>1, <3>2, <1>t DEF Renew, Continue, TypeOK
    <3> QED BY <2>2, <3>3, <1>n, StepFrame, ReviewAssumption
  <2> QED BY <2>1, <2>2
<1> QED BY <1>1, <1>2 DEF YearsFit

\* Every request keeps the decisions on their way within the places.
LEMMA StepKeepsDecisions ==
    ASSUME IInv, NEW h \in Handler, Serve(h)
    PROVE  DecisionsFit'
<1>t. TypeOK /\ DecisionsFit
  BY DEF IInv
<1>1. SUFFICES ASSUME NEW i \in Handler, task'[i].step = "award"
               PROVE  /\ task'[i].winners \subseteq DOMAIN app'
                      /\ \E y \in DOMAIN cycles' :
                            Cardinality(task'[i].winners) <= Places(cycles'[y])
  BY DEF DecisionsFit
<1>2. CASE i # h
  BY <1>1, <1>2, <1>t, StepFrame DEF DecisionsFit
<1>3. CASE i = h
  <2>1. PICK year \in 1 .. MaxYear : Decide(h, year)
    BY <1>1, <1>3, StepFrame
  <2> DEFINE C == DOMAIN app \ Awarded
             W == Winners(C, cycles[year])
  <2>2. year \in DOMAIN cycles /\ cycles[year] \in Plan /\ task'[h].winners = W
    BY <2>1, <1>t DEF Decide, Continue, TypeOK
  <2>3. W \subseteq C /\ Cardinality(W) <= Places(cycles[year])
    BY <2>2, <1>t, WinnersFit
  <2> HIDE DEF W
  <2> QED BY <1>3, <2>2, <2>3, StepFrame
<1> QED BY <1>2, <1>3

\* The invariant is inductive.
LEMMA StepInvariant == IInv /\ [Next]_vars => IInv'
<1>1. ASSUME IInv, NEW h \in Handler, Serve(h) PROVE IInv'
  BY <1>1, StepKeepsTypes, StepKeepsYears, StepKeepsDecisions DEF IInv
<1>2. ASSUME IInv, UNCHANGED vars PROVE IInv'
  BY <1>2 DEF vars, IInv, TypeOK, YearsFit, DecisionsFit
<1> QED BY <1>1, <1>2 DEF Next

\* The inductive invariant of the review process.
THEOREM ReviewInvariant == Spec => []IInv
  BY InitInvariant, StepInvariant, PTL DEF Spec

\* Applications, scores, cycles, scholars and what the handlers remember of
\* them keep their types.
THEOREM ReviewTypes == Spec => []TypeOK
<1>1. IInv => TypeOK
  BY DEF IInv
<1> QED BY <1>1, ReviewInvariant, PTL

-----------------------------------------------------------------------------
(* Decisions, cycles and scholars.                                         *)

\* One decision stays within the slots and the budget of one cycle, however
\* many decisions and renewals run at the same time (decide).
THEOREM DecisionsAlwaysFit == Spec => DecisionFits
<1> DEFINE number == Cardinality(Awarded' \ Awarded)
           A == number > 0 => \E y \in DOMAIN cycles :
                   number <= cycles[y].slots /\ number * cycles[y].award <= cycles[y].budget
<1>1. ASSUME IInv, NEW h \in Handler, Serve(h) PROVE A
  <2>1. CASE Awarded' = Awarded
    BY <2>1, FS_EmptySet
  <2>2. CASE AwardWinners(h)
    <3> DEFINE W == task[h].winners
    <3>1. W \subseteq DOMAIN app /\ \E y \in DOMAIN cycles : Cardinality(W) <= Places(cycles[y])
      BY <1>1, <2>2 DEF IInv, DecisionsFit, AwardWinners
    <3>2. PICK y \in DOMAIN cycles : Cardinality(W) <= Places(cycles[y])
      BY <3>1
    <3>3. cycles[y] \in Plan
      BY <1>1 DEF IInv, TypeOK
    <3>4. IsFiniteSet(W)
      BY <1>1, <3>1, ReviewAssumption, FS_Subset DEF IInv, TypeOK
    <3>5. Awarded' \ Awarded \subseteq W
      BY <2>2 DEF AwardWinners
    <3>6. number \in Nat /\ Cardinality(W) \in Nat /\ number <= Cardinality(W)
      BY <3>4, <3>5, FS_Subset, FS_CardinalityType
    <3>7. Places(cycles[y]) \in Nat
      BY <3>3 DEF Places, Plan
    <3> HIDE DEF number, W
    <3>8. number <= Places(cycles[y])
      BY <3>2, <3>6, <3>7
    <3> QED BY <3>3, <3>6, <3>8, PlacesFit
  <2>3. CASE StoreStatus(h)
    <3>1. Awarded' = Awarded
      BY <2>3 DEF StoreStatus
    <3> QED BY <3>1, FS_EmptySet
  <2> QED BY <1>1, <2>1, <2>2, <2>3, StepFrame
<1>2. ASSUME UNCHANGED vars PROVE A
  BY <1>2, FS_EmptySet DEF vars
<1>3. IInv /\ [Next]_vars => [A]_vars
  BY <1>1, <1>2 DEF Next
<1> QED BY <1>3, ReviewInvariant, PTL DEF Spec, DecisionFits

\* Racing renewals never change the figures of a year that exists, nor skip a
\* year (renew).
THEOREM CyclesAreAlwaysKept == Spec => CyclesAreKept
<1> DEFINE A == /\ \A y \in DOMAIN cycles : y \in DOMAIN cycles' /\ cycles'[y] = cycles[y]
                /\ \A y \in DOMAIN cycles' : y = 1 \/ y - 1 \in DOMAIN cycles'
<1>1. ASSUME IInv, NEW h \in Handler, Serve(h) PROVE A
  <2>1. PICK m \in 1 .. MaxYear : DOMAIN cycles' = 1 .. m
    BY <1>1, StepKeepsYears DEF YearsFit
  <2>2. \A y \in DOMAIN cycles' : y = 1 \/ y - 1 \in DOMAIN cycles'
    BY <2>1, ReviewAssumption
  <2> QED BY <1>1, <2>2, StepFrame
<1>2. ASSUME IInv, UNCHANGED vars PROVE [A]_vars
  BY <1>2
<1>3. IInv /\ [Next]_vars => [A]_vars
  BY <1>1, <1>2 DEF Next
<1> QED BY <1>3, ReviewInvariant, PTL DEF Spec, CyclesAreKept

\* Scholars who graduated or work belong to the alumni, also when events for
\* one scholar overtake each other (setScholarStatus).
THEOREM GraduatesAreAlwaysAlumni == Spec => []GraduatesAreAlumni
<1>1. Init => GraduatesAreAlumni
  BY DEF Init, GraduatesAreAlumni
<1>2. ASSUME IInv, GraduatesAreAlumni, NEW h \in Handler, Serve(h) PROVE GraduatesAreAlumni'
  <2>1. CASE scholar' = scholar
    BY <1>2, <2>1 DEF GraduatesAreAlumni
  <2>2. CASE AwardWinners(h)
    BY <1>2, <2>2 DEF AwardWinners, GraduatesAreAlumni
  <2>3. CASE StoreStatus(h)
    BY <1>2, <2>3 DEF StoreStatus, GraduatesAreAlumni, JoinsAlumni
  <2> QED BY <1>2, <2>1, <2>2, <2>3, StepFrame
<1>3. GraduatesAreAlumni /\ UNCHANGED vars => GraduatesAreAlumni'
  BY DEF GraduatesAreAlumni, vars
<1>4. IInv /\ GraduatesAreAlumni /\ [Next]_vars => GraduatesAreAlumni'
  BY <1>2, <1>3 DEF Next
<1> QED BY <1>1, <1>4, ReviewInvariant, PTL DEF Spec

\* The winners rank before the others.
LEMMA WinnersAreAhead ==
    ASSUME TypeOK, NEW plan \in Plan, NEW C \in SUBSET DOMAIN app,
           NEW a \in Winners(C, plan), NEW b \in C \ Winners(C, plan)
    PROVE  Ahead(a, b)
<1> DEFINE before(x) == {y \in C : Ahead(y, x)}
           rank(x) == Cardinality(before(x))
           P == Places(plan)
<1>1. a \in C /\ rank(a) < P /\ ~(rank(b) < P)
  BY DEF Winners
<1>2. IsFiniteSet(C)
  BY ReviewAssumption, FS_Subset DEF TypeOK
<1>3. P \in Nat
  BY DEF Places, Plan
<1> SUFFICES ASSUME ~Ahead(a, b) PROVE FALSE
  OBVIOUS
<1>4. a # b /\ Ahead(b, a)
  BY <1>1, AheadOrders
<1>5. before(b) \subseteq before(a)
  BY <1>1, <1>4, AheadOrders
<1>6. IsFiniteSet(before(a)) /\ IsFiniteSet(before(b))
  BY <1>2, FS_Subset
<1> HIDE DEF P, before
<1>7. rank(b) <= rank(a) /\ rank(a) \in Nat /\ rank(b) \in Nat
  BY <1>5, <1>6, FS_Subset, FS_CardinalityType
<1> HIDE DEF rank
<1> QED BY <1>1, <1>3, <1>7

-----------------------------------------------------------------------------
(* The two parts of MCApplications that are about a program.               *)

\* A part runs by the steps of ScholarshipReview, and while it waits nothing of
\* the program changes.
LEMMA ReviewRuns == AllSpec => Spec
<1>1. AllInit => Init
  BY DEF AllInit
<1>2. [AllNext]_allVars => [Next]_vars
  BY DEF AllNext, PartNext, OtherParts, allVars, ReviewNext, AwardsNext, Next
<1> QED BY <1>1, <1>2, PTL DEF AllSpec, Spec

OthersAreIdle(h) == \A g \in Handler \ {h} : task[g] = Idle

\* A step of the reviews is that of a handler which is alone before and after.
LEMMA ReviewStep ==
    ASSUME [AllNext]_allVars, focus' = "review" \/ focus = "review"
    PROVE  /\ focus = "review" /\ focus' = "review"
           /\ \/ UNCHANGED vars
              \/ \E h \in Handler : Serve(h) /\ OthersAreIdle(h)
<1>1. CASE UNCHANGED allVars
  BY <1>1 DEF allVars
<1>2. CASE ReviewNext /\ OtherParts("review")
  BY <1>2 DEF ReviewNext, OtherParts, OthersAreIdle
<1>3. CASE focus = "awards" /\ AwardsNext /\ OtherParts("awards")
  BY <1>3 DEF OtherParts
<1>4. CASE focus = "apply" /\ Form!Next /\ OtherParts("apply")
  BY <1>4 DEF OtherParts
<1>5. CASE focus = "coach" /\ Coach!Next /\ OtherParts("coach")
  BY <1>5 DEF OtherParts
<1> QED BY <1>1, <1>2, <1>3, <1>4, <1>5 DEF AllNext, PartNext, OtherParts

\* In the reviews, a decision on its way is the one that the present ranking
\* gives.
DecisionIsCurrent ==
    focus = "review" =>
        \A h \in Handler : task[h].step = "award" =>
            \E y \in DOMAIN cycles : task[h].winners = Winners(DOMAIN app \ Awarded, cycles[y])

\* Handling a request alone makes or keeps the decision current.
LEMMA StepKeepsRanking ==
    ASSUME IInv, NEW h \in Handler, Serve(h), OthersAreIdle(h)
    PROVE  DecisionIsCurrent'
<1> SUFFICES ASSUME NEW g \in Handler, task'[g].step = "award"
             PROVE  \E y \in DOMAIN cycles' :
                       task'[g].winners = Winners(DOMAIN app \ Awarded, cycles[y])'
  BY DEF DecisionIsCurrent
<1>1. g = h
  BY StepFrame DEF OthersAreIdle, Idle
<1>2. PICK year \in 1 .. MaxYear : Decide(h, year)
  BY <1>1, StepFrame
<1>3. /\ UNCHANGED <<cycles, app, scholar>> /\ year \in DOMAIN cycles
      /\ task'[h].winners = Winners(DOMAIN app \ Awarded, cycles[year])
  BY <1>2 DEF Decide, Continue, IInv, TypeOK
<1>4. (Winners(DOMAIN app \ Awarded, cycles[year]))'
         = Winners(DOMAIN app \ Awarded, cycles[year])
  BY <1>3 DEF Winners, Ahead
<1> QED BY <1>1, <1>3, <1>4

\* A decision that is current gives its awards by rank.
LEMMA StepAwardsTheBest ==
    ASSUME IInv, DecisionIsCurrent, focus = "review", NEW h \in Handler, Serve(h)
    PROVE  BestAreAwarded
<1>1. CASE Awarded' = Awarded
  BY <1>1 DEF BestAreAwarded
<1>2. CASE AwardWinners(h)
  <2> DEFINE C == DOMAIN app \ Awarded
  <2>1. PICK y \in DOMAIN cycles : task[h].winners = Winners(C, cycles[y])
    BY <1>2 DEF AwardWinners, DecisionIsCurrent
  <2>2. TypeOK /\ cycles[y] \in Plan
    BY DEF IInv, TypeOK
  <2>3. Awarded' = Awarded \/ Awarded' = Awarded \cup Winners(C, cycles[y])
    BY <1>2, <2>1 DEF AwardWinners
  <2>4. ASSUME NEW a \in Awarded' \ Awarded, NEW b \in DOMAIN app \ Awarded'
        PROVE  Ahead(a, b)
    <3>1. a \in Winners(C, cycles[y]) /\ b \in C \ Winners(C, cycles[y])
      BY <2>3, <2>4
    <3> QED BY <2>2, <3>1, WinnersAreAhead
  <2> QED BY <2>4 DEF Ahead, BestAreAwarded
<1>3. CASE StoreStatus(h)
  BY <1>3 DEF StoreStatus, BestAreAwarded
<1> QED BY <1>1, <1>2, <1>3, StepFrame

\* A decision leaves nobody without an award who ranks before somebody it gives
\* one to, when one request is handled at a time (decide, decideAwards).
THEOREM BestAreAlwaysAwarded == AllSpec => [][focus = "review" => BestAreAwarded]_vars
<1>1. AllInit => DecisionIsCurrent
  BY DEF AllInit, Init, Idle, DecisionIsCurrent
<1>2. ASSUME IInv, DecisionIsCurrent, [AllNext]_allVars PROVE DecisionIsCurrent'
  <2> SUFFICES ASSUME focus' = "review" PROVE DecisionIsCurrent'
    BY DEF DecisionIsCurrent
  <2>1. CASE UNCHANGED vars
    BY <1>2, <2>1, ReviewStep DEF vars, DecisionIsCurrent, Winners, Ahead
  <2>2. ASSUME NEW h \in Handler, Serve(h), OthersAreIdle(h) PROVE DecisionIsCurrent'
    BY <1>2, <2>2, StepKeepsRanking
  <2> QED BY <1>2, <2>1, <2>2, ReviewStep
<1>3. ASSUME IInv, DecisionIsCurrent, [AllNext]_allVars
      PROVE  [focus = "review" => BestAreAwarded]_vars
  <2> SUFFICES ASSUME focus = "review", ~ UNCHANGED vars PROVE BestAreAwarded
    OBVIOUS
  <2>1. PICK h \in Handler : Serve(h)
    BY <1>3, ReviewStep
  <2> QED BY <1>3, <2>1, StepAwardsTheBest
<1> QED BY <1>1, <1>2, <1>3, ReviewRuns, ReviewInvariant, PTL DEF AllSpec

\* Decisions go by rank and stay within a cycle, renewals keep the years there
\* are, and graduates are alumni (decide, renew, setScholarStatus).
THEOREM AwardsAreAlwaysFair == AllSpec => AwardsAreFair
<1>1. TypeOK /\ GraduatesAreAlumni => (focus = "awards" => TypeOK /\ GraduatesAreAlumni)
  OBVIOUS
<1> QED BY <1>1, ReviewRuns, BestAreAlwaysAwarded, DecisionsAlwaysFit, CyclesAreAlwaysKept,
           ReviewTypes, GraduatesAreAlwaysAlumni, PTL DEF AwardsAreFair

-----------------------------------------------------------------------------
(* The consensus, with one request at a time and a form that is set before *)
(* the first reviewer is added.                                            *)

\* The mean of a field that everybody who scored it gave the same.
LEMMA AgreedAverage ==
    ASSUME NEW given \in Sheet, NEW f \in Field, NEW s \in Score,
           \E v \in Reviewer : given[<<v, f>>] = s,
           \A v \in Reviewer : given[<<v, f>>] \in {s, Unscored}
    PROVE  Average(given, f) = 10 * s
<1> DEFINE rated == {vf \in DOMAIN given : vf[2] = f /\ given[vf] # Unscored}
           c == Cardinality(rated)
<1>1. /\ DOMAIN given = Reviewer \X Field /\ s \in 0 .. 5 /\ s # Unscored
      /\ IsFiniteSet(Reviewer \X Field)
  BY ReviewAssumption, FS_Product DEF Sheet, Unscored
<1>2. \A vf \in rated : given[vf] = s
  BY <1>1
<1>3. rated # {}
  <2>1. PICK v \in Reviewer : given[<<v, f>>] = s
    OBVIOUS
  <2>2. <<v, f>> \in rated
    BY <1>1, <2>1
  <2> QED BY <2>2
<1>4. IsFiniteSet(rated) /\ c \in Nat /\ c > 0
  BY <1>1, <1>3, FS_Subset, FS_CardinalityType, FS_EmptySet
<1>5. Average(given, f) = RoundedQuotient(10 * Total(given, rated), c)
  BY <1>3 DEF Average, SumOver, Total
<1> HIDE DEF rated, c
<1>6. Total(given, rated) = s * c
  BY <1>1, <1>2, <1>4, TotalOfConstant DEF c
<1>7. 2 * (10 * (s * c)) + c = (10 * s) * (2 * c) + c
  BY <1>1, <1>4
<1>8. ((10 * s) * (2 * c) + c) \div (2 * c) = 10 * s
  <2>1. 10 * s \in Nat /\ 2 * c \in Nat /\ c < 2 * c
    BY <1>1, <1>4
  <2> QED BY <2>1, <1>4, QuotientOfMultiple
<1> QED BY <1>5, <1>6, <1>7, <1>8 DEF RoundedQuotient

\* The mean of a field is a number, whoever scored it.
LEMMA AverageIsNumber ==
    ASSUME NEW given \in Sheet, NEW f
    PROVE  Average(given, f) \in Int
<1> DEFINE rated == {vf \in DOMAIN given : vf[2] = f /\ given[vf] # Unscored}
           c == Cardinality(rated)
           t == Total(given, rated)
<1>1. /\ DOMAIN given = Reviewer \X Field
      /\ \A vf \in DOMAIN given : given[vf] \in Int
      /\ IsFiniteSet(Reviewer \X Field)
  BY ReviewAssumption, FS_Product DEF Sheet, Unscored
<1>2. IsFiniteSet(rated) /\ c \in Nat /\ (c = 0 <=> rated = {})
  BY <1>1, FS_Subset, FS_CardinalityType, FS_EmptySet
<1>3. t \in Int
  BY <1>1, <1>2, TotalSplits
<1>4. Average(given, f) = IF rated = {} THEN 0 ELSE RoundedQuotient(10 * t, c)
  BY DEF Average, SumOver, Total
<1> HIDE DEF rated, t, c
<1>5. CASE rated = {}
  BY <1>4, <1>5
<1>6. CASE rated # {}
  <2>1. c > 0 /\ 2 * (10 * t) + c \in Int
    BY <1>2, <1>3, <1>6
  <2> QED BY <1>2, <1>4, <1>6, <2>1 DEF RoundedQuotient
<1> QED BY <1>5, <1>6

\* Reviewers who agree on every field that counts are the consensus, whatever
\* the weights (aggregateRubric).
LEMMA Unanimity ==
    ASSUME NEW weights \in [Field -> Nat], NEW given \in Sheet, NEW s \in Score,
           \E f \in Field : weights[f] > 0,
           \A f \in Field : weights[f] > 0 =>
              /\ \E v \in Reviewer : given[<<v, f>>] = s
              /\ \A v \in Reviewer : given[<<v, f>>] \in {s, Unscored}
    PROVE  RubricConsensus(weights, given) = 20 * s
<1> DEFINE t == Total(weights, Field)
           product == [f \in Field |-> Average(given, f) * weights[f]]
<1>1. /\ IsFiniteSet(Field) /\ s \in 0 .. 5 /\ DOMAIN weights = Field
      /\ \A f \in Field : weights[f] \in Nat
  BY ReviewAssumption
<1>2. t \in Nat /\ t > 0
  <2>1. PICK f \in Field : weights[f] > 0
    OBVIOUS
  <2>2. t = weights[f] + Total(weights, Field \ {f})
    BY <1>1, TotalSplits
  <2>3. Total(weights, Field \ {f}) \in Nat
    BY <1>1, FS_Subset, TotalIsNatural
  <2> QED BY <1>1, <2>1, <2>2, <2>3
<1>3. \A f \in Field : product[f] = (10 * s) * weights[f]
  <2> SUFFICES ASSUME NEW f \in Field
               PROVE  Average(given, f) * weights[f] = (10 * s) * weights[f]
    OBVIOUS
  <2>1. CASE weights[f] > 0
    <3>1. Average(given, f) = 10 * s
      BY <2>1, AgreedAverage
    <3> QED BY <3>1
  <2>2. CASE weights[f] = 0
    BY <2>2, <1>1, AverageIsNumber
  <2> QED BY <1>1, <2>1, <2>2
<1>4. Total(product, Field) = (10 * s) * t
  <2> HIDE DEF product
  <2>1. 10 * s \in Int /\ \A f \in Field : weights[f] \in Int
    BY <1>1
  <2> QED BY <1>1, <1>3, <2>1, TotalOfMultiple
<1>5. RubricConsensus(weights, given) =
         IF t = 0 THEN 0 ELSE RoundedQuotient(2 * Total(product, Field), t)
  BY <1>1 DEF RubricConsensus, SumOver, Total
<1> HIDE DEF t, product
<1>6. 2 * (2 * ((10 * s) * t)) + t = (20 * s) * (2 * t) + t
  BY <1>1, <1>2
<1>7. ((20 * s) * (2 * t) + t) \div (2 * t) = 20 * s
  <2>1. 20 * s \in Nat /\ 2 * t \in Nat /\ t < 2 * t
    BY <1>1, <1>2
  <2> QED BY <2>1, <1>2, QuotientOfMultiple
<1> QED BY <1>2, <1>4, <1>5, <1>6, <1>7 DEF RoundedQuotient

\* Nothing is scored before there are reviewers nor before there is an
\* application, and what is about to be stored is what the scores give.
ScoresFit ==
    /\ reviewers = {} => \A a \in Application : ~Scored(a) /\ ~BeingScored(a)
    /\ \A a \in Application : a \notin DOMAIN app => ~Scored(a)
    /\ \A h \in Handler : task[h].step = "storeConsensus" =>
          task[h].consensus = Aggregate(form, scores[task[h].of])

\* What the consensus invariants look at.
LEMMA ConsensusFrame ==
    ASSUME TypeOK, ScoresFit, ConsensusIsCurrent,
           NEW h \in Handler, \A g \in Handler \ {h} : task[g] = Idle /\ task'[g] = Idle,
           UNCHANGED <<form, scores>>, reviewers \subseteq reviewers',
           DOMAIN app' = DOMAIN app,
           \A a \in DOMAIN app : app'[a].consensus = app[a].consensus,
           task[h].step \notin {"aggregate", "storeConsensus"},
           task'[h].step \notin {"aggregate", "storeConsensus"}
    PROVE  ScoresFit' /\ ConsensusIsCurrent'
<1>1. \A a \in Application : ~BeingScored(a) /\ ~BeingScored(a)'
  BY DEF BeingScored, Idle
<1>2. \A a \in Application : Scored(a)' <=> Scored(a)
  BY DEF Scored
<1>3. ScoresFit'
  BY <1>1, <1>2 DEF ScoresFit
<1>4. ConsensusIsCurrent'
  BY <1>1, <1>2 DEF ConsensusIsCurrent, TypeOK
<1> QED BY <1>3, <1>4

\* A request that is handled alone leaves the consensus of the other
\* applications alone, and makes that of its own the one its scores give.
LEMMA StepKeepsConsensus ==
    ASSUME IInv, ScoresFit, ConsensusIsCurrent, ~LateForms,
           NEW h \in Handler, Serve(h), OthersAreIdle(h)
    PROVE  ScoresFit' /\ ConsensusIsCurrent'
<1>t. TypeOK /\ DecisionsFit /\ task[h] \in Tasks
  BY DEF IInv, TypeOK
<1>i. task[h] = Idle => task[h].step \notin {"aggregate", "storeConsensus"}
  BY DEF Idle
<1>k. \A next : Continue(h, next) => task'[h] = next
  BY <1>t DEF Continue, TypeOK
<1>o. \A g \in Handler \ {h} : task[g] = Idle /\ task'[g] = Idle
  BY StepFrame DEF OthersAreIdle
<1>p. \A g \in Handler \ {h} :
         /\ task[g].step \notin {"aggregate", "storeConsensus"}
         /\ task'[g].step \notin {"aggregate", "storeConsensus"}
  BY <1>o DEF Idle
<1> DEFINE Thesis == ScoresFit' /\ ConsensusIsCurrent'
<1> SUFFICES Thesis
  BY DEF Thesis
<1> HIDE DEF Thesis
<1>1. ASSUME NEW weights \in Forms, SetForm(h, weights) PROVE Thesis
  <2>1. reviewers = {} /\ UNCHANGED <<reviewers, app, scores, task>>
    BY <1>1 DEF SetForm
  <2>2. \A a \in Application : ~Scored(a) /\ ~BeingScored(a)
    BY <1>p, <2>1 DEF ScoresFit
  <2>3. \A a \in Application : ~Scored(a)' /\ ~BeingScored(a)'
    BY <1>p, <2>1, <2>2 DEF Scored, BeingScored
  <2>4. task[h].step # "storeConsensus" /\ task'[h] = task[h]
    BY <1>1, <2>1, <1>i DEF SetForm
  <2> QED BY <1>p, <2>1, <2>3, <2>4, <1>t DEF ScoresFit, ConsensusIsCurrent, TypeOK, Thesis
<1>2. ASSUME NEW a \in Application, CreateApplicationSlot(h, a) PROVE Thesis
  <2>1. /\ task[h] = Idle /\ a \notin DOMAIN app /\ DOMAIN app' = DOMAIN app \cup {a}
        /\ \A b \in DOMAIN app : app'[b] = app[b]
        /\ UNCHANGED <<form, reviewers, scores, task>>
    BY <1>2 DEF CreateApplicationSlot, With
  <2>2. \A b \in Application : ~BeingScored(b) /\ ~BeingScored(b)'
    BY <1>p, <2>1, <1>i DEF BeingScored
  <2>3. \A b \in Application : Scored(b)' <=> Scored(b)
    BY <2>1 DEF Scored
  <2>4. ~Scored(a)
    BY <1>p, <2>1 DEF ScoresFit
  <2>5. task'[h].step # "storeConsensus"
    BY <2>1, <1>i
  <2>6. ScoresFit'
    BY <1>p, <2>1, <2>2, <2>3, <2>5 DEF ScoresFit
  <2>7. ConsensusIsCurrent'
    BY <2>1, <2>2, <2>3, <2>4, <1>t DEF ConsensusIsCurrent, TypeOK
  <2> QED BY <2>6, <2>7 DEF Thesis
<1>3. ASSUME NEW a \in Application, SubmitApplication(h, a) PROVE Thesis
  <2>1. /\ DOMAIN app' = DOMAIN app
        /\ \A b \in DOMAIN app : app'[b].consensus = app[b].consensus
    BY <1>3, <1>t DEF SubmitApplication, TypeOK
  <2> QED BY <2>1, <1>3, <1>i, <1>t, <1>o, ConsensusFrame DEF SubmitApplication, Thesis
<1>4. ASSUME NEW v \in Reviewer, AddReviewer(h, v) PROVE Thesis
  <2>1. task'[h].step = "addReviewer"
    BY <1>4, <1>k DEF AddReviewer
  <2> QED BY <2>1, <1>4, <1>i, <1>t, <1>o, ConsensusFrame DEF AddReviewer, Thesis
<1>5. CASE CreateReviewer(h)
  <2>1. task'[h].step = "idle" /\ task[h].step = "addReviewer"
    BY <1>5, <1>k DEF CreateReviewer, Idle
  <2> QED BY <2>1, <1>5, <1>t, <1>o, ConsensusFrame DEF CreateReviewer, Thesis
<1>6. ASSUME NEW a \in Application, NEW v \in Reviewer, NEW fs \in SUBSET Field,
             NEW given \in [fs -> Score], ScoreApplication(h, a, v, given)
      PROVE  Thesis
  <2>1. /\ task[h] = Idle /\ a \in DOMAIN app /\ v \in reviewers
        /\ UNCHANGED <<form, reviewers, app>>
        /\ \A b \in Application \ {a} : scores'[b] = scores[b]
    BY <1>6, <1>t DEF ScoreApplication, TypeOK
  <2>2. task'[h] = [step |-> "aggregate", of |-> a]
    BY <1>6, <1>k DEF ScoreApplication
  <2>3. task'[h].step = "aggregate" /\ task'[h].of = a
    BY <2>2
  <2>4. \A b \in Application \ {a} : Scored(b)' <=> Scored(b)
    BY <2>1 DEF Scored
  <2>5. BeingScored(a)' /\ \A b \in Application : ~BeingScored(b)
    BY <1>p, <2>1, <2>3, <1>i DEF BeingScored
  <2>6. ScoresFit'
    BY <1>p, <2>1, <2>3, <2>4 DEF ScoresFit
  <2>7. ConsensusIsCurrent'
    BY <2>1, <2>4, <2>5, <1>t DEF ConsensusIsCurrent, TypeOK
  <2> QED BY <2>6, <2>7 DEF Thesis
<1>7. CASE ReadScores(h)
  <2> DEFINE a == task[h].of
  <2>1. /\ task[h].step = "aggregate" /\ UNCHANGED <<form, reviewers, app, scores>>
        /\ task'[h].step = "storeConsensus" /\ task'[h].of = a
        /\ task'[h].consensus = Aggregate(form, scores[a])
    BY <1>7, <1>k DEF ReadScores
  <2>2. \A b \in Application : Scored(b)' <=> Scored(b)
    BY <2>1 DEF Scored
  <2>3. \A b \in Application : BeingScored(b)' <=> BeingScored(b)
    BY <1>p, <2>1 DEF BeingScored
  <2>4. ScoresFit'
    BY <1>p, <2>1, <2>2, <2>3 DEF ScoresFit
  <2>5. ConsensusIsCurrent'
    BY <2>1, <2>2, <2>3, <1>t DEF ConsensusIsCurrent, TypeOK
  <2> QED BY <2>4, <2>5 DEF Thesis
<1>8. CASE StoreConsensus(h)
  <2> DEFINE a == task[h].of
  <2>1. /\ task[h].step = "storeConsensus" /\ UNCHANGED <<form, reviewers, scores>>
        /\ task'[h].step = "idle" /\ DOMAIN app' = DOMAIN app
        /\ \A b \in DOMAIN app : app'[b].consensus =
              IF b = a THEN task[h].consensus ELSE app[b].consensus
    BY <1>8, <1>k, <1>t DEF StoreConsensus, Idle, TypeOK
  <2>2. \A b \in Application : Scored(b)' <=> Scored(b)
    BY <2>1 DEF Scored
  <2>3. \A b \in Application : ~BeingScored(b)' /\ (BeingScored(b) => b = a)
    BY <1>p, <2>1 DEF BeingScored
  <2>4. ScoresFit'
    BY <1>p, <2>1, <2>2, <2>3 DEF ScoresFit
  <2>5. task[h].consensus = Aggregate(form, scores[a])
    BY <1>p, <2>1 DEF ScoresFit
  <2>6. ConsensusIsCurrent'
    BY <2>1, <2>2, <2>3, <2>5, <1>t DEF ConsensusIsCurrent, TypeOK
  <2> QED BY <2>4, <2>6 DEF Thesis
<1>9. ASSUME NEW year \in 1 .. MaxYear, Decide(h, year) PROVE Thesis
  <2>1. task'[h].step = "award"
    BY <1>9, <1>k DEF Decide
  <2> QED BY <2>1, <1>9, <1>i, <1>t, <1>o, ConsensusFrame DEF Decide, Thesis
<1>10. CASE AwardWinners(h)
  <2>1. task'[h].step = "idle" /\ task[h].step = "award"
    BY <1>10, <1>k DEF AwardWinners, Idle
  <2>2. /\ DOMAIN app' = DOMAIN app
        /\ \A b \in DOMAIN app : app'[b].consensus = app[b].consensus
    BY <1>10, <1>t DEF AwardWinners, TypeOK
  <2> QED BY <2>1, <2>2, <1>10, <1>t, <1>o, ConsensusFrame DEF AwardWinners, Thesis
<1>11. ASSUME NEW a \in Application, NEW event \in DOMAIN Transition,
              SetScholarStatus(h, a, event)
       PROVE  Thesis
  <2>1. task'[h].step = "storeStatus"
    BY <1>11, <1>k DEF SetScholarStatus
  <2> QED BY <2>1, <1>11, <1>i, <1>t, <1>o, ConsensusFrame DEF SetScholarStatus, Thesis
<1>12. CASE StoreStatus(h)
  <2>1. task'[h].step = "idle" /\ task[h].step = "storeStatus"
    BY <1>12, <1>k DEF StoreStatus, Idle
  <2> QED BY <2>1, <1>12, <1>t, <1>o, ConsensusFrame DEF StoreStatus, Thesis
<1>13. ASSUME NEW plan \in Plans \cup {cycles[LastYear]}, Renew(h, plan) PROVE Thesis
  <2>1. task'[h].step = "createCycle"
    BY <1>13, <1>k DEF Renew
  <2> QED BY <2>1, <1>13, <1>i, <1>t, <1>o, ConsensusFrame DEF Renew, Thesis
<1>14. CASE CreateCycle(h)
  <2>1. task'[h].step = "idle" /\ task[h].step = "createCycle"
    BY <1>14, <1>k DEF CreateCycle, Idle
  <2> QED BY <2>1, <1>14, <1>t, <1>o, ConsensusFrame DEF CreateCycle, Thesis
<1> QED BY <1>1, <1>2, <1>3, <1>4, <1>5, <1>6, <1>7, <1>8, <1>9, <1>10, <1>11, <1>12,
           <1>13, <1>14 DEF Serve

\* Once nobody is scoring an application, its stored consensus is the one its
\* scores and the form give, and reviewers who agree are the consensus, as long
\* as one request is handled at a time and the form is set before there are
\* reviewers (recomputeConsensus, aggregateRubric).
THEOREM ConsensusIsAlwaysRight ==
    ASSUME ~LateForms,
           \A weights \in Forms, given \in Sheet :
              Aggregate(weights, given) = RubricConsensus(weights, given)
    PROVE  AllSpec => []ConsensusIsRight
<1>1. Init => ScoresFit /\ ConsensusIsCurrent
  <2> SUFFICES ASSUME Init PROVE ScoresFit /\ ConsensusIsCurrent
    OBVIOUS
  <2>1. \A a \in Application : ~Scored(a)
    BY DEF Init, Scored
  <2>2. \A h \in Handler : task[h].step = "idle"
    BY DEF Init, Idle
  <2>3. DOMAIN app = {}
    BY DEF Init
  <2> QED BY <2>1, <2>2, <2>3 DEF ScoresFit, ConsensusIsCurrent, BeingScored
<1>2. ASSUME IInv, focus = "review" => ScoresFit /\ ConsensusIsCurrent, [AllNext]_allVars
      PROVE  (focus = "review" => ScoresFit /\ ConsensusIsCurrent)'
  <2> SUFFICES ASSUME focus' = "review" PROVE ScoresFit' /\ ConsensusIsCurrent'
    OBVIOUS
  <2>1. ScoresFit /\ ConsensusIsCurrent
    BY <1>2, ReviewStep
  <2>2. ASSUME NEW h \in Handler, Serve(h), OthersAreIdle(h)
        PROVE  ScoresFit' /\ ConsensusIsCurrent'
    BY <1>2, <2>1, <2>2, StepKeepsConsensus
  <2>3. CASE UNCHANGED vars
    BY <2>1, <2>3 DEF vars, ScoresFit, ConsensusIsCurrent, Scored, BeingScored
  <2> QED BY <1>2, <2>2, <2>3, ReviewStep
<1>3. TypeOK /\ ConsensusIsCurrent => UnanimityIsConsensus
  <2> SUFFICES ASSUME TypeOK, ConsensusIsCurrent, NEW a \in DOMAIN app, NEW s \in Score,
                      ~BeingScored(a), form # NoForm,
                      \E f \in Field : form[f] > 0,
                      \A f \in Field : form[f] > 0 =>
                         /\ \E v \in Reviewer : scores[a][<<v, f>>] = s
                         /\ \A v \in Reviewer : scores[a][<<v, f>>] \in {s, Unscored}
               PROVE  app[a].consensus = 20 * s
    BY DEF UnanimityIsConsensus
  <2>1. form \in Forms /\ form \in [Field -> Nat] /\ scores[a] \in Sheet
    BY ReviewAssumption DEF TypeOK
  <2>2. PICK f \in Field, v \in Reviewer : scores[a][<<v, f>>] = s
    OBVIOUS
  <2>3. s # Unscored
    BY ReviewAssumption DEF Unscored
  <2>4. Scored(a)
    <3>1. <<v, f>> \in Reviewer \X Field /\ scores[a][<<v, f>>] # Unscored
      BY <2>2, <2>3
    <3> QED BY <3>1 DEF Scored
  <2>5. app[a].consensus = Aggregate(form, scores[a])
    BY <2>4 DEF ConsensusIsCurrent
  <2>6. RubricConsensus(form, scores[a]) = 20 * s
    <3> DEFINE w == form  given == scores[a]
    <3>1. /\ w \in [Field -> Nat] /\ given \in Sheet
          /\ \E g \in Field : w[g] > 0
          /\ \A g \in Field : w[g] > 0 =>
                /\ \E u \in Reviewer : given[<<u, g>>] = s
                /\ \A u \in Reviewer : given[<<u, g>>] \in {s, Unscored}
      BY <2>1
    <3> HIDE DEF w, given
    <3>2. RubricConsensus(w, given) = 20 * s
      BY <3>1, Unanimity
    <3> QED BY <3>2 DEF w, given
  <2> QED BY <2>1, <2>5, <2>6
<1>4. IInv /\ (focus = "review" => ScoresFit /\ ConsensusIsCurrent) => ConsensusIsRight
  BY <1>3 DEF IInv, ConsensusIsRight
<1>5. AllInit => Init
  BY DEF AllInit
<1> QED BY <1>1, <1>2, <1>4, <1>5, ReviewRuns, ReviewInvariant, PTL DEF AllSpec
-----------------------------------------------------------------------------
(* The application form.                                                   *)

AnswerSets == UNION {[K -> Value] : K \in SUBSET Key}

\* The forms that setForm accepts.
ValidForms == {fields \in Seq(Fields) : Form!ValidSchema(fields)}

\* A page that is open shows a form that was accepted, of a slot that exists.
OpenPages == [step : {"open"}, fields : ValidForms, answers : AnswerSets, error : BOOLEAN]

\* A submission holds what its page showed of all that was typed.
FromItsPage(s) ==
    \E all \in AnswerSets : s.answers = Form!Keep(all, Form!Shown(s.shown, all))

Submissions(opened) ==
    [of : opened, no : Nat, answers : AnswerSets, shown : ValidForms, judged : ValidForms \cup {<<>>}]

\* What a slot holds is blank, or what its form leaves of a valid submission.
Kept(row) ==
    \/ row = Form!Unwritten
    \/ /\ row.status = "SUBMITTED"
       /\ row.meant \in AnswerSets /\ row.shown \in ValidForms /\ row.judged \in ValidForms
       /\ \E all \in AnswerSets : row.meant = Form!Keep(all, Form!Shown(row.shown, all))
       /\ Form!ValidAnswers(row.judged, row.meant)
       /\ row.answers = Form!Keep(row.meant, Key \ Form!Hidden(row.judged, row.meant))

FormCounters ==
    /\ applyForm \in ValidForms \cup {<<>>} /\ Len(applyForm) <= MaxFields
    /\ applyFormsSet \in 0 .. MaxForms /\ applySubmits \in 0 .. MaxSubmits

FormPages ==
    /\ applyPage \in [Slot -> {Form!Closed, Form!LoadError, Form!Received} \cup OpenPages]
    /\ \A a \in Slot : applyPage[a].step = "open" => a \in DOMAIN applySlots

FormSubmissions ==
    /\ applySent \subseteq Submissions(DOMAIN applySlots)
    /\ \A s \in applySent :
          /\ FromItsPage(s)
          /\ s.judged # <<>> => Form!ValidAnswers(s.judged, s.answers)

FormRows == DOMAIN applySlots \subseteq Slot /\ \A a \in DOMAIN applySlots : Kept(applySlots[a])

FInv == FormCounters /\ FormPages /\ FormSubmissions /\ FormRows

\* What is kept of answers is answers.
LEMMA KeptAnswers ==
    ASSUME NEW answers \in AnswerSets, NEW keys
    PROVE  /\ Form!Keep(answers, keys) \in AnswerSets
           /\ DOMAIN Form!Keep(answers, keys) = DOMAIN answers \cap keys
           /\ \A k \in DOMAIN answers \cap keys : Form!Keep(answers, keys)[k] = answers[k]
<1>1. PICK K \in SUBSET Key : answers \in [K -> Value]
  BY DEF AnswerSets
<1>2. Form!Keep(answers, keys) \in [K \cap keys -> Value]
  BY <1>1 DEF Form!Keep
<1>3. K \cap keys \in SUBSET Key
  OBVIOUS
<1> QED BY <1>1, <1>2, <1>3 DEF AnswerSets, Form!Keep

\* No answers are answers.
LEMMA NoAnswersAreAnswers == Form!NoAnswers \in AnswerSets
<1>1. Form!NoAnswers \in [{} -> Value]
  BY DEF Form!NoAnswers
<1> QED BY <1>1 DEF AnswerSets

\* The fields of a form that was accepted have keys of their own, and what a
\* condition looks at is a field.
LEMMA ValidFields ==
    ASSUME NEW fields \in ValidForms
    PROVE  /\ Form!Elements(fields) \subseteq Fields
           /\ \A f, g \in Form!Elements(fields) :
                 /\ f.key \in Key
                 /\ f.key = g.key => f = g
                 /\ f.showIf # Form!None =>
                       \E e \in Form!Elements(fields) : e.key = f.showIf
<1>1. /\ fields \in Seq(Fields) /\ Form!ValidSchema(fields)
      /\ \A i \in DOMAIN fields : fields[i] \in Fields
  BY DEF ValidForms
<1> QED BY <1>1 DEF Form!Elements, Form!ValidSchema

\* Where no condition depends on a conditional field, the server hides nothing
\* of what the page shows.
LEMMA NothingIsHidden ==
    ASSUME NEW fields \in ValidForms, NEW all \in AnswerSets, Form!Flat(fields)
    PROVE  LET sent == Form!Keep(all, Form!Shown(fields, all))
           IN  Form!Keep(sent, Key \ Form!Hidden(fields, sent)) = sent
<1> DEFINE sent == Form!Keep(all, Form!Shown(fields, all))
<1>1. /\ sent \in AnswerSets /\ DOMAIN sent = DOMAIN all \cap Form!Shown(fields, all)
      /\ \A k \in DOMAIN sent : sent[k] = all[k]
  BY KeptAnswers
<1>2. PICK K \in SUBSET Key : sent \in [K -> Value]
  BY <1>1 DEF AnswerSets
<1>3. ASSUME NEW f \in Form!Elements(fields), Form!Asked(f, all) PROVE Form!Asked(f, sent)
  <2>1. CASE f.showIf = Form!None
    BY <2>1 DEF Form!Asked
  <2>2. CASE f.showIf # Form!None
    <3>1. PICK e \in Form!Elements(fields) : e.key = f.showIf
      BY <2>2, ValidFields
    <3>2. e.showIf = Form!None
      BY <3>1 DEF Form!Flat
    <3>3. e.key \in Form!Shown(fields, all)
      BY <3>2 DEF Form!Shown, Form!Asked
    <3>4. f.showIf \in DOMAIN all /\ all[f.showIf] = f.showIfValue
      BY <1>3, <2>2 DEF Form!Asked
    <3> HIDE DEF sent
    <3> QED BY <1>1, <3>1, <3>3, <3>4 DEF Form!Asked
  <2> QED BY <2>1, <2>2
<1>4. ASSUME NEW k \in DOMAIN sent PROVE k \notin Form!Hidden(fields, sent)
  <2> SUFFICES ASSUME k \in Form!Hidden(fields, sent) PROVE FALSE
    OBVIOUS
  <2>1. PICK g \in Form!Elements(fields) : g.key = k /\ ~Form!Asked(g, sent)
    BY DEF Form!Hidden
  <2>2. k \in Form!Shown(fields, all)
    BY <1>1, <1>4
  <2>3. PICK f \in Form!Elements(fields) : f.key = k /\ Form!Asked(f, all)
    BY <2>2 DEF Form!Shown
  <2>4. f = g
    BY <2>1, <2>3, ValidFields
  <2> QED BY <1>3, <2>1, <2>3, <2>4
<1> HIDE DEF sent
<1>5. DOMAIN sent \cap (Key \ Form!Hidden(fields, sent)) = DOMAIN sent
  BY <1>2, <1>4
<1>6. Form!Keep(sent, Key \ Form!Hidden(fields, sent)) = sent
  BY <1>2, <1>5 DEF Form!Keep
<1> QED BY <1>6 DEF sent

\* What the form leaves of valid answers is complete and of the right types.
LEMMA WhatIsLeftIsComplete ==
    ASSUME NEW fields \in ValidForms, NEW meant \in AnswerSets,
           Form!ValidAnswers(fields, meant), NEW field \in Form!Elements(fields)
    PROVE  LET stored == Form!Keep(meant, Key \ Form!Hidden(fields, meant)) IN
           /\ field.required /\ Form!Asked(field, stored) => ~Form!IsBlank(stored, field.key)
           /\ ~Form!IsBlank(stored, field.key) => Form!TypeFits(field, stored[field.key])
<1> DEFINE stored == Form!Keep(meant, Key \ Form!Hidden(fields, meant))
<1>1. /\ DOMAIN stored = DOMAIN meant \cap (Key \ Form!Hidden(fields, meant))
      /\ \A k \in DOMAIN stored : stored[k] = meant[k]
  BY KeptAnswers
<1>2. field.key \in Key /\ (field.key \in Form!Hidden(fields, meant) <=> ~Form!Asked(field, meant))
  BY ValidFields DEF Form!Hidden
<1> HIDE DEF stored
<1>3. Form!Asked(field, stored) => Form!Asked(field, meant)
  BY <1>1 DEF Form!Asked
<1>4. Form!Asked(field, meant) =>
         IF Form!IsBlank(meant, field.key) THEN ~field.required
         ELSE Form!TypeFits(field, meant[field.key])
  BY DEF Form!ValidAnswers
<1>5. ASSUME field.required, Form!Asked(field, stored) PROVE ~Form!IsBlank(stored, field.key)
  BY <1>1, <1>2, <1>3, <1>4, <1>5 DEF Form!IsBlank
<1>6. ASSUME ~Form!IsBlank(stored, field.key) PROVE Form!TypeFits(field, stored[field.key])
  <2>1. field.key \in DOMAIN stored /\ stored[field.key] = meant[field.key]
    BY <1>1, <1>6 DEF Form!IsBlank
  <2>2. Form!Asked(field, meant) /\ ~Form!IsBlank(meant, field.key)
    BY <1>1, <1>2, <1>6, <2>1 DEF Form!IsBlank
  <2> QED BY <1>4, <2>1, <2>2
<1> QED BY <1>5, <1>6 DEF stored

\* The two promises follow from what the slots hold.
LEMMA FormPromises ==
    ASSUME FInv
    PROVE  Form!TypeOK /\ Form!NothingShownIsDropped /\ Form!StoredAnswersAreComplete
<1>1. Form!TypeOK
  <2>1. Form!Elements(applyForm) \subseteq Fields /\ Len(applyForm) <= MaxFields
    BY ValidFields DEF FInv, FormCounters, Form!Elements
  <2>2. \A a \in DOMAIN applySlots :
           applySlots[a].status = "SUBMITTED" /\ applySlots[a].answers \in AnswerSets
    <3> SUFFICES ASSUME NEW a \in DOMAIN applySlots
                 PROVE  applySlots[a].status = "SUBMITTED" /\ applySlots[a].answers \in AnswerSets
      OBVIOUS
    <3>1. Kept(applySlots[a])
      BY DEF FInv, FormRows
    <3>2. CASE applySlots[a] = Form!Unwritten
      BY <3>2, NoAnswersAreAnswers DEF Form!Unwritten
    <3>3. CASE applySlots[a] # Form!Unwritten
      BY <3>1, <3>3, KeptAnswers DEF Kept
    <3> QED BY <3>2, <3>3
  <2>3. \A a \in Slot : \/ applyPage[a] \in {Form!Closed, Form!LoadError, Form!Received}
                        \/ applyPage[a].step = "open"
    BY DEF FInv, FormPages, OpenPages
  <2>4. \A s \in applySent : s.of \in DOMAIN applySlots
    BY DEF FInv, FormSubmissions, Submissions
  <2> QED BY <2>1, <2>2, <2>3, <2>4 DEF FInv, FormCounters, FormRows, Form!TypeOK, AnswerSets
<1>2. Form!NothingShownIsDropped
  <2> SUFFICES ASSUME NEW a \in DOMAIN applySlots,
                      applySlots[a].shown = applySlots[a].judged, Form!Flat(applySlots[a].judged)
               PROVE  applySlots[a].answers = applySlots[a].meant
    BY DEF Form!NothingShownIsDropped
  <2>1. Kept(applySlots[a])
    BY DEF FInv, FormRows
  <2>2. CASE applySlots[a] = Form!Unwritten
    BY <2>2 DEF Form!Unwritten
  <2>3. CASE applySlots[a] # Form!Unwritten
    BY <2>1, <2>3, NothingIsHidden DEF Kept
  <2> QED BY <2>2, <2>3
<1>3. Form!StoredAnswersAreComplete
  <2> SUFFICES ASSUME NEW a \in DOMAIN applySlots,
                      NEW field \in Form!Elements(applySlots[a].judged)
               PROVE  LET stored == applySlots[a] IN
                      /\ field.required /\ Form!Asked(field, stored.answers) =>
                            ~Form!IsBlank(stored.answers, field.key)
                      /\ ~Form!IsBlank(stored.answers, field.key) =>
                            Form!TypeFits(field, stored.answers[field.key])
    BY DEF Form!StoredAnswersAreComplete
  <2>1. Kept(applySlots[a])
    BY DEF FInv, FormRows
  <2>2. CASE applySlots[a] = Form!Unwritten
    BY <2>2 DEF Form!Unwritten, Form!Elements
  <2>3. CASE applySlots[a] # Form!Unwritten
    BY <2>1, <2>3, WhatIsLeftIsComplete DEF Kept
  <2> QED BY <2>2, <2>3
<1> QED BY <1>1, <1>2, <1>3

\* A program without a form.
LEMMA FormInit == ASSUME Form!FormAssumption, Form!Init PROVE FInv
<1>1. FormCounters
  BY DEF Form!Init, FormCounters, Form!FormAssumption
<1>2. FormPages
  BY DEF Form!Init, FormPages, Form!Closed
<1>3. FormSubmissions /\ FormRows
  BY DEF Form!Init, FormSubmissions, FormRows
<1> QED BY <1>1, <1>2, <1>3 DEF FInv

\* The owner sets the form, and opens slots.
LEMMA FormOwner ==
    ASSUME FInv, Form!FormAssumption,
           \/ \E n \in 0 .. MaxFields : \E fields \in [1 .. n -> Fields] : Form!SetForm(fields)
           \/ \E a \in Slot : Form!CreateSlot(a)
    PROVE  FInv'
<1> USE DEF FInv
<1>1. ASSUME NEW n \in 0 .. MaxFields, NEW fields \in [1 .. n -> Fields], Form!SetForm(fields)
      PROVE  FInv'
  <2>1. fields \in Seq(Fields) /\ Len(fields) = n
    BY DEF Form!FormAssumption
  <2>2. FormCounters'
    BY <1>1, <2>1 DEF Form!SetForm, FormCounters, ValidForms, Form!FormAssumption
  <2>3. UNCHANGED <<applySlots, applyPage, applySent>>
    BY <1>1 DEF Form!SetForm
  <2> QED BY <2>2, <2>3 DEF FormPages, FormSubmissions, FromItsPage, FormRows, Kept
<1>2. ASSUME NEW a \in Slot, Form!CreateSlot(a) PROVE FInv'
  <2>1. /\ DOMAIN applySlots' = DOMAIN applySlots \cup {a}
        /\ \A b \in DOMAIN applySlots' :
              applySlots'[b] = Form!Unwritten \/ (b \in DOMAIN applySlots /\ applySlots'[b] = applySlots[b])
        /\ UNCHANGED <<applyForm, applyFormsSet, applyPage, applySent, applySubmits>>
    BY <1>2 DEF Form!CreateSlot
  <2>2. FormRows'
    BY <2>1 DEF FormRows, Kept
  <2>3. FormSubmissions'
    BY <2>1 DEF FormSubmissions, Submissions, FromItsPage
  <2>4. FormCounters' /\ FormPages'
    BY <2>1 DEF FormCounters, FormPages
  <2> QED BY <2>2, <2>3, <2>4
<1> QED BY <1>1, <1>2

\* The candidate opens the link, fills in and sends.
LEMMA FormCandidate ==
    ASSUME FInv, Form!FormAssumption, NEW a \in Slot,
           \/ Form!Visit(a) \/ Form!Submit(a)
           \/ \E field \in Fields, value \in Value : Form!Answer(a, field, value)
    PROVE  FInv'
<1> USE DEF FInv
<1> DEFINE Pages == {Form!Closed, Form!LoadError, Form!Received} \cup OpenPages
<1>p. applyPage \in [Slot -> Pages] /\ applyPage[a] \in Pages
  BY DEF FormPages
<1>o. applyPage[a].step = "open" => applyPage[a] \in OpenPages /\ a \in DOMAIN applySlots
  BY <1>p DEF FormPages, Form!Closed, Form!LoadError, Form!Received
<1>1. ASSUME NEW p \in Pages, applyPage' = [applyPage EXCEPT ![a] = p],
             p.step = "open" => a \in DOMAIN applySlots, UNCHANGED applySlots
      PROVE  FormPages' /\ FormRows'
  <2>1. FormPages'
    BY <1>1, <1>p DEF FormPages
  <2> QED BY <1>1, <2>1 DEF FormRows, Kept
<1>2. CASE Form!Visit(a)
  <2> DEFINE p == IF a \in DOMAIN applySlots /\ applyForm # <<>> THEN Form!OpenPage(applyForm)
                  ELSE Form!LoadError
  <2>1. p \in Pages /\ (p.step = "open" => a \in DOMAIN applySlots)
    BY NoAnswersAreAnswers DEF FormCounters, OpenPages, Form!OpenPage, Form!LoadError
  <2>2. /\ applyPage' = [applyPage EXCEPT ![a] = p]
        /\ UNCHANGED <<applyForm, applyFormsSet, applySlots, applySent, applySubmits>>
    BY <1>2 DEF Form!Visit
  <2> HIDE DEF p, Pages
  <2>3. FormPages' /\ FormRows'
    BY <1>1, <2>1, <2>2
  <2> QED BY <2>2, <2>3 DEF FormCounters, FormSubmissions, FromItsPage
<1>3. CASE Form!Submit(a)
  <2> DEFINE p == applyPage[a]
             q == [p EXCEPT !.error = FALSE]
             kept == Form!Keep(p.answers, Form!Shown(p.fields, p.answers))
             s == [of |-> a, no |-> applySubmits, answers |-> kept,
                   shown |-> p.fields, judged |-> <<>>]
  <2>1. /\ p \in OpenPages /\ a \in DOMAIN applySlots /\ applySubmits < MaxSubmits
        /\ applyPage' = [applyPage EXCEPT ![a] = q]
        /\ applySent' = applySent \cup {s} /\ applySubmits' = applySubmits + 1
        /\ UNCHANGED <<applyForm, applyFormsSet, applySlots>>
    BY <1>3, <1>o DEF Form!Submit, Form!IsOpen
  <2>2. q \in OpenPages /\ p.answers \in AnswerSets /\ p.fields \in ValidForms
    BY <2>1 DEF OpenPages
  <2>3. s \in Submissions(DOMAIN applySlots) /\ FromItsPage(s) /\ s.judged = <<>>
    <3>1. kept \in AnswerSets
      BY <2>2, KeptAnswers
    <3>n. applySubmits \in Nat
      BY DEF FormCounters, Form!FormAssumption
    <3>2. FromItsPage(s)
      BY <2>2 DEF FromItsPage
    <3> HIDE DEF p, kept
    <3> QED BY <2>1, <2>2, <3>1, <3>2, <3>n DEF Submissions
  <2> HIDE DEF q, s, p, Pages
  <2>4. FormPages' /\ FormRows'
    BY <1>1, <2>1, <2>2 DEF Pages
  <2>5. FormSubmissions'
    BY <2>1, <2>3 DEF FormSubmissions, FromItsPage
  <2>6. FormCounters'
    BY <2>1 DEF FormCounters, Form!FormAssumption
  <2> QED BY <2>4, <2>5, <2>6
<1>4. ASSUME NEW field \in Fields, NEW value \in Value, Form!Answer(a, field, value)
      PROVE  FInv'
  <2> DEFINE p == applyPage[a]
             answers == [k \in DOMAIN p.answers \cup {field.key} |->
                            IF k = field.key THEN value ELSE p.answers[k]]
             q == [p EXCEPT !.answers = answers]
  <2>1. /\ p \in OpenPages /\ a \in DOMAIN applySlots /\ field \in Form!Elements(p.fields)
        /\ applyPage' = [applyPage EXCEPT ![a] = q]
        /\ UNCHANGED <<applyForm, applyFormsSet, applySlots, applySent, applySubmits>>
    BY <1>4, <1>o DEF Form!Answer, Form!IsOpen
  <2>2. p.answers \in AnswerSets /\ p.fields \in ValidForms
    BY <2>1 DEF OpenPages
  <2>3. answers \in AnswerSets
    <3>1. PICK K \in SUBSET Key : p.answers \in [K -> Value]
      BY <2>2 DEF AnswerSets
    <3>2. field.key \in Key
      BY <2>1, <2>2, ValidFields
    <3>3. answers \in [K \cup {field.key} -> Value]
      BY <3>1
    <3>4. K \cup {field.key} \in SUBSET Key
      BY <3>2
    <3> HIDE DEF answers
    <3> QED BY <3>3, <3>4 DEF AnswerSets
  <2> HIDE DEF answers
  <2>4. q \in OpenPages
    BY <2>1, <2>3 DEF OpenPages
  <2> HIDE DEF q, p, Pages
  <2>5. FormPages' /\ FormRows'
    BY <1>1, <2>1, <2>4 DEF Pages
  <2> QED BY <2>1, <2>5 DEF FormCounters, FormSubmissions, FromItsPage
<1> QED BY <1>2, <1>3, <1>4

\* The server judges a submission, and stores it.
LEMMA FormServer ==
    ASSUME FInv, NEW s \in applySent, Form!Judge(s) \/ Form!Store(s)
    PROVE  FInv'
<1> USE DEF FInv
<1>s. /\ s \in Submissions(DOMAIN applySlots) /\ FromItsPage(s) /\ s.of \in Slot
      /\ s.of \in DOMAIN applySlots
      /\ s.judged # <<>> => s.judged \in ValidForms /\ Form!ValidAnswers(s.judged, s.answers)
  BY DEF FormSubmissions, Submissions, FormRows
<1>1. CASE Form!Judge(s)
  <2> DEFINE judged == [s EXCEPT !.judged = applyForm]
             p == applyPage[s.of]
             q == IF Form!IsOpen(s.of) THEN [p EXCEPT !.error = TRUE] ELSE p
  <2>1. UNCHANGED <<applyForm, applyFormsSet, applySlots, applySubmits>>
    BY <1>1 DEF Form!Judge
  <2>2. \/ /\ Form!ValidAnswers(applyForm, s.answers) /\ applyPage' = applyPage
           /\ applySent' = (applySent \ {s}) \cup {judged}
        \/ applySent' = applySent \ {s} /\ applyPage' = [applyPage EXCEPT ![s.of] = q]
    BY <1>1 DEF Form!Judge
  <2>3. /\ judged \in Submissions(DOMAIN applySlots)
        /\ judged.answers = s.answers /\ judged.shown = s.shown /\ judged.judged = applyForm
    BY <1>s DEF Submissions, FormCounters
  <2>4. FromItsPage(judged)
    BY <1>s, <2>3 DEF FromItsPage
  <2>5. q.step = p.step /\ q \in {Form!Closed, Form!LoadError, Form!Received} \cup OpenPages
    <3>1. p \in {Form!Closed, Form!LoadError, Form!Received} \cup OpenPages
      BY <1>s DEF FormPages
    <3>2. p.step = "open" => p \in OpenPages
      BY <3>1 DEF Form!Closed, Form!LoadError, Form!Received
    <3> QED BY <3>1, <3>2 DEF Form!IsOpen, OpenPages
  <2> HIDE DEF judged, q
  <2>6. FormSubmissions'
    BY <2>1, <2>2, <2>3, <2>4 DEF FormSubmissions, FromItsPage
  <2>7. FormPages'
    BY <1>s, <2>1, <2>2, <2>5 DEF FormPages
  <2> QED BY <2>1, <2>6, <2>7 DEF FormCounters, FormRows, Kept
<1>2. CASE Form!Store(s)
  <2> DEFINE row == [status |-> "SUBMITTED",
                     answers |-> Form!Keep(s.answers, Key \ Form!Hidden(s.judged, s.answers)),
                     meant |-> s.answers, shown |-> s.shown, judged |-> s.judged]
  <2>1. /\ s.judged # <<>> /\ applySlots' = [applySlots EXCEPT ![s.of] = row]
        /\ applyPage' = [applyPage EXCEPT ![s.of] = Form!Received]
        /\ applySent' = applySent \ {s}
        /\ UNCHANGED <<applyForm, applyFormsSet, applySubmits>>
    BY <1>2 DEF Form!Store
  <2>2. /\ s.answers \in AnswerSets /\ s.shown \in ValidForms /\ s.judged \in ValidForms
        /\ Form!ValidAnswers(s.judged, s.answers)
    BY <1>s, <2>1 DEF Submissions
  <2>3. Kept(row)
    BY <1>s, <2>2 DEF Kept, FromItsPage
  <2> HIDE DEF row
  <2>4. /\ DOMAIN applySlots' = DOMAIN applySlots
        /\ \A a \in DOMAIN applySlots : applySlots'[a] = row \/ applySlots'[a] = applySlots[a]
    BY <2>1
  <2>5. FormRows'
    BY <2>3, <2>4 DEF FormRows, Kept
  <2>6. FormSubmissions'
    BY <2>1, <2>4 DEF FormSubmissions, FromItsPage
  <2>7. FormPages'
    BY <1>s, <2>1, <2>4 DEF FormPages, Form!Received
  <2> QED BY <2>1, <2>5, <2>6, <2>7 DEF FormCounters
<1> QED BY <1>1, <1>2

\* A step of another part.
LEMMA FormWaits == ASSUME FInv, UNCHANGED apply PROVE FInv'
BY DEF apply, FInv, FormCounters, FormPages, FormSubmissions, FromItsPage, FormRows, Kept

\* What a candidate was shown and filled in is stored, and what is stored is
\* complete by the form it was judged by, however the form is set anew and
\* submissions overtake each other (submitApplication, visibleFields).
THEOREM FormsAreAlwaysComplete == AllSpec => []FormsAreComplete
<1>1. AllInit => FInv
  BY ApplicationsAssumption, FormInit DEF AllInit
<1>2. FInv /\ [AllNext]_allVars => FInv'
  <2>1. ASSUME FInv, Form!Next PROVE FInv'
    BY <2>1, ApplicationsAssumption, FormOwner, FormCandidate, FormServer DEF Form!Next
  <2>2. AllNext => Form!Next \/ UNCHANGED apply
    BY DEF AllNext, PartNext, OtherParts
  <2>3. UNCHANGED allVars => UNCHANGED apply
    BY DEF allVars
  <2> QED BY <2>1, <2>2, <2>3, FormWaits
<1>3. FInv => FormsAreComplete
  BY FormPromises DEF FormsAreComplete
<1> QED BY <1>1, <1>2, <1>3, PTL DEF AllSpec
-----------------------------------------------------------------------------
(* Coach: texts, and the budget of a student.                              *)
(*                                                                         *)
(* What is shown follows from what cleaning and ranking do to any texts.   *)
(* The budget holds what was generated as long as no two requests are at   *)
(* work: what the one request read is then still what is stored.           *)

Vocabulary == STRING \cup {"hyphen", "umlaut"}
Words == Seq(Vocabulary)
Texts == Seq(Words)
Lengths == [min : Nat, max : Nat]

LEMMA CoachConstants ==
    /\ IsFiniteSet(Hand)
    /\ CharsPerToken \in Nat \ {0} /\ MinTokens \in Nat /\ TokenLimit \in Nat
    /\ InputLength \subseteq Nat
    /\ Kind \subseteq {"TITLE", "STORY", "SHARE"}
    /\ \A kind \in {"TITLE", "STORY", "SHARE"} : Template[kind] \in Texts
    /\ Reply \subseteq Words
    /\ \A kind \in Kind : Window[kind] \in Lengths
<1>1. Coach!CoachAssumption
  BY ApplicationsAssumption
<1>2. \A t \in Seq(STRING) : t \in Words
  BY DEF Words, Vocabulary
<1>3. \A ts \in Seq(Seq(STRING)) : ts \in Texts
  <2> HIDE DEF Words
  <2> QED BY <1>2 DEF Texts
<1>4. Reply \subseteq Words
  BY <1>1, <1>2 DEF Coach!CoachAssumption
<1>5. \A kind \in {"TITLE", "STORY", "SHARE"} : Template[kind] \in Texts
  BY <1>1, <1>3 DEF Coach!CoachAssumption
<1> QED BY <1>1, <1>4, <1>5 DEF Coach!CoachAssumption, Coach!IsFiniteSet, IsFiniteSet, Lengths

\* The larger of numbers, and the smaller of them.
LEMMA CoachMaxMin ==
    /\ \A a, b \in Int : Coach!Max({a, b}) = IF a >= b THEN a ELSE b
    /\ \A a, b \in Int : Coach!Min({a, b}) = IF a <= b THEN a ELSE b
    /\ \A a, b \in Int : Coach!Max({a, b, 0}) \in Nat
    /\ \A S \in SUBSET Nat : S # {} => Coach!Min(S) \in S /\ \A n \in S : Coach!Min(S) <= n
<1>1. \A a, b \in Int : Coach!Max({a, b}) = IF a >= b THEN a ELSE b
  BY DEF Coach!Max
<1>2. \A a, b \in Int : Coach!Min({a, b}) = IF a <= b THEN a ELSE b
  BY DEF Coach!Min
<1>3. ASSUME NEW a \in Int, NEW b \in Int PROVE Coach!Max({a, b, 0}) \in Nat
  <2>1. \E n \in {a, b, 0} : \A m \in {a, b, 0} : n >= m
    <3>1. CASE a >= b /\ a >= 0
      BY <3>1
    <3>2. CASE b >= a /\ b >= 0
      BY <3>2
    <3>3. CASE 0 >= a /\ 0 >= b
      BY <3>3
    <3> QED BY <3>1, <3>2, <3>3
  <2>2. Coach!Max({a, b, 0}) \in {a, b, 0} /\ \A m \in {a, b, 0} : Coach!Max({a, b, 0}) >= m
    BY <2>1 DEF Coach!Max
  <2> QED BY <2>2
<1>4. ASSUME NEW S \in SUBSET Nat, S # {}
      PROVE  Coach!Min(S) \in S /\ \A n \in S : Coach!Min(S) <= n
  <2>1. \E n \in S : \A m \in S : n <= m
    BY <1>4, LeastNatural
  <2> QED BY <2>1 DEF Coach!Min
<1> QED BY <1>1, <1>2, <1>3, <1>4

\* What is kept of a sequence is made of its elements, and of different ones if the
\* places that are kept have different ones.
LEMMA WhatIsKept ==
    ASSUME NEW T, NEW s \in Seq(T), NEW keep
    PROVE  /\ Coach!Kept(s, keep) \in Seq(T)
           /\ (\A i, j \in keep \cap DOMAIN s : s[i] = s[j] => i = j) =>
                 \A k, l \in DOMAIN Coach!Kept(s, keep) :
                     Coach!Kept(s, keep)[k] = Coach!Kept(s, keep)[l] => k = l
<1> DEFINE n == Len(s)
           V == Seq(T)
           step == [i \in 1..n |-> [v \in V |-> IF i \in keep THEN Append(v, s[i]) ELSE v]]
           Solves(h) == h = [i \in 0..n |-> IF i = 0 THEN <<>>
                                            ELSE IF i \in keep THEN Append(h[i - 1], s[i])
                                            ELSE h[i - 1]]
           kept == CHOOSE h : Solves(h)
<1>1. n \in Nat /\ <<>> \in V /\ DOMAIN s = 1..n /\ \A i \in 1..n : s[i] \in T
  OBVIOUS
<1>2. step \in [1..n -> [V -> V]]
  BY <1>1
<1>3. \E h : Solves(h)
  <2>1. PICK h \in [0..n -> V] : IsIteration(h, n, <<>>, step)
    <3> HIDE DEF step, n, V
    <3> QED BY <1>1, <1>2, Iterates
  <2>2. \A i \in 1..n : step[i][h[i - 1]] = IF i \in keep THEN Append(h[i - 1], s[i]) ELSE h[i - 1]
    <3> SUFFICES ASSUME NEW i \in 1..n
                 PROVE  step[i][h[i - 1]] = IF i \in keep THEN Append(h[i - 1], s[i]) ELSE h[i - 1]
      OBVIOUS
    <3>1. h[i - 1] \in V
      BY <1>1
    <3> QED BY <3>1
  <2> DEFINE k == [i \in 0..n |-> IF i = 0 THEN <<>>
                                  ELSE IF i \in keep THEN Append(h[i - 1], s[i]) ELSE h[i - 1]]
  <2>3. k = [i \in 0..n |-> k[i]]
    OBVIOUS
  <2>4. \A i \in 0..n : h[i] = k[i]
    <3> SUFFICES ASSUME NEW i \in 0..n PROVE h[i] = k[i]
      OBVIOUS
    <3>1. h[i] = IF i = 0 THEN <<>> ELSE step[i][h[i - 1]]
      <4> HIDE DEF step, n
      <4> QED BY <2>1 DEF IsIteration
    <3>2. i # 0 => i \in 1..n
      BY <1>1
    <3> HIDE DEF step
    <3> QED BY <2>2, <3>1, <3>2
  <2>5. h = k
    <3>1. h = [i \in 0..n |-> h[i]]
      BY <2>1 DEF IsIteration
    <3> HIDE DEF k
    <3> QED BY <3>1, <2>3, <2>4
  <2> QED BY <2>5
<1>4. Solves(kept)
  <2> HIDE DEF Solves
  <2> QED BY <1>3
<1>5. Coach!Kept(s, keep) = kept[n]
  BY DEF Coach!Kept
<1>6. /\ kept[0] = <<>>
      /\ \A i \in 0..(n - 1) :
            kept[i + 1] = IF i + 1 \in keep THEN Append(kept[i], s[i + 1]) ELSE kept[i]
  <2> HIDE DEF kept
  <2>1. \A i \in 0..n : kept[i] = IF i = 0 THEN <<>>
                                  ELSE IF i \in keep THEN Append(kept[i - 1], s[i])
                                  ELSE kept[i - 1]
    BY <1>4
  <2>2. \A i \in 0..(n - 1) : i + 1 \in 0..n /\ i + 1 # 0 /\ (i + 1) - 1 = i
    BY <1>1
  <2>3. 0 \in 0..n
    BY <1>1
  <2> HIDE DEF n
  <2>4. ASSUME NEW i \in 0..(n - 1)
        PROVE  kept[i + 1] = IF i + 1 \in keep THEN Append(kept[i], s[i + 1]) ELSE kept[i]
    BY <2>1, <2>2
  <2> QED BY <2>1, <2>3, <2>4
<1> HIDE DEF kept, n, Solves, step
<1> DEFINE From(v, i) == \A k \in DOMAIN v : \E j \in keep : j \in 1..i /\ v[k] = s[j]
           P == {i \in 0..n : kept[i] \in V /\ From(kept[i], i)}
<1>7. \A i \in 0..n : i \in P
  <2>1. 0 \in P
    <3>1. 0 \in 0..n /\ kept[0] \in V
      BY <1>1, <1>6
    <3>2. From(kept[0], 0)
      BY <1>6
    <3> QED BY <3>1, <3>2
  <2>2. ASSUME NEW i \in 0..(n - 1), i \in P PROVE i + 1 \in P
    <3>1. i + 1 \in 0..n /\ i + 1 \in 1..n /\ kept[i] \in V /\ From(kept[i], i) /\ s[i + 1] \in T
      BY <1>1, <2>2
    <3>2. CASE i + 1 \in keep
      <4>1. kept[i + 1] = Append(kept[i], s[i + 1])
        BY <1>6, <3>2
      <4>2. kept[i + 1] \in V
        BY <3>1, <4>1
      <4>3. ASSUME NEW k \in DOMAIN kept[i + 1]
            PROVE  \E j \in keep : j \in 1..(i + 1) /\ kept[i + 1][k] = s[j]
        <5>1. CASE k = Len(kept[i]) + 1
          <6>1. kept[i + 1][k] = s[i + 1] /\ i + 1 \in 1..(i + 1)
            BY <3>1, <4>1, <5>1
          <6> QED BY <3>2, <6>1
        <5>2. CASE k # Len(kept[i]) + 1
          <6>1. k \in DOMAIN kept[i] /\ kept[i + 1][k] = kept[i][k]
            BY <3>1, <4>1, <5>2
          <6>2. PICK j \in keep : j \in 1..i /\ kept[i][k] = s[j]
            BY <3>1, <6>1
          <6> QED BY <6>1, <6>2
        <5> QED BY <5>1, <5>2
      <4> QED BY <3>1, <4>2, <4>3
    <3>3. CASE i + 1 \notin keep
      <4>1. kept[i + 1] = kept[i]
        BY <1>6, <3>3
      <4>2. From(kept[i], i + 1)
        BY <3>1
      <4> QED BY <3>1, <4>1, <4>2
    <3> QED BY <3>2, <3>3
  <2> HIDE DEF P
  <2> QED BY <1>1, <2>1, <2>2, CountingUp
<1>8. Coach!Kept(s, keep) \in V
  BY <1>1, <1>5, <1>7
<1>9. ASSUME \A i, j \in keep \cap DOMAIN s : s[i] = s[j] => i = j
      PROVE  \A k, l \in DOMAIN kept[n] : kept[n][k] = kept[n][l] => k = l
  <2> DEFINE Differ(v) == \A k, l \in DOMAIN v : v[k] = v[l] => k = l
             Q == {i \in 0..n : Differ(kept[i])}
  <2>1. 0 \in Q
    BY <1>1, <1>6
  <2>2. ASSUME NEW i \in 0..(n - 1), i \in Q PROVE i + 1 \in Q
    <3>1. i + 1 \in 0..n /\ i + 1 \in 1..n /\ i \in 0..n /\ kept[i] \in V /\ From(kept[i], i)
          /\ Differ(kept[i]) /\ s[i + 1] \in T
      BY <1>1, <1>7, <2>2
    <3>2. CASE i + 1 \in keep
      <4>1. kept[i + 1] = Append(kept[i], s[i + 1])
        BY <1>6, <3>2
      <4>2. \A k \in DOMAIN kept[i] : kept[i][k] # s[i + 1]
        <5> SUFFICES ASSUME NEW k \in DOMAIN kept[i], kept[i][k] = s[i + 1] PROVE FALSE
          OBVIOUS
        <5>1. PICK j \in keep : j \in 1..i /\ kept[i][k] = s[j]
          BY <3>1
        <5>2. j \in DOMAIN s /\ i + 1 \in DOMAIN s /\ j # i + 1
          BY <1>1, <3>1, <5>1
        <5> QED BY <1>9, <3>2, <5>1, <5>2
      <4>3. ASSUME NEW k \in DOMAIN kept[i + 1], NEW l \in DOMAIN kept[i + 1],
                   kept[i + 1][k] = kept[i + 1][l]
            PROVE  k = l
        <5>1. /\ k = Len(kept[i]) + 1 => kept[i + 1][k] = s[i + 1]
              /\ k # Len(kept[i]) + 1 => k \in DOMAIN kept[i] /\ kept[i + 1][k] = kept[i][k]
          BY <3>1, <4>1
        <5>2. /\ l = Len(kept[i]) + 1 => kept[i + 1][l] = s[i + 1]
              /\ l # Len(kept[i]) + 1 => l \in DOMAIN kept[i] /\ kept[i + 1][l] = kept[i][l]
          BY <3>1, <4>1
        <5> QED BY <3>1, <4>2, <4>3, <5>1, <5>2
      <4> QED BY <3>1, <4>3
    <3>3. CASE i + 1 \notin keep
      BY <1>6, <3>1, <3>3
    <3> QED BY <3>2, <3>3
  <2>3. n \in Q
    <3> HIDE DEF Q
    <3>1. \A i \in 0..n : i \in Q
      BY <1>1, <2>1, <2>2, CountingUp
    <3> QED BY <1>1, <3>1
  <2> QED BY <2>3
<1> QED BY <1>5, <1>8, <1>9

\* What the cleaning leaves of a text is a text.
LEMMA TonesAreTexts ==
    ASSUME NEW t \in Words, NEW locale
    PROVE  Coach!ApplyTone(t, locale) \in Words
<1> USE DEF Words
<1>1. Coach!NormalizeDashes(t) \in Seq(Vocabulary)
  <2> DEFINE word(i) == IF t[i] = "dash" THEN "hyphen" ELSE t[i]
  <2>1. Len(t) \in Nat /\ DOMAIN t = 1..Len(t) /\ \A i \in 1..Len(t) : t[i] \in Vocabulary
    OBVIOUS
  <2>2. ASSUME NEW i \in 1..Len(t) PROVE word(i) \in Vocabulary
    <3>1. t[i] \in Vocabulary /\ "hyphen" \in Vocabulary
      BY <2>1 DEF Vocabulary
    <3> QED BY <3>1
  <2>3. Coach!NormalizeDashes(t) = [i \in 1..Len(t) |-> word(i)]
    BY <2>1 DEF Coach!NormalizeDashes
  <2> HIDE DEF word
  <2> QED BY <2>1, <2>2, <2>3
<1>2. \A s \in Seq(Vocabulary) : Coach!StripAiSlop(s) \in Seq(Vocabulary)
  BY WhatIsKept DEF Coach!StripAiSlop
<1>3. \A s \in Seq(Vocabulary) : Coach!EnforceUmlauts(s) \in Seq(Vocabulary)
  <2> SUFFICES ASSUME NEW s \in Seq(Vocabulary) PROVE Coach!EnforceUmlauts(s) \in Seq(Vocabulary)
    OBVIOUS
  <2> DEFINE word(i) == IF s[i] = "fuer" THEN "umlaut" ELSE s[i]
  <2>1. Len(s) \in Nat /\ DOMAIN s = 1..Len(s) /\ \A i \in 1..Len(s) : s[i] \in Vocabulary
    OBVIOUS
  <2>2. ASSUME NEW i \in 1..Len(s) PROVE word(i) \in Vocabulary
    <3>1. s[i] \in Vocabulary /\ "umlaut" \in Vocabulary
      BY <2>1 DEF Vocabulary
    <3> QED BY <3>1
  <2>3. Coach!EnforceUmlauts(s) = [i \in 1..Len(s) |-> word(i)]
    BY <2>1 DEF Coach!EnforceUmlauts
  <2> HIDE DEF word
  <2> QED BY <2>1, <2>2, <2>3
<1> QED BY <1>1, <1>2, <1>3 DEF Coach!ApplyTone

\* So are its paragraphs.
LEMMA ParagraphsAreTexts == \A t \in Words : Coach!Paragraphs(t) \in Texts
<1> SUFFICES ASSUME NEW t \in Words PROVE Coach!Paragraphs(t) \in Texts
  OBVIOUS
<1> DEFINE n == Len(t)
           Breaks == {0, n + 1} \cup {i \in DOMAIN t : t[i] = "break"}
           After(b) == Coach!Min({c \in Breaks : c > b})
           From(b) == SubSeq(t, b + 1, After(b) - 1)
           parts == [i \in 1..(n + 1) |-> IF i - 1 \in Breaks THEN From(i - 1) ELSE <<>>]
<1>1. n \in Nat /\ DOMAIN t = 1..n /\ t \in Seq(Vocabulary) /\ Breaks \in SUBSET Nat
  BY DEF Words
<1>2. ASSUME NEW b \in 0..n PROVE From(b) \in Seq(Vocabulary)
  <2> DEFINE S == {c \in Breaks : c > b}
  <2>1. S \in SUBSET Nat /\ n + 1 \in S
    BY <1>1
  <2>2. Coach!Min(S) \in S /\ Coach!Min(S) <= n + 1
    <3> HIDE DEF S, n
    <3> QED BY <2>1, CoachMaxMin
  <2>3. b + 1 \in 1..(n + 1) /\ After(b) - 1 \in b..n
    <3>1. Coach!Min(S) \in Nat /\ Coach!Min(S) > b
      BY <2>1, <2>2
    <3> HIDE DEF n, Breaks
    <3> QED BY <1>1, <2>2, <3>1
  <2> HIDE DEF After, Breaks
  <2> QED BY <1>1, <2>3, SubSeqProperties
<1>3. parts \in Seq(Seq(Vocabulary))
  <2>1. ASSUME NEW i \in 1..(n + 1)
        PROVE  (IF i - 1 \in Breaks THEN From(i - 1) ELSE <<>>) \in Seq(Vocabulary)
    <3>1. i - 1 \in 0..n
      BY <1>1
    <3>2. From(i - 1) \in Seq(Vocabulary)
      <4> HIDE DEF From, n
      <4> QED BY <1>2, <3>1
    <3>3. <<>> \in Seq(Vocabulary)
      OBVIOUS
    <3> HIDE DEF From, Breaks
    <3> QED BY <3>2, <3>3
  <2> HIDE DEF From, Breaks
  <2>2. parts \in [1..(n + 1) -> Seq(Vocabulary)] /\ n + 1 \in Nat
    BY <1>1, <2>1
  <2> QED BY <2>2
<1>4. Coach!Paragraphs(t) = Coach!Kept(parts, {i \in DOMAIN parts : parts[i] # <<>>})
  BY DEF Coach!Paragraphs
<1> HIDE DEF parts
<1> QED BY <1>3, <1>4, WhatIsKept DEF Texts, Words

\* How far a text is from the length that is wanted.
LEMMA DistancesAreNatural ==
    \A t \in Words : \A w \in Lengths : Coach!Distance(Len(t), w) \in Nat
<1> SUFFICES ASSUME NEW t \in Words, NEW w \in Lengths
             PROVE  Coach!Distance(Len(t), w) \in Nat
  OBVIOUS
<1>1. w.min - Len(t) \in Int /\ Len(t) - w.max \in Int
  BY DEF Words, Lengths
<1> QED BY <1>1, CoachMaxMin DEF Coach!Distance

\* Variants that differ, and one of them, if there are any, that none is better than.
AreRanked(ranked, w) ==
    /\ \A i, j \in DOMAIN ranked.variants : ranked.variants[i] = ranked.variants[j] => i = j
    /\ \A i \in DOMAIN ranked.variants :
          Coach!Distance(Len(ranked.variants[ranked.recommended]), w)
              <= Coach!Distance(Len(ranked.variants[i]), w)

\* Whatever is ranked, comes out ranked.
LEMMA RanksAreRight ==
    ASSUME NEW texts \in Texts, NEW w \in Lengths
    PROVE  /\ Coach!Rank(texts, w) \in [variants : Texts, recommended : Nat]
           /\ AreRanked(Coach!Rank(texts, w), w)
<1> DEFINE keep == {i \in DOMAIN texts : texts[i] # <<>> /\ \A j \in 1..(i - 1) : texts[j] # texts[i]}
           cleaned == Coach!Dedupe(texts)
           recommended == Coach!Rank(texts, w).recommended
           Far(i) == Coach!Distance(Len(cleaned[i]), w)
<1>1. /\ cleaned \in Texts
      /\ \A k, l \in DOMAIN cleaned : cleaned[k] = cleaned[l] => k = l
  <2>1. cleaned = Coach!Kept(texts, keep)
    BY DEF Coach!Dedupe
  <2>2. ASSUME NEW i \in keep, NEW j \in keep, texts[i] = texts[j] PROVE i = j
    <3>1. i \in Int /\ j \in Int /\ i >= 1 /\ j >= 1
      BY DEF Texts
    <3>2. ~(i < j) /\ ~(j < i)
      BY <2>2, <3>1
    <3> QED BY <3>1, <3>2
  <2>3. \A i, j \in keep \cap DOMAIN texts : texts[i] = texts[j] => i = j
    BY <2>2
  <2> HIDE DEF keep, cleaned
  <2>4. texts \in Seq(Words)
    BY DEF Texts
  <2>5. /\ Coach!Kept(texts, keep) \in Seq(Words)
        /\ \A k, l \in DOMAIN Coach!Kept(texts, keep) :
              Coach!Kept(texts, keep)[k] = Coach!Kept(texts, keep)[l] => k = l
    BY <2>3, <2>4, WhatIsKept
  <2> QED BY <2>1, <2>5 DEF Texts
<1>2. Coach!Rank(texts, w) = [variants |-> cleaned,
          recommended |-> IF cleaned = <<>> THEN 0 ELSE Coach!Min(Coach!Closest(cleaned, w))]
  BY DEF Coach!Rank
<1> HIDE DEF cleaned
<1>3. \A i \in DOMAIN cleaned : Far(i) \in Nat
  BY <1>1, DistancesAreNatural DEF Texts
<1>4. CASE cleaned = <<>>
  <2>1. Coach!Rank(texts, w) = [variants |-> <<>>, recommended |-> 0] /\ DOMAIN <<>> = {}
    BY <1>2, <1>4
  <2> QED BY <1>1, <1>4, <2>1 DEF AreRanked
<1>5. CASE cleaned # <<>>
  <2> DEFINE D == {Far(i) : i \in DOMAIN cleaned}
             C == Coach!Closest(cleaned, w)
  <2>1. C = {i \in DOMAIN cleaned : \A j \in DOMAIN cleaned : Far(i) <= Far(j)}
    BY DEF Coach!Closest
  <2>2. 1 \in DOMAIN cleaned /\ DOMAIN cleaned \in SUBSET Nat
    BY <1>1, <1>5 DEF Texts
  <2> HIDE DEF Far, C
  <2>3. PICK d \in D : \A e \in D : d <= e
    <3>1. D \in SUBSET Nat /\ D # {}
      BY <1>3, <2>2
    <3> HIDE DEF D
    <3> QED BY <3>1, LeastNatural
  <2>4. C # {} /\ C \in SUBSET Nat
    BY <2>1, <2>2, <2>3
  <2>5. Coach!Min(C) \in C
    BY <2>4, CoachMaxMin
  <2>6. Coach!Rank(texts, w) = [variants |-> cleaned, recommended |-> Coach!Min(C)]
    BY <1>2, <1>5 DEF C
  <2>7. \A i \in DOMAIN cleaned : Far(Coach!Min(C)) <= Far(i)
    BY <2>1, <2>5
  <2>8. Coach!Min(C) \in Nat
    BY <2>4, <2>5
  <2> QED BY <1>1, <2>6, <2>7, <2>8 DEF AreRanked, Far
<1> QED BY <1>4, <1>5

\* Who takes texts in turn takes one of them.
LEMMA TextsInTurn == \A m \in Nat \ {0} : \A k \in Nat : (k % m) + 1 \in 1..m
<1>1. \A m \in Nat \ {0} : \A k \in Nat : k % m \in 0..(m - 1)
  OBVIOUS
<1>2. \A m \in Nat \ {0} : \A z \in 0..(m - 1) : z + 1 \in 1..m
  OBVIOUS
<1> QED BY <1>1, <1>2

\* The first of a sequence, but not more than it has.
LEMMA FirstPlaces ==
    ASSUME NEW S, NEW s \in Seq(S), NEW v \in Nat, NEW m,
           m = IF v <= Len(s) THEN v ELSE Len(s)
    PROVE  m \in Int /\ \A i \in 1..m : s[i] \in S
<1>1. Len(s) \in Nat /\ \A i \in 1..Len(s) : s[i] \in S
  OBVIOUS
<1>2. m \in Int /\ \A i \in 1..m : i \in 1..Len(s)
  <2>1. CASE v <= Len(s)
    BY <1>1, <2>1
  <2>2. CASE ~(v <= Len(s))
    BY <1>1, <2>2
  <2> QED BY <2>1, <2>2
<1> QED BY <1>1, <1>2

LEMMA FirstTexts ==
    ASSUME NEW S, NEW s \in Seq(S), NEW v \in Nat
    PROVE  SubSeq(s, 1, Coach!Min({v, Len(s)})) \in Seq(S)
<1> DEFINE m == Coach!Min({v, Len(s)})
<1>1. m = IF v <= Len(s) THEN v ELSE Len(s)
  BY CoachMaxMin
<1> HIDE DEF m
<1>2. m \in Int /\ \A i \in 1..m : s[i] \in S
  BY <1>1, FirstPlaces
<1>3. SubSeq(s, 1, m) \in Seq(S)
  BY <1>2, SubSeqProperties
<1> QED BY <1>3 DEF m

\* What providers answer is texts.
LEMMA AnswersAreTexts ==
    ASSUME NEW kind \in Kind, NEW locale, NEW hints,
           NEW raw \in Coach!MockVariants(Coach!BuildPrompt(kind, locale, hints))
                       \cup Coach!ClaudeVariants(Coach!BuildPrompt(kind, locale, hints))
    PROVE  raw \in Texts
<1> DEFINE prompt == Coach!BuildPrompt(kind, locale, hints)
<1>1. prompt.variants \in Nat
  BY DEF Coach!BuildPrompt
<1> HIDE DEF prompt
<1>2. CASE raw \in Coach!MockVariants(prompt)
  <2> PICK all : all = Template[Coach!DetectKind(prompt)]
    OBVIOUS
  <2>1. all \in Seq(Words)
    BY CoachConstants DEF Coach!DetectKind, Texts
  <2>2. PICK offset \in 0..(Len(all) - 1) :
            raw = [i \in 1..prompt.variants |-> all[((offset + i) % Len(all)) + 1]]
    BY <1>2 DEF Coach!MockVariants
  <2>3. Len(all) \in Nat \ {0}
    BY <2>1, <2>2
  <2>4. \A i \in 1..prompt.variants : ((offset + i) % Len(all)) + 1 \in 1..Len(all)
    <3>1. \A i \in 1..prompt.variants : offset + i \in Nat
      BY <1>1, <2>3
    <3> QED BY <2>3, <3>1, TextsInTurn
  <2>5. \A i \in 1..prompt.variants : all[((offset + i) % Len(all)) + 1] \in Words
    BY <2>1, <2>4
  <2>6. raw \in [1..prompt.variants -> Words]
    BY <2>2, <2>5
  <2> QED BY <1>1, <2>6 DEF Texts
<1>3. CASE raw \in Coach!ClaudeVariants(prompt)
  <2>1. PICK t \in Reply : raw = SubSeq(Coach!Paragraphs(t), 1,
                                        Coach!Min({prompt.variants, Len(Coach!Paragraphs(t))}))
    BY <1>3 DEF Coach!ClaudeVariants
  <2>2. Coach!Paragraphs(t) \in Seq(Words)
    BY CoachConstants, ParagraphsAreTexts DEF Texts
  <2> QED BY <1>1, <2>1, <2>2, FirstTexts DEF Texts
<1> QED BY <1>2, <1>3 DEF prompt

\* What an answer costs is a number.
LEMMA TokensAreNatural ==
    \A texts \in Texts : \A input \in Nat :
        Coach!EstimateTokens(input, Coach!CharsOf(texts)) \in Nat
<1> SUFFICES ASSUME NEW texts \in Texts, NEW input \in Nat
             PROVE  Coach!EstimateTokens(input, Coach!CharsOf(texts)) \in Nat
  OBVIOUS
<1> DEFINE g == [i \in DOMAIN texts |-> Len(texts[i])]
<1>1. Coach!CharsOf(texts) = Total(g, DOMAIN texts)
  BY DEF Coach!CharsOf, Coach!MapThenSumSet, Coach!MapThenFoldSet, Total, MapThenSumSet,
         MapThenFoldSet
<1>2. Total(g, DOMAIN texts) \in Nat
  <2>1. DOMAIN texts = 1..Len(texts) /\ Len(texts) \in Nat /\ \A i \in DOMAIN texts : g[i] \in Nat
    BY DEF Texts, Words
  <2>2. IsFiniteSet(DOMAIN texts)
    BY <2>1, FS_Interval
  <2> HIDE DEF g
  <2> QED BY <2>1, <2>2, TotalIsNatural
<1> PICK total : total = Coach!CharsOf(texts)
  OBVIOUS
<1> PICK q : q = (input + total + CharsPerToken - 1) \div CharsPerToken
  OBVIOUS
<1>3. q \in Int
  <2>1. input + total + CharsPerToken - 1 \in Int
    BY <1>1, <1>2, CoachConstants
  <2> QED BY <2>1, CoachConstants
<1>4. Coach!EstimateTokens(input, total) = Coach!Max({MinTokens, q})
  BY DEF Coach!EstimateTokens
<1>5. Coach!Max({MinTokens, q}) \in Nat
  BY <1>3, CoachConstants, CoachMaxMin
<1> QED BY <1>4, <1>5

-----------------------------------------------------------------------------
(* Coach: what requests hold.                                              *)

CoachPrompts == {Coach!BuildPrompt(kind, locale, hints) : kind \in Kind, locale \in Locale, hints \in Hints}
CoachBudgets == [used : 0..TokenLimit, generations : Nat]
CoachRanks == [variants : Texts, recommended : Nat]
CoachAsked == [step : {"generate"}, user : User, kind : Kind, input : InputLength,
               state : CoachBudgets, prompt : CoachPrompts]
CoachWritten == [step : {"charge", "log"}, user : User, kind : Kind, state : CoachBudgets,
                 ranked : CoachRanks, parts : SUBSET {Coach!SplitStory(t) : t \in Words}, tokens : Nat]
CoachTasks == {Coach!Idle} \cup CoachAsked \cup CoachWritten
CoachRow == [user : User, kind : Kind, tokens : Nat, variants : Nat]

LEMMA CoachStages ==
    /\ Coach!Idle.step = "idle"
    /\ \A t \in CoachTasks :
          /\ t.step \in {"idle", "generate", "charge", "log"}
          /\ t.step = "idle" <=> t = Coach!Idle
          /\ t.step = "generate" <=> t \in CoachAsked
          /\ t.step \in {"charge", "log"} <=> t \in CoachWritten
<1>1. Coach!Idle.step = "idle"
  BY DEF Coach!Idle
<1>2. \A t \in CoachAsked : t.step = "generate"
  BY DEF CoachAsked
<1>3. \A t \in CoachWritten : t.step \in {"charge", "log"}
  BY DEF CoachWritten
<1> HIDE DEF CoachAsked, CoachWritten
<1> QED BY <1>1, <1>2, <1>3 DEF CoachTasks

CoachTypes ==
    /\ coachProvider \in {"mock", "claude"}
    /\ coachBudget \in [User -> CoachBudgets \cup {Coach!NoBudget}]
    /\ coachLog \in Seq(CoachRow)
    /\ coachRequest \in [Hand -> CoachTasks]
    /\ coachAlone \in BOOLEAN

\* What was written is ranked.
CoachShown ==
    \A r \in Hand : coachRequest[r] \in CoachWritten =>
        AreRanked(coachRequest[r].ranked, Window[coachRequest[r].kind])

\* What generations of a student cost, in the log and on its way.
TokensOf(rows, S) == [i \in S |-> rows[i].tokens]
GenerationsOf(rows, u) == {i \in DOMAIN rows : rows[i].user = u}
UnloggedOf(tasks, u) == {r \in Hand : tasks[r].step = "log" /\ tasks[r].user = u}
SpentOf(rows, u) == Total(TokensOf(rows, GenerationsOf(rows, u)), GenerationsOf(rows, u))
OnItsWayOf(tasks, u) == Total(TokensOf(tasks, UnloggedOf(tasks, u)), UnloggedOf(tasks, u))

\* One student at a time waits; what the request has read is what is stored, and a
\* budget that was never opened has cost nothing.
OneStudentWaits ==
    \A q, r \in Hand : coachRequest[q] # Coach!Idle /\ coachRequest[r] # Coach!Idle => q = r
CoachReads ==
    \A r \in Hand :
        /\ coachRequest[r] # Coach!Idle => coachBudget[coachRequest[r].user] # Coach!NoBudget
        /\ coachRequest[r].step \in {"generate", "charge"} =>
              coachBudget[coachRequest[r].user] = coachRequest[r].state
CoachUnused == \A u \in User : coachBudget[u] = Coach!NoBudget => GenerationsOf(coachLog, u) = {}
CoachUsed ==
    \A u \in User : coachBudget[u] # Coach!NoBudget =>
        coachBudget[u].used =
            Coach!Min({TokenLimit, SpentOf(coachLog, u) + OnItsWayOf(coachRequest, u)})
CoachAlone == OneStudentWaits /\ CoachReads /\ CoachUnused /\ CoachUsed

CoachInv == CoachTypes /\ CoachShown /\ (coachAlone => CoachAlone)

LEMMA CoachSums ==
    ASSUME NEW u
    PROVE  /\ Coach!Spent(u) = SpentOf(coachLog, u)
           /\ Coach!OnItsWay(u) = OnItsWayOf(coachRequest, u)
<1>1. Coach!Spent(u) = SpentOf(coachLog, u)
  BY DEF Coach!Spent, Coach!MapThenSumSet, Coach!MapThenFoldSet, TokensOf, Total, MapThenSumSet,
         MapThenFoldSet, SpentOf, GenerationsOf, Coach!Generations
<1>2. Coach!OnItsWay(u) = OnItsWayOf(coachRequest, u)
  BY DEF Coach!OnItsWay, Coach!MapThenSumSet, Coach!MapThenFoldSet, TokensOf, Total, MapThenSumSet,
         MapThenFoldSet, OnItsWayOf, UnloggedOf, Coach!Unlogged
<1> QED BY <1>1, <1>2

\* The generations in a log are finitely many, and cost a number.
LEMMA SpentIsNatural ==
    ASSUME NEW rows \in Seq(CoachRow), NEW u
    PROVE  /\ IsFiniteSet(GenerationsOf(rows, u))
           /\ \A i \in GenerationsOf(rows, u) :
                 i \in 1..Len(rows) /\ TokensOf(rows, GenerationsOf(rows, u))[i] \in Nat
           /\ SpentOf(rows, u) \in Nat
<1>1. DOMAIN rows = 1..Len(rows) /\ Len(rows) \in Nat /\ \A i \in 1..Len(rows) : rows[i] \in CoachRow
  OBVIOUS
<1>2. \A row \in CoachRow : row.tokens \in Nat
  BY DEF CoachRow
<1>3. IsFiniteSet(GenerationsOf(rows, u)) /\ GenerationsOf(rows, u) \subseteq 1..Len(rows)
  <2>1. GenerationsOf(rows, u) \subseteq 1..Len(rows) /\ IsFiniteSet(1..Len(rows))
    BY <1>1, FS_Interval DEF GenerationsOf
  <2> QED BY <2>1, FS_Subset
<1>4. \A i \in GenerationsOf(rows, u) : TokensOf(rows, GenerationsOf(rows, u))[i] \in Nat
  BY <1>1, <1>2, <1>3 DEF TokensOf
<1>5. SpentOf(rows, u) \in Nat
  BY <1>3, <1>4, TotalIsNatural DEF SpentOf
<1> QED BY <1>3, <1>4, <1>5

\* One more generation costs what it costs, and costs its student.
LEMMA SpentOnOneMore ==
    ASSUME NEW rows \in Seq(CoachRow), NEW row \in CoachRow, NEW u
    PROVE  SpentOf(Append(rows, row), u)
               = IF row.user = u THEN SpentOf(rows, u) + row.tokens ELSE SpentOf(rows, u)
<1> DEFINE more == Append(rows, row)
           n == Len(rows) + 1
           G == GenerationsOf(rows, u)
           H == GenerationsOf(more, u)
<1>1. /\ Len(rows) \in Nat /\ DOMAIN rows = 1..Len(rows) /\ DOMAIN more = 1..n
      /\ more[n] = row /\ \A i \in 1..Len(rows) : more[i] = rows[i]
  OBVIOUS
<1>2. /\ IsFiniteSet(G) /\ SpentOf(rows, u) \in Nat
      /\ \A i \in G : i \in 1..Len(rows) /\ TokensOf(rows, G)[i] \in Nat
  BY SpentIsNatural
<1> HIDE DEF more
<1>3. n \notin G /\ \A i \in G : more[i] = rows[i] /\ i \in DOMAIN more
  BY <1>1, <1>2
<1>4. CASE row.user = u
  <2>1. H = G \cup {n}
    BY <1>1, <1>4 DEF GenerationsOf
  <2>2. \A i \in G : TokensOf(rows, G)[i] \in Int /\ TokensOf(more, H)[i] = TokensOf(rows, G)[i]
    BY <1>2, <1>3, <2>1 DEF TokensOf
  <2>3. TokensOf(more, H)[n] = row.tokens /\ row.tokens \in Int
    BY <1>1, <2>1 DEF TokensOf, CoachRow
  <2>4. Total(TokensOf(more, H), G \cup {n}) = Total(TokensOf(rows, G), G) + TokensOf(more, H)[n]
    <3> HIDE DEF G, H, n
    <3> QED BY <1>2, <1>3, <2>2, <2>3, TotalWithOneMore
  <2> QED BY <1>4, <2>1, <2>3, <2>4 DEF SpentOf, more
<1>5. CASE row.user # u
  <2>1. H = G
    BY <1>1, <1>5 DEF GenerationsOf
  <2>2. TokensOf(more, H) = TokensOf(rows, G)
    BY <1>3, <2>1 DEF TokensOf
  <2> QED BY <1>5, <2>1, <2>2 DEF SpentOf, more
<1> QED BY <1>4, <1>5

\* On its way is what the one request that logs has to log.
LEMMA OnItsWayIsOne ==
    ASSUME NEW tasks \in [Hand -> CoachTasks], NEW u
    PROVE  /\ UnloggedOf(tasks, u) = {} => OnItsWayOf(tasks, u) = 0
           /\ \A r \in Hand : UnloggedOf(tasks, u) = {r} =>
                 OnItsWayOf(tasks, u) = tasks[r].tokens /\ tasks[r].tokens \in Nat
<1>1. CASE UnloggedOf(tasks, u) = {}
  BY <1>1, TotalOfNone DEF OnItsWayOf
<1>2. ASSUME NEW r \in Hand, UnloggedOf(tasks, u) = {r}
      PROVE  OnItsWayOf(tasks, u) = tasks[r].tokens /\ tasks[r].tokens \in Nat
  <2>1. tasks[r].step = "log"
    BY <1>2 DEF UnloggedOf
  <2>2. tasks[r].tokens \in Nat
    BY <2>1, CoachStages DEF CoachWritten
  <2>3. TokensOf(tasks, {r})[r] = tasks[r].tokens
    BY DEF TokensOf
  <2>4. Total(TokensOf(tasks, {r}), {r}) = tasks[r].tokens
    BY <2>2, <2>3, TotalOfOne
  <2> QED BY <1>2, <2>2, <2>4 DEF OnItsWayOf
<1> QED BY <1>1, <1>2

\* A step of the whole is one of the coach, or leaves it alone.
LEMMA CoachSteps == [AllNext]_allVars =>
    \/ Coach!Next /\ coachAlone' = (coachAlone /\ Cardinality({h \in Hand : coachRequest'[h] # Coach!Idle}) <= 1)
    \/ /\ UNCHANGED coach
       /\ coachAlone' = coachAlone
          \/ coachAlone' = (coachAlone /\ Cardinality({h \in Hand : coachRequest'[h] # Coach!Idle}) <= 1)
BY DEF AllNext, PartNext, OtherParts, allVars, coach

\* Alone after a step means alone before, and one request at most.
LEMMA StillAlone ==
    ASSUME CoachTypes, coachRequest' \in [Hand -> CoachTasks],
           coachAlone' = (coachAlone /\ Cardinality({h \in Hand : coachRequest'[h] # Coach!Idle}) <= 1)
    PROVE  coachAlone' \in BOOLEAN /\ (coachAlone' => coachAlone /\ OneStudentWaits')
<1> DEFINE S == {h \in Hand : coachRequest'[h] # Coach!Idle}
<1>1. coachAlone' \in BOOLEAN /\ (coachAlone' => coachAlone /\ Cardinality(S) <= 1)
  BY DEF CoachTypes
<1>2. IsFiniteSet(S)
  BY CoachConstants, FS_Subset
<1>3. ASSUME Cardinality(S) <= 1, NEW q \in S, NEW r \in S PROVE q = r
  <2> HIDE DEF S
  <2> QED BY <1>2, <1>3, OneAtMost
<1>4. Cardinality(S) <= 1 => OneStudentWaits'
  BY <1>3 DEF OneStudentWaits
<1> QED BY <1>1, <1>4

\* Nothing on its way begins or ends, when nobody starts or ends to log.
LEMMA WayStays ==
    ASSUME NEW tasks \in [Hand -> CoachTasks], NEW r \in Hand, NEW t \in CoachTasks, NEW u,
           tasks[r].step # "log", t.step # "log"
    PROVE  OnItsWayOf([tasks EXCEPT ![r] = t], u) = OnItsWayOf(tasks, u)
<1> DEFINE more == [tasks EXCEPT ![r] = t]
<1>1. \A q \in Hand : more[q] = IF q = r THEN t ELSE tasks[q]
  OBVIOUS
<1> HIDE DEF more
<1>2. UnloggedOf(more, u) = UnloggedOf(tasks, u)
  BY <1>1 DEF UnloggedOf
<1>3. \A q \in UnloggedOf(tasks, u) : more[q] = tasks[q]
  BY <1>1 DEF UnloggedOf
<1>4. TokensOf(more, UnloggedOf(tasks, u)) = TokensOf(tasks, UnloggedOf(tasks, u))
  BY <1>3 DEF TokensOf
<1>5. OnItsWayOf(more, u) = OnItsWayOf(tasks, u)
  BY <1>2, <1>4 DEF OnItsWayOf
<1> QED BY <1>5 DEF more

\* How the history changes with every step.
CoachHistory ==
    coachAlone' = (coachAlone /\ Cardinality({h \in Hand : coachRequest'[h] # Coach!Idle}) <= 1)

LEMMA CoachAsks ==
    ASSUME CoachInv, CoachHistory, NEW r \in Hand, NEW u \in User, NEW kind \in Kind,
           NEW locale \in Locale, NEW hints \in Hints, NEW input \in InputLength,
           Coach!Ask(r, u, kind, locale, hints, input)
    PROVE  CoachInv'
<1> DEFINE b == IF coachBudget[u] = Coach!NoBudget THEN Coach!NewBudget ELSE coachBudget[u]
           t == [step |-> "generate", user |-> u, kind |-> kind, input |-> input,
                 state |-> b, prompt |-> Coach!BuildPrompt(kind, locale, hints)]
<1>1. /\ coachRequest[r] = Coach!Idle
      /\ coachBudget' = [coachBudget EXCEPT ![u] = b]
      /\ coachRequest' = coachRequest \/ coachRequest' = [coachRequest EXCEPT ![r] = t]
      /\ UNCHANGED <<coachProvider, coachLog>>
  BY DEF Coach!Ask, Coach!Continue
<1>2. CoachTypes
  BY DEF CoachInv
<1>3. b \in CoachBudgets /\ b # Coach!NoBudget
  <2>1. Coach!NewBudget \in CoachBudgets
    BY CoachConstants DEF Coach!NewBudget, CoachBudgets
  <2>2. \A c \in CoachBudgets : c # Coach!NoBudget
    BY CoachConstants DEF Coach!NoBudget, CoachBudgets
  <2> QED BY <1>2, <2>1, <2>2 DEF CoachTypes
<1>4. t \in CoachAsked
  BY <1>3 DEF CoachAsked, CoachPrompts
<1>5. t.step = "generate" /\ t.user = u /\ t.state = b
  OBVIOUS
<1>6. Coach!Idle.step = "idle" /\ t \in CoachTasks /\ t # Coach!Idle /\ t \notin CoachWritten
  BY <1>4, <1>5, CoachStages DEF CoachTasks
<1> HIDE DEF b, t
<1>7. coachRequest' \in [Hand -> CoachTasks]
  BY <1>1, <1>2, <1>6 DEF CoachTypes
<1>8. coachAlone' \in BOOLEAN /\ (coachAlone' => coachAlone /\ OneStudentWaits')
  BY <1>2, <1>7, StillAlone DEF CoachHistory
<1>9. CoachTypes'
  BY <1>1, <1>2, <1>3, <1>7, <1>8 DEF CoachTypes
<1>10. \A q \in Hand : coachRequest'[q] = coachRequest[q] \/ (q = r /\ coachRequest'[q] = t)
  BY <1>1, <1>2 DEF CoachTypes
<1>11. CoachShown'
  BY <1>6, <1>10 DEF CoachShown, CoachInv
<1>12. \A v \in User : coachBudget'[v] = IF v = u THEN b ELSE coachBudget[v]
  BY <1>1, <1>2 DEF CoachTypes
<1>13. coachBudget[u] # Coach!NoBudget => b = coachBudget[u]
  BY DEF b
<1>14. ASSUME coachAlone' PROVE CoachAlone'
  <2>1. CoachAlone /\ OneStudentWaits'
    BY <1>8, <1>14 DEF CoachInv
  <2>2. \A q \in Hand : coachRequest[q] # Coach!Idle => coachRequest[q].user \in User
    <3> SUFFICES ASSUME NEW q \in Hand, coachRequest[q] # Coach!Idle
                 PROVE  coachRequest[q].user \in User
      OBVIOUS
    <3>1. coachRequest[q] \in CoachAsked \/ coachRequest[q] \in CoachWritten
      BY <1>2 DEF CoachTypes, CoachTasks
    <3> QED BY <3>1 DEF CoachAsked, CoachWritten
  <2>3. CoachReads'
    <3> SUFFICES ASSUME NEW q \in Hand
                 PROVE  /\ coachRequest'[q] # Coach!Idle =>
                              coachBudget'[coachRequest'[q].user] # Coach!NoBudget
                        /\ coachRequest'[q].step \in {"generate", "charge"} =>
                              coachBudget'[coachRequest'[q].user] = coachRequest'[q].state
      BY DEF CoachReads
    <3>1. CASE coachRequest'[q] = t
      BY <1>3, <1>5, <1>12, <3>1
    <3>2. CASE coachRequest'[q] = coachRequest[q]
      <4>1. CASE coachRequest[q] = Coach!Idle
        BY <1>6, <3>2, <4>1
      <4>2. CASE coachRequest[q] # Coach!Idle
        <5>1. coachBudget[coachRequest[q].user] # Coach!NoBudget /\ coachRequest[q].user \in User
          BY <2>1, <2>2, <4>2 DEF CoachAlone, CoachReads
        <5>2. coachBudget'[coachRequest[q].user] = coachBudget[coachRequest[q].user]
          BY <1>12, <1>13, <5>1
        <5> QED BY <2>1, <3>2, <5>1, <5>2 DEF CoachAlone, CoachReads
      <4> QED BY <4>1, <4>2
    <3> QED BY <1>10, <3>1, <3>2
  <2>4. CoachUnused'
    BY <1>1, <1>3, <1>12, <2>1 DEF CoachAlone, CoachUnused
  <2>5. CoachUsed'
    <3> SUFFICES ASSUME NEW v \in User, coachBudget'[v] # Coach!NoBudget
                 PROVE  coachBudget'[v].used = Coach!Min({TokenLimit,
                            SpentOf(coachLog', v) + OnItsWayOf(coachRequest', v)})
      BY DEF CoachUsed
    <3>1. SpentOf(coachLog', v) = SpentOf(coachLog, v)
      BY <1>1
    <3>2. OnItsWayOf(coachRequest', v) = OnItsWayOf(coachRequest, v)
      <4>1. coachRequest[r].step # "log" /\ t.step # "log"
        BY <1>1, <1>5, <1>6
      <4>2. coachRequest \in [Hand -> CoachTasks]
        BY <1>2 DEF CoachTypes
      <4> QED BY <1>1, <1>6, <4>1, <4>2, WayStays
    <3>3. CASE coachBudget[v] # Coach!NoBudget
      <4>1. coachBudget'[v] = coachBudget[v]
        BY <1>12, <1>13, <3>3
      <4> QED BY <2>1, <3>1, <3>2, <3>3, <4>1 DEF CoachAlone, CoachUsed
    <3>4. CASE coachBudget[v] = Coach!NoBudget
      <4>1. v = u /\ coachBudget'[v] = Coach!NewBudget
        BY <1>12, <3>4 DEF b
      <4>2. GenerationsOf(coachLog, v) = {}
        BY <2>1, <3>4 DEF CoachAlone, CoachUnused
      <4>3. SpentOf(coachLog, v) = 0
        BY <4>2, TotalOfNone DEF SpentOf
      <4>4. UnloggedOf(coachRequest, v) = {}
        <5> SUFFICES ASSUME NEW q \in Hand, coachRequest[q].step = "log", coachRequest[q].user = v
                     PROVE  FALSE
          BY DEF UnloggedOf
        <5>1. coachRequest[q] # Coach!Idle
          BY <1>6
        <5> QED BY <2>1, <3>4, <5>1 DEF CoachAlone, CoachReads
      <4>5. OnItsWayOf(coachRequest, v) = 0
        BY <1>2, <4>4, OnItsWayIsOne DEF CoachTypes
      <4>6. Coach!Min({TokenLimit, 0}) = 0
        BY CoachConstants, CoachMaxMin
      <4>7. Coach!NewBudget.used = 0
        BY DEF Coach!NewBudget
      <4> QED BY <3>1, <3>2, <4>1, <4>3, <4>5, <4>6, <4>7
    <3> QED BY <3>3, <3>4
  <2> QED BY <2>1, <2>3, <2>4, <2>5 DEF CoachAlone
<1> QED BY <1>9, <1>11, <1>14 DEF CoachInv

\* The answer of a provider, and its failure: the request holds what it held.
LEMMA CoachGenerates ==
    ASSUME CoachInv, CoachHistory, NEW r \in Hand, Coach!Generate(r) \/ Coach!GenerateFails(r)
    PROVE  CoachInv'
<1>1. /\ coachRequest[r].step = "generate"
      /\ UNCHANGED <<coachProvider, coachBudget, coachLog>>
  BY DEF Coach!Generate, Coach!GenerateFails
<1>2. CoachTypes
  BY DEF CoachInv
<1>3. coachRequest[r] \in CoachAsked
  BY <1>1, <1>2, CoachStages DEF CoachTypes
<1>4. PICK t \in CoachTasks :
         /\ coachRequest' = [coachRequest EXCEPT ![r] = t]
         /\ \/ t = Coach!Idle
            \/ /\ t \in CoachWritten /\ t.step = "charge" /\ t.user = coachRequest[r].user
               /\ t.state = coachRequest[r].state
               /\ AreRanked(t.ranked, Window[t.kind])
  <2>1. CASE Coach!GenerateFails(r)
    BY <2>1 DEF Coach!GenerateFails, Coach!Continue, CoachTasks
  <2>2. CASE Coach!Generate(r)
    <3> DEFINE prompt == coachRequest[r].prompt
               kind == coachRequest[r].kind
               Toned(raw) == [i \in DOMAIN raw |-> Coach!ApplyTone(raw[i], prompt.locale)]
               Ranked(raw) == Coach!Rank(Toned(raw), Window[kind])
               Written(raw) == [step |-> "charge", user |-> coachRequest[r].user, kind |-> kind,
                     state |-> coachRequest[r].state, ranked |-> Ranked(raw),
                     parts |-> IF kind = "STORY"
                               THEN {Coach!SplitStory(Ranked(raw).variants[i]) : i \in DOMAIN Ranked(raw).variants}
                               ELSE {},
                     tokens |-> Coach!EstimateTokens(coachRequest[r].input, Coach!CharsOf(Ranked(raw).variants))]
    <3>1. PICK raw \in Coach!MockVariants(prompt) \cup Coach!ClaudeVariants(prompt) :
              coachRequest' = [coachRequest EXCEPT ![r] = Written(raw)]
      BY <2>2 DEF Coach!Generate, Coach!Continue
    <3>2. kind \in Kind /\ prompt \in CoachPrompts /\ coachRequest[r].input \in InputLength
          /\ coachRequest[r].user \in User /\ coachRequest[r].state \in CoachBudgets
      BY <1>3 DEF CoachAsked
    <3>3. raw \in Texts
      <4>1. PICK k \in Kind, locale \in Locale, hints \in Hints :
                prompt = Coach!BuildPrompt(k, locale, hints)
        BY <3>2 DEF CoachPrompts
      <4> HIDE DEF prompt
      <4> QED BY <3>1, <4>1, AnswersAreTexts
    <3>4. Toned(raw) \in Texts
      <4>1. raw \in Seq(Words)
        BY <3>3 DEF Texts
      <4>2. Len(raw) \in Nat /\ DOMAIN raw = 1..Len(raw) /\ \A i \in 1..Len(raw) : raw[i] \in Words
        BY <4>1
      <4>3. \A i \in 1..Len(raw) : Coach!ApplyTone(raw[i], prompt.locale) \in Words
        BY <4>2, TonesAreTexts
      <4>4. Toned(raw) \in [1..Len(raw) -> Words]
        BY <4>2, <4>3
      <4> HIDE DEF Toned
      <4> QED BY <4>2, <4>4 DEF Texts
    <3>5. Window[kind] \in Lengths
      BY <3>2, CoachConstants
    <3>6. Ranked(raw) \in CoachRanks /\ AreRanked(Ranked(raw), Window[kind])
      <4> HIDE DEF Toned, kind
      <4> QED BY <3>4, <3>5, RanksAreRight DEF CoachRanks
    <3> HIDE DEF Ranked, kind, prompt
    <3>7. Ranked(raw).variants \in Texts
      BY <3>6 DEF CoachRanks
    <3>8. Coach!EstimateTokens(coachRequest[r].input, Coach!CharsOf(Ranked(raw).variants)) \in Nat
      BY <3>2, <3>7, CoachConstants, TokensAreNatural
    <3>9. \A i \in DOMAIN Ranked(raw).variants : Ranked(raw).variants[i] \in Words
      BY <3>7 DEF Texts
    <3>10. Written(raw) \in CoachWritten
      BY <3>2, <3>6, <3>8, <3>9 DEF CoachWritten
    <3>11. /\ Written(raw).step = "charge" /\ Written(raw).user = coachRequest[r].user
           /\ Written(raw).state = coachRequest[r].state /\ Written(raw).ranked = Ranked(raw)
           /\ Written(raw).kind = kind
      OBVIOUS
    <3> HIDE DEF Written
    <3>12. Written(raw) \in CoachTasks
      BY <3>10 DEF CoachTasks
    <3> QED BY <3>1, <3>6, <3>10, <3>11, <3>12
  <2> QED BY <2>1, <2>2
<1>5. coachRequest' \in [Hand -> CoachTasks]
      /\ \A q \in Hand : coachRequest'[q] = IF q = r THEN t ELSE coachRequest[q]
  BY <1>2, <1>4 DEF CoachTypes
<1>6. coachAlone' \in BOOLEAN /\ (coachAlone' => coachAlone /\ OneStudentWaits')
  BY <1>2, <1>5, StillAlone DEF CoachHistory
<1>7. CoachTypes'
  BY <1>1, <1>2, <1>5, <1>6 DEF CoachTypes
<1>8. Coach!Idle.step = "idle" /\ Coach!Idle \notin CoachWritten /\ t.step # "log"
  BY <1>4, CoachStages DEF CoachTasks
<1>9. CoachShown'
  BY <1>4, <1>5, <1>8 DEF CoachShown, CoachInv
<1>10. ASSUME coachAlone' PROVE CoachAlone'
  <2>1. CoachAlone /\ OneStudentWaits'
    BY <1>6, <1>10 DEF CoachInv
  <2>2. CoachReads'
    <3>1. coachRequest[r] # Coach!Idle
      BY <1>1, <1>8
    <3> QED BY <1>1, <1>4, <1>5, <1>8, <2>1, <3>1 DEF CoachAlone, CoachReads
  <2>3. CoachUnused'
    BY <1>1, <2>1 DEF CoachAlone, CoachUnused
  <2>4. \A u \in User : OnItsWayOf(coachRequest', u) = OnItsWayOf(coachRequest, u)
    <3>1. coachRequest[r].step # "log" /\ coachRequest \in [Hand -> CoachTasks]
      BY <1>1, <1>2 DEF CoachTypes
    <3> QED BY <1>4, <1>8, <3>1, WayStays
  <2>5. CoachUsed'
    BY <1>1, <2>1, <2>4 DEF CoachAlone, CoachUsed
  <2> QED BY <2>1, <2>2, <2>3, <2>5 DEF CoachAlone
<1> QED BY <1>7, <1>9, <1>10 DEF CoachInv

\* What is used, up to the limit, and what a generation adds to it.
LEMMA UsageAdds ==
    ASSUME NEW spent \in Nat, NEW tokens \in Nat, NEW state \in CoachBudgets,
           state.used = Coach!Min({TokenLimit, spent})
    PROVE  /\ Coach!ApplyUsage(state, tokens) \in CoachBudgets
           /\ Coach!ApplyUsage(state, tokens).used = Coach!Min({TokenLimit, spent + tokens})
<1> DEFINE used == Coach!Min({TokenLimit, state.used + tokens})
<1>1. TokenLimit \in Nat /\ state.used \in Nat /\ state.generations \in Nat
  BY CoachConstants DEF CoachBudgets
<1>2. used = IF TokenLimit <= state.used + tokens THEN TokenLimit ELSE state.used + tokens
  BY <1>1, CoachMaxMin
<1>3. state.used = IF TokenLimit <= spent THEN TokenLimit ELSE spent
  BY <1>1, CoachMaxMin
<1>4. Coach!Min({TokenLimit, spent + tokens})
          = IF TokenLimit <= spent + tokens THEN TokenLimit ELSE spent + tokens
  BY <1>1, CoachMaxMin
<1>5. Coach!ApplyUsage(state, tokens) = [used |-> used, generations |-> state.generations + 1]
  BY DEF Coach!ApplyUsage
<1> HIDE DEF used
<1>6. used \in 0..TokenLimit /\ state.generations + 1 \in Nat
  BY <1>1, <1>2
<1>7. used = Coach!Min({TokenLimit, spent + tokens})
  BY <1>1, <1>2, <1>3, <1>4
<1> QED BY <1>5, <1>6, <1>7 DEF CoachBudgets

\* What every budget has used is a number.
LEMMA BudgetsAreOpened == \A b \in CoachBudgets : b # Coach!NoBudget
BY CoachConstants DEF Coach!NoBudget, CoachBudgets

\* The usage is written to what was read; with nobody else at work, it is what is stored.
LEMMA CoachCharges ==
    ASSUME CoachInv, CoachHistory, NEW r \in Hand, Coach!Charge(r)
    PROVE  CoachInv'
<1> DEFINE old == coachRequest[r]
           u == old.user
           t == [old EXCEPT !.step = "log"]
           b == Coach!ApplyUsage(old.state, old.tokens)
<1>1. /\ old.step = "charge"
      /\ coachBudget' = [coachBudget EXCEPT ![u] = b]
      /\ coachRequest' = [coachRequest EXCEPT ![r] = t]
      /\ UNCHANGED <<coachProvider, coachLog>>
  BY DEF Coach!Charge, Coach!Continue
<1>2. CoachTypes
  BY DEF CoachInv
<1>3. old \in CoachWritten
  BY <1>1, <1>2, CoachStages DEF CoachTypes
<1>4. /\ t \in CoachWritten /\ t.step = "log" /\ t.user = u /\ t.tokens = old.tokens
      /\ t.kind = old.kind /\ t.ranked = old.ranked
      /\ u \in User /\ old.tokens \in Nat /\ old.state \in CoachBudgets
  BY <1>3 DEF CoachWritten
<1>5. b \in CoachBudgets
  <2> PICK used : used = old.state.used
    OBVIOUS
  <2>1. used \in Nat /\ used <= TokenLimit /\ TokenLimit \in Nat
    BY <1>4, CoachConstants DEF CoachBudgets
  <2>2. Coach!Min({TokenLimit, used}) = used
    BY <2>1, CoachMaxMin
  <2> QED BY <1>4, <2>1, <2>2, UsageAdds
<1> HIDE DEF t, b
<1>6. t \in CoachTasks /\ Coach!Idle.step = "idle" /\ t # Coach!Idle /\ old # Coach!Idle
  BY <1>1, <1>4, CoachStages DEF CoachTasks
<1>7. coachRequest' \in [Hand -> CoachTasks]
      /\ \A q \in Hand : coachRequest'[q] = IF q = r THEN t ELSE coachRequest[q]
  BY <1>1, <1>2, <1>6 DEF CoachTypes
<1>8. coachAlone' \in BOOLEAN /\ (coachAlone' => coachAlone /\ OneStudentWaits')
  BY <1>2, <1>7, StillAlone DEF CoachHistory
<1>9. coachBudget' \in [User -> CoachBudgets \cup {Coach!NoBudget}]
      /\ \A v \in User : coachBudget'[v] = IF v = u THEN b ELSE coachBudget[v]
  BY <1>1, <1>2, <1>4, <1>5 DEF CoachTypes
<1>10. CoachTypes'
  BY <1>1, <1>2, <1>7, <1>8, <1>9 DEF CoachTypes
<1>11. CoachShown'
  BY <1>3, <1>4, <1>7 DEF CoachShown, CoachInv
<1>12. ASSUME coachAlone' PROVE CoachAlone'
  <2>1. CoachAlone /\ OneStudentWaits'
    BY <1>8, <1>12 DEF CoachInv
  <2>2. \A q \in Hand \ {r} : coachRequest[q] = Coach!Idle
    BY <1>6, <2>1 DEF CoachAlone, OneStudentWaits
  <2>3. CoachReads'
    BY <1>4, <1>5, <1>6, <1>7, <1>9, <2>2, BudgetsAreOpened DEF CoachReads
  <2>4. coachBudget[u] = old.state /\ coachBudget[u] # Coach!NoBudget
    BY <1>1, <1>6, <2>1 DEF CoachAlone, CoachReads
  <2>5. CoachUnused'
    BY <1>1, <1>5, <1>9, <2>1, BudgetsAreOpened DEF CoachAlone, CoachUnused
  <2>6. \A v \in User : UnloggedOf(coachRequest, v) = {}
    BY <1>1, <1>6, <2>2 DEF UnloggedOf
  <2>7. \A v \in User : OnItsWayOf(coachRequest, v) = 0
    BY <1>2, <2>6, OnItsWayIsOne DEF CoachTypes
  <2>8. /\ UnloggedOf(coachRequest', u) = {r}
        /\ \A v \in User : v # u => UnloggedOf(coachRequest', v) = {}
    BY <1>4, <1>6, <1>7, <2>2 DEF UnloggedOf
  <2>9. /\ OnItsWayOf(coachRequest', u) = old.tokens
        /\ \A v \in User : v # u => OnItsWayOf(coachRequest', v) = 0
    BY <1>4, <1>7, <2>8, OnItsWayIsOne
  <2>10. CoachUsed'
    <3> SUFFICES ASSUME NEW v \in User, coachBudget'[v] # Coach!NoBudget
                 PROVE  coachBudget'[v].used = Coach!Min({TokenLimit,
                            SpentOf(coachLog, v) + OnItsWayOf(coachRequest', v)})
      BY <1>1 DEF CoachUsed
    <3>1. SpentOf(coachLog, v) \in Nat /\ SpentOf(coachLog, v) + 0 = SpentOf(coachLog, v)
      BY <1>2, SpentIsNatural DEF CoachTypes
    <3>2. CASE v = u
      <4>1. old.state.used = Coach!Min({TokenLimit, SpentOf(coachLog, v)})
        BY <2>1, <2>4, <2>7, <3>1, <3>2 DEF CoachAlone, CoachUsed
      <4>2. b.used = Coach!Min({TokenLimit, SpentOf(coachLog, v) + old.tokens})
        BY <1>4, <3>1, <4>1, UsageAdds DEF b
      <4> QED BY <1>9, <2>9, <3>2, <4>2
    <3>3. CASE v # u
      BY <1>9, <2>1, <2>7, <2>9, <3>3 DEF CoachAlone, CoachUsed
    <3> QED BY <3>2, <3>3
  <2> QED BY <2>1, <2>3, <2>5, <2>10 DEF CoachAlone
<1> QED BY <1>10, <1>11, <1>12 DEF CoachInv

\* What was on its way is in the log.
LEMMA CoachLogs ==
    ASSUME CoachInv, CoachHistory, NEW r \in Hand, Coach!LogGeneration(r)
    PROVE  CoachInv'
<1> DEFINE old == coachRequest[r]
           u == old.user
           row == [user |-> old.user, kind |-> old.kind, tokens |-> old.tokens,
                   variants |-> Len(old.ranked.variants)]
<1>1. /\ old.step = "log"
      /\ coachLog' = Append(coachLog, row)
      /\ coachRequest' = [coachRequest EXCEPT ![r] = Coach!Idle]
      /\ UNCHANGED <<coachProvider, coachBudget>>
  BY DEF Coach!LogGeneration, Coach!Continue
<1>2. CoachTypes
  BY DEF CoachInv
<1>3. old \in CoachWritten
  BY <1>1, <1>2, CoachStages DEF CoachTypes
<1>4. row \in CoachRow /\ row.user = u /\ row.tokens = old.tokens /\ u \in User /\ old.tokens \in Nat
  <2>1. /\ old.user \in User /\ old.kind \in Kind /\ old.tokens \in Nat
        /\ old.ranked.variants \in Texts
    BY <1>3 DEF CoachWritten, CoachRanks
  <2>2. Len(old.ranked.variants) \in Nat
    BY <2>1 DEF Texts
  <2> QED BY <2>1, <2>2 DEF CoachRow
<1>5. Coach!Idle.step = "idle" /\ Coach!Idle \in CoachTasks /\ Coach!Idle \notin CoachWritten
      /\ old # Coach!Idle
  BY <1>1, CoachStages DEF CoachTasks
<1> HIDE DEF row
<1>6. coachRequest' \in [Hand -> CoachTasks]
      /\ \A q \in Hand : coachRequest'[q] = IF q = r THEN Coach!Idle ELSE coachRequest[q]
  BY <1>1, <1>2, <1>5 DEF CoachTypes
<1>7. coachAlone' \in BOOLEAN /\ (coachAlone' => coachAlone /\ OneStudentWaits')
  BY <1>2, <1>6, StillAlone DEF CoachHistory
<1>8. coachLog' \in Seq(CoachRow)
  BY <1>1, <1>2, <1>4 DEF CoachTypes
<1>9. CoachTypes'
  BY <1>1, <1>2, <1>6, <1>7, <1>8 DEF CoachTypes
<1>10. CoachShown'
  BY <1>5, <1>6 DEF CoachShown, CoachInv
<1>11. ASSUME coachAlone' PROVE CoachAlone'
  <2>1. CoachAlone /\ OneStudentWaits'
    BY <1>7, <1>11 DEF CoachInv
  <2>2. \A q \in Hand \ {r} : coachRequest[q] = Coach!Idle
    BY <1>5, <2>1 DEF CoachAlone, OneStudentWaits
  <2>3. CoachReads'
    BY <1>5, <1>6, <2>2 DEF CoachReads
  <2>4. coachBudget[u] # Coach!NoBudget
    BY <1>5, <2>1 DEF CoachAlone, CoachReads
  <2>5. coachLog \in Seq(CoachRow)
    BY <1>2 DEF CoachTypes
  <2>6. \A v \in User : v # u => GenerationsOf(coachLog', v) = GenerationsOf(coachLog, v)
    <3>1. /\ DOMAIN coachLog' = 1..(Len(coachLog) + 1) /\ DOMAIN coachLog = 1..Len(coachLog)
          /\ Len(coachLog) \in Nat /\ coachLog'[Len(coachLog) + 1] = row
          /\ \A i \in 1..Len(coachLog) : coachLog'[i] = coachLog[i]
      BY <1>1, <2>5
    <3> QED BY <1>4, <3>1 DEF GenerationsOf
  <2>7. CoachUnused'
    BY <1>1, <2>1, <2>4, <2>6 DEF CoachAlone, CoachUnused
  <2>8. /\ UnloggedOf(coachRequest, u) = {r} /\ UnloggedOf(coachRequest', u) = {}
        /\ \A v \in User : v # u => /\ UnloggedOf(coachRequest, v) = {}
                                    /\ UnloggedOf(coachRequest', v) = {}
    BY <1>1, <1>5, <1>6, <2>2 DEF UnloggedOf
  <2>9. /\ OnItsWayOf(coachRequest, u) = old.tokens /\ OnItsWayOf(coachRequest', u) = 0
        /\ \A v \in User : v # u => /\ OnItsWayOf(coachRequest, v) = 0
                                    /\ OnItsWayOf(coachRequest', v) = 0
    BY <1>2, <1>6, <2>8, OnItsWayIsOne DEF CoachTypes
  <2>10. CoachUsed'
    <3> SUFFICES ASSUME NEW v \in User, coachBudget[v] # Coach!NoBudget
                 PROVE  coachBudget[v].used = Coach!Min({TokenLimit,
                            SpentOf(coachLog', v) + OnItsWayOf(coachRequest', v)})
      BY <1>1 DEF CoachUsed
    <3>1. SpentOf(coachLog', v) = IF v = u THEN SpentOf(coachLog, v) + old.tokens
                                           ELSE SpentOf(coachLog, v)
      BY <1>1, <1>4, <2>5, SpentOnOneMore
    <3>2. SpentOf(coachLog, v) \in Nat
      BY <2>5, SpentIsNatural
    <3>3. SpentOf(coachLog', v) + OnItsWayOf(coachRequest', v)
              = SpentOf(coachLog, v) + OnItsWayOf(coachRequest, v)
      BY <1>4, <2>9, <3>1, <3>2
    <3> QED BY <2>1, <3>3 DEF CoachAlone, CoachUsed
  <2> QED BY <2>1, <2>3, <2>7, <2>10 DEF CoachAlone
<1> QED BY <1>9, <1>10, <1>11 DEF CoachInv

\* Nothing happens to the coach; the history may end what is said of requests alone.
LEMMA CoachRests ==
    ASSUME CoachInv, UNCHANGED coach, coachAlone' = coachAlone \/ CoachHistory
    PROVE  CoachInv'
<1>1. /\ coachProvider' = coachProvider /\ coachBudget' = coachBudget /\ coachLog' = coachLog
      /\ coachRequest' = coachRequest
  BY DEF coach
<1>2. coachAlone' \in BOOLEAN /\ (coachAlone' => coachAlone)
  <2>1. coachAlone \in BOOLEAN
    BY DEF CoachInv, CoachTypes
  <2>2. CASE coachAlone' = coachAlone
    BY <2>1, <2>2
  <2>3. CASE CoachHistory
    BY <2>3 DEF CoachHistory
  <2> QED BY <2>2, <2>3
<1>3. CoachTypes' /\ CoachShown'
  BY <1>1, <1>2 DEF CoachInv, CoachTypes, CoachShown
<1>4. CoachAlone => CoachAlone'
  BY <1>1 DEF CoachAlone, OneStudentWaits, CoachReads, CoachUnused, CoachUsed
<1> QED BY <1>2, <1>3, <1>4 DEF CoachInv

\* As long as a student waits for one answer before asking again, the budget is
\* what the generations cost, and the variant that is recommended is the best, for
\* any texts, windows, budgets and limits (guardBudget, charge, rankVariants).
THEOREM CoachIsAlwaysFair == AllSpec => []CoachIsFair
<1>1. AllInit => CoachInv
  <2> SUFFICES ASSUME AllInit PROVE CoachInv
    OBVIOUS
  <2>1. /\ coachProvider \in {"mock", "claude"} /\ coachAlone = TRUE
        /\ coachBudget = [u \in User |-> Coach!NoBudget] /\ coachLog = <<>>
        /\ coachRequest = [r \in Hand |-> Coach!Idle]
    BY DEF AllInit, Coach!Init, Coach!ProviderFor
  <2>2. CoachTypes
    BY <2>1 DEF CoachTypes, CoachTasks
  <2>3. CoachShown
    <3>1. Coach!Idle \notin CoachWritten
      BY CoachStages DEF CoachTasks
    <3> QED BY <2>1, <3>1 DEF CoachShown
  <2>4. CoachAlone
    <3>1. Coach!Idle.step = "idle"
      BY CoachStages
    <3>2. OneStudentWaits /\ CoachReads
      BY <2>1, <3>1 DEF OneStudentWaits, CoachReads
    <3>3. CoachUnused
      BY <2>1 DEF CoachUnused, GenerationsOf
    <3>4. CoachUsed
      BY <2>1 DEF CoachUsed
    <3> QED BY <3>2, <3>3, <3>4 DEF CoachAlone
  <2> QED BY <2>2, <2>3, <2>4 DEF CoachInv
<1>2. CoachInv /\ [AllNext]_allVars => CoachInv'
  <2> SUFFICES ASSUME CoachInv, [AllNext]_allVars PROVE CoachInv'
    OBVIOUS
  <2>1. CASE Coach!Next /\ CoachHistory
    <3>1. PICK r \in Hand : Coach!CoachStep(r)
      BY <2>1 DEF Coach!Next
    <3> QED BY <2>1, <3>1, CoachAsks, CoachGenerates, CoachCharges, CoachLogs DEF Coach!CoachStep
  <2>2. CASE UNCHANGED coach /\ (coachAlone' = coachAlone \/ CoachHistory)
    BY <2>2, CoachRests
  <2> QED BY <2>1, <2>2, CoachSteps DEF CoachHistory
<1>3. CoachInv => CoachIsFair
  <2> SUFFICES ASSUME CoachInv PROVE CoachIsFair
    OBVIOUS
  <2>1. Coach!TypeOK
    <3>1. \A i \in DOMAIN coachLog : coachLog[i].user \in User /\ coachLog[i].tokens \in Nat
      <4>1. \A i \in DOMAIN coachLog : coachLog[i] \in CoachRow
        BY DEF CoachInv, CoachTypes
      <4> QED BY <4>1 DEF CoachRow
    <3>2. \A r \in Hand : coachRequest[r].step \in {"idle", "generate", "charge", "log"}
      BY CoachStages DEF CoachInv, CoachTypes
    <3> QED BY <3>1, <3>2 DEF CoachInv, CoachTypes, Coach!TypeOK, CoachBudgets, Coach!Budgets
  <2>2. Coach!TheBestIsRecommended
    <3>1. \A r \in Hand : coachRequest[r].step \in {"charge", "log"} =>
              AreRanked(coachRequest[r].ranked, Window[coachRequest[r].kind])
      BY CoachStages DEF CoachInv, CoachTypes, CoachShown
    <3> QED BY <3>1 DEF AreRanked, Coach!TheBestIsRecommended
  <2>3. coachAlone => Coach!UsedIsWhatWasGenerated
    BY CoachSums DEF CoachInv, CoachAlone, CoachUsed, Coach!UsedIsWhatWasGenerated
  <2> QED BY <2>1, <2>2, <2>3 DEF CoachIsFair
<1> QED BY <1>1, <1>2, <1>3, PTL DEF AllSpec
=============================================================================
