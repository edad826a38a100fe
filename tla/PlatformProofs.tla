--------------------------- MODULE PlatformProofs ---------------------------
(***************************************************************************)
(* Proofs about what MCPlatform puts together, for every value of the      *)
(* constants of the parts: RateLimit, WebSession, Accounts, PayrollRoster, *)
(* Groups, ImpactFeed, WebCheckout, WebDeposit, WebPages, Observability,   *)
(* Referral.  FundingProofs has the parts that take or report money.       *)
(* A step of the whole is a step of one part, and the others wait.         *)
(***************************************************************************)
EXTENDS MCPlatform, Sums, SequenceTheorems
-----------------------------------------------------------------------------
(* RateLimit: the inductive invariant says of a window that is open, and   *)
(* of the time before it, how much they have let through.                  *)

\* A step of the whole is one of the rate limit, or leaves it alone.
LEMMA RateSteps == [AllNext]_allVars => [RateLimit!Next]_(RateLimit!vars)
BY DEF AllNext, OtherParts, allVars, rate, RateLimit!vars

\* What went through from a to b, if g is what went through at each time.
ThroughOf(g, a, b) == Total(g, (a .. b) \cap (0 .. RateTime))
Through(a, b) == ThroughOf(rateAllowed, a, b)

\* The sum of the module is the sum that Sums is about.
LEMMA ThroughIsAllowed ==
    /\ \A a, b : RateLimit!AllowedIn(a .. b) = Through(a, b)
    /\ \A a, b : RateLimit!AllowedIn(a .. b)' = ThroughOf(rateAllowed', a, b)
BY DEF RateLimit!AllowedIn, RateLimit!MapThenSumSet, RateLimit!MapThenFoldSet,
       Through, ThroughOf, Total, MapThenSumSet, MapThenFoldSet

\* The constants of the rate limit are numbers.
LEMMA RateConstants ==
    RateMax \in Nat \ {0} /\ RateWindow \in Nat \ {0} /\ RateTime \in Nat /\ RateHits \in Nat
BY CommunityAssumption DEF RateLimit!RateLimitAssumption

\* A stretch of time is a finite set.
LEMMA StretchIsFinite == \A a, b \in Int : IsFiniteSet((a .. b) \cap (0 .. RateTime))
<1> TAKE a, b \in Int
<1>1. IsFiniteSet(0 .. RateTime)
  BY RateConstants, FS_Interval
<1> QED BY <1>1, FS_Subset, FS_Intersection

\* What goes through is a number of requests.
LEMMA ThroughIsNatural ==
    ASSUME RateLimit!TypeOK, NEW a \in Int, NEW b \in Int
    PROVE  Through(a, b) \in Nat
<1> DEFINE S == (a .. b) \cap (0 .. RateTime)
<1>1. IsFiniteSet(S)
  BY StretchIsFinite
<1>2. \A t \in S : rateAllowed[t] \in Nat
  BY DEF RateLimit!TypeOK
<1> HIDE DEF S
<1>3. Total(rateAllowed, S) \in Nat
  BY <1>1, <1>2, TotalIsNatural
<1> QED BY <1>3 DEF Through, ThroughOf, S

\* Time is cut into what was and what came after.
LEMMA ThroughSplits ==
    ASSUME RateLimit!TypeOK, NEW a \in Int, NEW b \in Int, NEW d \in Int, a <= b + 1, b <= d
    PROVE  Through(a, d) = Through(a, b) + Through(b + 1, d)
<1> DEFINE S == (a .. b) \cap (0 .. RateTime)
           T == ((b + 1) .. d) \cap (0 .. RateTime)
<1>1. IsFiniteSet(S) /\ IsFiniteSet(T)
  BY StretchIsFinite
<1>2. S \cap T = {} /\ S \cup T = (a .. d) \cap (0 .. RateTime)
  BY RateConstants
<1>3. \A t \in S \cup T : rateAllowed[t] \in Int
  BY DEF RateLimit!TypeOK
<1> HIDE DEF S, T
<1>4. Total(rateAllowed, S \cup T) = Total(rateAllowed, S) + Total(rateAllowed, T)
  BY <1>1, <1>2, <1>3, TotalOfUnion
<1> QED BY <1>2, <1>4 DEF Through, ThroughOf, S, T

\* A time without requests adds nothing.
LEMMA NothingThrough ==
    ASSUME NEW a \in Int, NEW b \in Int,
           \A t \in (a .. b) \cap (0 .. RateTime) : rateAllowed[t] = 0
    PROVE  Through(a, b) = 0
<1> DEFINE S == (a .. b) \cap (0 .. RateTime)
<1>1. IsFiniteSet(S) /\ \A t \in S : rateAllowed[t] = 0
  BY StretchIsFinite
<1> HIDE DEF S
<1>2. Total(rateAllowed, S) = 0 * Cardinality(S) /\ Cardinality(S) \in Nat
  BY <1>1, TotalOfConstant, FS_CardinalityType
<1> QED BY <1>2 DEF Through, ThroughOf, S

\* A request that goes through counts in the stretches that hold its time.
LEMMA OneMoreThrough ==
    ASSUME RateLimit!TypeOK, rateAllowed' = [rateAllowed EXCEPT ![rateNow] = @ + 1],
           NEW a \in Int, NEW b \in Int
    PROVE  ThroughOf(rateAllowed', a, b) =
               IF rateNow \in a .. b THEN Through(a, b) + 1 ELSE Through(a, b)
<1> DEFINE S == (a .. b) \cap (0 .. RateTime)
<1> PICK new : new = rateAllowed'
  OBVIOUS
<1>1. IsFiniteSet(S)
  BY StretchIsFinite
<1>2. rateNow \in a .. b <=> rateNow \in S
  BY RateConstants DEF RateLimit!TypeOK
<1>3. /\ \A t \in S : rateAllowed[t] \in Int
      /\ \A t \in S \ {rateNow} : new[t] = rateAllowed[t]
      /\ rateNow \in S => new[rateNow] = rateAllowed[rateNow] + 1
  BY DEF RateLimit!TypeOK
<1>4. ThroughOf(rateAllowed', a, b) = Total(new, S) /\ Through(a, b) = Total(rateAllowed, S)
  BY DEF Through, ThroughOf
<1> HIDE DEF S
<1>5. CASE rateNow \in S
  <2>1. Total(new, S) = Total(rateAllowed, S) + 1
    BY <1>1, <1>3, <1>5, OneMore
  <2> QED BY <1>2, <1>4, <1>5, <2>1
<1>6. CASE rateNow \notin S
  <2>1. \A t \in S : new[t] = rateAllowed[t]
    BY <1>3, <1>6
  <2>2. Total(new, S) = Total(rateAllowed, S)
    BY <1>1, <2>1, TotalsAgree
  <2> QED BY <1>2, <1>4, <1>6, <2>2
<1> QED BY <1>5, <1>6

\* What a window that is open has let through, and the stretches before it: the
\* requests of the window make its count, the refused ones not counted.
WindowCounts ==
    LET start == rateBucket.resetAt - RateWindow
    IN  ~RateLimit!Expired =>
        /\ start <= rateNow
        /\ rateBucket.count >= 1
        /\ Through(start, rateNow) =
               IF rateBucket.count <= RateMax THEN rateBucket.count ELSE RateMax
        /\ \A t \in Int : t > start - RateWindow => Through(t, start - 1) <= RateMax

\* After a window, what it has let through wears off.
WindowWearsOff ==
    RateLimit!Expired =>
        /\ rateAllowed[rateNow] = 0
        /\ \A t \in Int : t > rateNow - RateWindow => Through(t, rateNow) <= RateMax

RateInv ==
    /\ RateLimit!TypeOK
    /\ \A t \in 0 .. RateTime : t > rateNow => rateAllowed[t] = 0
    /\ rateBucket.resetAt <= rateNow + RateWindow
    /\ WindowCounts
    /\ WindowWearsOff
    /\ RateLimit!AtMostTwiceTheLimit

\* The invariant holds at first.
LEMMA RateStarts == RateLimit!Init => RateInv
<1> SUFFICES ASSUME RateLimit!Init PROVE RateInv
  OBVIOUS
<1>1. RateLimit!TypeOK /\ RateLimit!Expired
  BY RateConstants DEF RateLimit!Init, RateLimit!TypeOK, RateLimit!NoBucket, RateLimit!Expired
<1>2. \A a, b \in Int : Through(a, b) = 0
  BY NothingThrough DEF RateLimit!Init
<1>3. WindowCounts
  BY <1>1 DEF WindowCounts
<1>4. WindowWearsOff
  BY <1>2, RateConstants DEF RateLimit!Init, WindowWearsOff
<1>5. RateLimit!AtMostTwiceTheLimit
  <2> SUFFICES ASSUME NEW t \in 0 .. RateTime
               PROVE  RateLimit!AllowedIn(t .. (t + RateWindow - 1)) <= 2 * RateMax
    BY DEF RateLimit!AtMostTwiceTheLimit
  <2>1. Through(t, t + RateWindow - 1) = 0
    BY <1>2, RateConstants
  <2> QED BY <2>1, ThroughIsAllowed, RateConstants
<1> QED BY <1>1, <1>3, <1>4, <1>5, RateConstants DEF RateInv, RateLimit!Init, RateLimit!NoBucket

\* Nothing has gone through in what is to come.
LEMMA FutureIsEmpty ==
    ASSUME RateInv, NEW a \in Int, NEW b \in Int, a > rateNow
    PROVE  Through(a, b) = 0
<1>1. \A t \in (a .. b) \cap (0 .. RateTime) : rateAllowed[t] = 0
  BY DEF RateInv, RateLimit!TypeOK
<1> QED BY <1>1, NothingThrough

\* What went through by now is what went through in the end.
LEMMA UntilNow ==
    ASSUME RateInv, NEW a \in Int, NEW b \in Int, a <= rateNow + 1, rateNow <= b
    PROVE  Through(a, b) = Through(a, rateNow)
<1>1. RateLimit!TypeOK /\ rateNow \in Int
  BY DEF RateInv, RateLimit!TypeOK
<1>2. Through(a, b) = Through(a, rateNow) + Through(rateNow + 1, b)
  BY <1>1, ThroughSplits
<1>3. Through(rateNow + 1, b) = 0
  BY <1>1, FutureIsEmpty
<1> QED BY <1>1, <1>2, <1>3, ThroughIsNatural

\* A later beginning sees no more.
LEMMA LaterIsLess ==
    ASSUME RateLimit!TypeOK, NEW a \in Int, NEW b \in Int, NEW d \in Int, a <= b
    PROVE  Through(b, d) <= Through(a, d)
<1>1. CASE b <= d + 1
  <2>1. Through(a, d) = Through(a, b - 1) + Through((b - 1) + 1, d)
    BY <1>1, ThroughSplits
  <2>2. (b - 1) + 1 = b
    OBVIOUS
  <2> QED BY <2>1, <2>2, ThroughIsNatural
<1>2. CASE ~(b <= d + 1)
  <2>1. Through(b, d) = 0
    BY <1>2, NothingThrough
  <2> QED BY <2>1, ThroughIsNatural
<1> QED BY <1>1, <1>2

\* A request keeps the invariant.
LEMMA HitKeepsRate ==
    ASSUME RateInv, RateLimit!Hit
    PROVE  RateInv'
<1> PICK c : c = RateLimit!Current
  OBVIOUS
<1>1. /\ rateNow \in 0 .. RateTime /\ rateNow' = rateNow /\ rateNow - 1 \in Int
      /\ rateBucket \in [count : Nat, resetAt : 0 .. (RateTime + RateWindow)]
      /\ rateAllowed \in [0 .. RateTime -> Nat]
      /\ rateBucket' = [count |-> c.count + 1, resetAt |-> c.resetAt]
      /\ c \in [count : Nat, resetAt : 0 .. (RateTime + RateWindow)]
  <2>1. /\ rateNow \in 0 .. RateTime /\ rateNow' = rateNow
        /\ rateBucket \in [count : Nat, resetAt : 0 .. (RateTime + RateWindow)]
        /\ rateAllowed \in [0 .. RateTime -> Nat]
    BY RateConstants DEF RateInv, RateLimit!TypeOK, RateLimit!Hit
  <2>2. rateNow + RateWindow \in 0 .. (RateTime + RateWindow) /\ rateNow - 1 \in Int
    BY <2>1, RateConstants
  <2>3. c \in [count : Nat, resetAt : 0 .. (RateTime + RateWindow)]
    BY <2>1, <2>2 DEF RateLimit!Current
  <2>4. rateBucket' = [c EXCEPT !.count = @ + 1]
    BY DEF RateLimit!Hit
  <2> QED BY <2>1, <2>2, <2>3, <2>4
<1>2. rateAllowed' = IF c.count + 1 <= RateMax THEN [rateAllowed EXCEPT ![rateNow] = @ + 1]
                     ELSE rateAllowed
  BY <1>1 DEF RateLimit!Hit
<1>3. RateLimit!TypeOK'
  <2>1. rateAllowed' \in [0 .. RateTime -> Nat]
    BY <1>1, <1>2
  <2>2. rateHits' \in 0 .. RateHits
    BY RateConstants DEF RateInv, RateLimit!TypeOK, RateLimit!Hit
  <2> QED BY <1>1, <2>1, <2>2 DEF RateLimit!TypeOK
<1>4. \A a, b \in Int :
         ThroughOf(rateAllowed', a, b) =
             IF c.count + 1 <= RateMax /\ rateNow \in a .. b
             THEN Through(a, b) + 1 ELSE Through(a, b)
  <2>1. CASE c.count + 1 <= RateMax
    BY <1>2, <2>1, OneMoreThrough DEF RateInv
  <2>2. CASE ~(c.count + 1 <= RateMax)
    BY <1>2, <2>2 DEF Through
  <2> QED BY <2>1, <2>2
<1>5. \A t \in 0 .. RateTime : t > rateNow' => rateAllowed'[t] = 0
  BY <1>1, <1>2 DEF RateInv
<1>6. /\ rateBucket'.resetAt <= rateNow' + RateWindow
      /\ ~RateLimit!Expired'
      /\ rateBucket'.resetAt - RateWindow <= rateNow
      /\ rateBucket'.count >= 1
  BY <1>1, RateConstants DEF RateInv, RateLimit!Current, RateLimit!Expired, RateLimit!NoBucket
<1> PICK start : start = c.resetAt - RateWindow
  OBVIOUS
<1>7. start \in Int /\ start <= rateNow /\ rateNow - RateWindow < start
  BY <1>1, RateConstants DEF RateInv, RateLimit!Current, RateLimit!Expired
<1>8. Through(start, rateNow) = IF c.count <= RateMax THEN c.count ELSE RateMax
  <2>1. CASE RateLimit!Expired
    <3>1. start = rateNow /\ c.count = 0 /\ rateAllowed[rateNow] = 0
      BY <1>1, <2>1, RateConstants
         DEF RateInv, WindowWearsOff, RateLimit!Current, RateLimit!Expired
    <3>2. Through(rateNow, rateNow) = 0
      BY <1>1, <3>1, NothingThrough
    <3> QED BY <3>1, <3>2, RateConstants
  <2>2. CASE ~RateLimit!Expired
    BY <2>2 DEF RateInv, WindowCounts, RateLimit!Current, RateLimit!Expired
  <2> QED BY <2>1, <2>2
<1>9. \A t \in Int : t > start - RateWindow => Through(t, start - 1) <= RateMax
  <2>1. CASE RateLimit!Expired
    <3>1. start = rateNow
      BY <1>1, <2>1, RateConstants DEF RateLimit!Current, RateLimit!Expired
    <3>2. \A t \in Int : t > rateNow - RateWindow => Through(t, rateNow) <= RateMax
      BY <2>1 DEF RateInv, WindowWearsOff
    <3>0. rateNow \in Int /\ rateNow - 1 \in Int /\ (rateNow - 1) + 1 = rateNow
      BY <1>1
    <3>3. ASSUME NEW t \in Int, t <= rateNow
          PROVE  Through(t, rateNow - 1) <= Through(t, rateNow)
      <4>1. Through(t, rateNow) = Through(t, rateNow - 1) + Through((rateNow - 1) + 1, rateNow)
        BY <3>0, <3>3, ThroughSplits DEF RateInv
      <4>2. /\ Through(t, rateNow - 1) \in Nat
            /\ Through((rateNow - 1) + 1, rateNow) \in Nat
        BY <3>0, ThroughIsNatural DEF RateInv
      <4> QED BY <4>1, <4>2
    <3>4. ASSUME NEW t \in Int, t > rateNow
          PROVE  Through(t, rateNow - 1) = 0
      BY <1>1, <3>4, NothingThrough
    <3>5. ASSUME NEW t \in Int, t > rateNow - RateWindow
          PROVE  Through(t, rateNow - 1) <= RateMax
      <4>1. CASE t <= rateNow
        <5>1. Through(t, rateNow) \in Nat /\ Through(t, rateNow - 1) \in Nat
          BY <1>1, <3>0, ThroughIsNatural DEF RateInv
        <5> QED BY <3>2, <3>3, <3>5, <4>1, <5>1, RateConstants
      <4>2. CASE t > rateNow
        BY <3>4, <4>2, RateConstants
      <4> QED BY <1>1, <4>1, <4>2
    <3> QED BY <3>1, <3>5
  <2>2. CASE ~RateLimit!Expired
    BY <2>2 DEF RateInv, WindowCounts, RateLimit!Current, RateLimit!Expired
  <2> QED BY <2>1, <2>2
<1>10. rateBucket'.count = c.count + 1 /\ rateBucket'.resetAt - RateWindow = start
  BY <1>1
<1>11. c.count \in Nat
  BY <1>1
<1>12. WindowCounts'
  <2>1. ThroughOf(rateAllowed', start, rateNow)
         = IF c.count + 1 <= RateMax THEN c.count + 1 ELSE RateMax
    <3>1. rateNow \in start .. rateNow
      BY <1>1, <1>7
    <3>2. ThroughOf(rateAllowed', start, rateNow) = IF c.count + 1 <= RateMax
                                    THEN Through(start, rateNow) + 1 ELSE Through(start, rateNow)
      BY <1>1, <1>4, <1>7, <3>1
    <3> QED BY <1>8, <1>11, <3>2, RateConstants
  <2>2. \A t \in Int : t > start - RateWindow => ThroughOf(rateAllowed', t, start - 1) <= RateMax
    <3>1. start - 1 \in Int /\ \A t \in Int : rateNow \notin t .. (start - 1)
      BY <1>1, <1>7
    <3>2. \A t \in Int : ThroughOf(rateAllowed', t, start - 1) = Through(t, start - 1)
      BY <1>4, <3>1
    <3> QED BY <1>9, <3>2
  <2> QED BY <1>1, <1>6, <1>7, <1>10, <2>1, <2>2 DEF WindowCounts, Through
<1>13. RateLimit!AtMostTwiceTheLimit'
  <2> SUFFICES ASSUME NEW t \in 0 .. RateTime
               PROVE  RateLimit!AllowedIn(t .. (t + RateWindow - 1))' <= 2 * RateMax
    BY DEF RateLimit!AtMostTwiceTheLimit
  <2> DEFINE last == t + RateWindow - 1
  <2>1. RateLimit!AllowedIn(t .. last)' = ThroughOf(rateAllowed', t, last)
    BY ThroughIsAllowed
  <2>2. last \in Int /\ t <= last /\ t \in Int
    BY RateConstants
  <2>3. Through(t, last) <= 2 * RateMax /\ Through(t, last) \in Nat
    BY <2>2, ThroughIsAllowed, ThroughIsNatural DEF RateInv, RateLimit!AtMostTwiceTheLimit
  <2>4. CASE rateNow \notin t .. last
    BY <1>4, <2>1, <2>2, <2>3, <2>4
  <2>5. CASE rateNow \in t .. last
    <3>1. t > rateNow - RateWindow /\ t <= rateNow /\ rateNow <= last
      BY <1>1, <2>2, <2>5, RateConstants
    <3>2. Through(t, last) = Through(t, rateNow)
      BY <1>1, <2>2, <3>1, UntilNow
    <3>3. ThroughOf(rateAllowed', t, last) = IF c.count + 1 <= RateMax THEN Through(t, rateNow) + 1
                              ELSE Through(t, rateNow)
      BY <1>4, <2>2, <2>5, <3>2
    <3>4. Through(start, rateNow) \in Nat /\ Through(t, rateNow) \in Nat
      BY <1>1, <1>7, <2>2, ThroughIsNatural DEF RateInv
    <3>5. CASE t >= start
      <4>1. Through(t, rateNow) <= Through(start, rateNow)
        BY <1>1, <1>7, <2>2, <3>5, LaterIsLess DEF RateInv
      <4> QED BY <1>8, <1>11, <2>1, <3>3, <3>4, <4>1, RateConstants
    <3>6. CASE t < start
      <4>1. Through(t, rateNow) = Through(t, start - 1) + Through((start - 1) + 1, rateNow)
        <5>1. t <= (start - 1) + 1 /\ start - 1 <= rateNow /\ start - 1 \in Int
          BY <1>1, <1>7, <2>2, <3>6
        <5> QED BY <1>1, <1>7, <2>2, <5>1, ThroughSplits DEF RateInv
      <4>2. (start - 1) + 1 = start /\ start - 1 \in Int
        BY <1>7
      <4>3. Through(t, start - 1) <= RateMax /\ Through(t, start - 1) \in Nat
        <5>1. t > start - RateWindow
          BY <1>1, <1>7, <2>2, <3>1, RateConstants
        <5> QED BY <1>9, <2>2, <4>2, <5>1, ThroughIsNatural DEF RateInv
      <4> QED BY <1>8, <1>11, <2>1, <3>3, <3>4, <4>1, <4>2, <4>3, RateConstants
    <3> QED BY <1>7, <2>2, <3>5, <3>6
  <2> QED BY <2>4, <2>5
<1> QED BY <1>3, <1>5, <1>6, <1>12, <1>13 DEF RateInv, WindowWearsOff

\* Cleaning up keeps the invariant: a window that is dropped has ended.
LEMMA PruneKeepsRate ==
    ASSUME RateInv, RateLimit!Prune
    PROVE  RateInv'
<1>1. RateLimit!TypeOK' /\ RateLimit!Expired' /\ RateLimit!Expired
  BY RateConstants
     DEF RateInv, RateLimit!TypeOK, RateLimit!Prune, RateLimit!NoBucket, RateLimit!Expired
<1>2. rateNow' = rateNow /\ rateAllowed' = rateAllowed
  BY DEF RateLimit!Prune
<1>3. WindowWearsOff'
  BY <1>1, <1>2 DEF RateInv, WindowWearsOff, Through
<1>4. RateLimit!AtMostTwiceTheLimit'
  BY <1>2, ThroughIsAllowed DEF RateInv, RateLimit!AtMostTwiceTheLimit, Through
<1>5. rateBucket'.resetAt <= rateNow' + RateWindow
  BY <1>1, RateConstants DEF RateLimit!Prune, RateLimit!NoBucket, RateLimit!TypeOK
<1>6. \A t \in 0 .. RateTime : t > rateNow' => rateAllowed'[t] = 0
  BY <1>2 DEF RateInv
<1> QED BY <1>1, <1>3, <1>4, <1>5, <1>6 DEF RateInv, WindowCounts

\* Time that passes keeps the invariant.
LEMMA TickKeepsRate ==
    ASSUME RateInv, RateLimit!Tick
    PROVE  RateInv'
<1>1. /\ rateNow \in 0 .. RateTime /\ rateNow + 1 \in 0 .. RateTime /\ rateNow' = rateNow + 1
      /\ rateBucket \in [count : Nat, resetAt : 0 .. (RateTime + RateWindow)]
      /\ rateBucket' = rateBucket /\ rateAllowed' = rateAllowed
      /\ rateAllowed \in [0 .. RateTime -> Nat]
  BY RateConstants DEF RateInv, RateLimit!TypeOK, RateLimit!Tick
<1>2. RateLimit!TypeOK'
  BY <1>1, RateConstants DEF RateInv, RateLimit!TypeOK, RateLimit!Tick
<1>3. rateAllowed[rateNow + 1] = 0
  BY <1>1 DEF RateInv
<1>4. \A t \in Int : t <= rateNow + 1 => Through(t, rateNow + 1) = Through(t, rateNow)
  BY <1>1, UntilNow
<1>5. \A t \in Int : t > rateNow => Through(t, rateNow + 1) = 0
  BY <1>1, FutureIsEmpty
<1>6. WindowCounts'
  <2> SUFFICES ASSUME ~RateLimit!Expired' PROVE WindowCounts'
    BY DEF WindowCounts
  <2> PICK start : start = rateBucket.resetAt - RateWindow
    OBVIOUS
  <2>1. ~RateLimit!Expired
    BY <1>1 DEF RateLimit!Expired
  <2>2. start \in Int /\ start <= rateNow
    BY <1>1, <2>1, RateConstants DEF RateInv, WindowCounts
  <2>3. Through(start, rateNow + 1) = Through(start, rateNow)
    BY <1>1, <1>4, <2>2
  <2>4. /\ rateBucket.count >= 1
        /\ Through(start, rateNow) =
               IF rateBucket.count <= RateMax THEN rateBucket.count ELSE RateMax
        /\ \A t \in Int : t > start - RateWindow => Through(t, start - 1) <= RateMax
    BY <2>1 DEF RateInv, WindowCounts
  <2>5. start <= rateNow'
    BY <1>1, <2>2
  <2>6. ThroughOf(rateAllowed', start, rateNow') = Through(start, rateNow)
    BY <1>1, <2>3 DEF Through
  <2>7. \A t : ThroughOf(rateAllowed', t, start - 1) = Through(t, start - 1)
    BY <1>1 DEF Through
  <2> QED BY <1>1, <2>4, <2>5, <2>6, <2>7 DEF WindowCounts, Through
<1>7. WindowWearsOff'
  <2> SUFFICES ASSUME RateLimit!Expired',
                      NEW t \in Int, t > (rateNow + 1) - RateWindow
               PROVE  Through(t, rateNow + 1) <= RateMax
    BY <1>1, <1>3 DEF WindowWearsOff, Through
  <2>1. CASE t > rateNow
    BY <1>5, <2>1, RateConstants
  <2>2. CASE t <= rateNow /\ RateLimit!Expired
    <3>1. t > rateNow - RateWindow /\ t <= rateNow + 1
      BY <1>1, <2>2, RateConstants
    <3>2. Through(t, rateNow) <= RateMax
      BY <2>2, <3>1 DEF RateInv, WindowWearsOff
    <3> QED BY <1>4, <3>1, <3>2
  <2>3. CASE t <= rateNow /\ ~RateLimit!Expired
    <3> PICK start : start = rateBucket.resetAt - RateWindow
      OBVIOUS
    <3>1. start \in Int /\ start <= t /\ t <= rateNow + 1
      BY <1>1, <2>3, RateConstants DEF RateLimit!Expired
    <3>2. Through(start, rateNow) =
             IF rateBucket.count <= RateMax THEN rateBucket.count ELSE RateMax
      BY <2>3 DEF RateInv, WindowCounts
    <3>3. rateNow \in Int /\ RateLimit!TypeOK
      BY <1>1 DEF RateInv
    <3>4. Through(t, rateNow) <= Through(start, rateNow)
      BY <3>1, <3>3, LaterIsLess
    <3>5. Through(t, rateNow) \in Nat /\ Through(start, rateNow) \in Nat
      BY <3>1, <3>3, ThroughIsNatural
    <3>6. Through(start, rateNow) <= RateMax
      BY <1>1, <3>2, RateConstants
    <3> QED BY <1>4, <3>1, <3>4, <3>5, <3>6, RateConstants
  <2> QED BY <1>1, <2>1, <2>2, <2>3
<1>8. RateLimit!AtMostTwiceTheLimit'
  BY <1>1, ThroughIsAllowed DEF RateInv, RateLimit!AtMostTwiceTheLimit, Through
<1>9. /\ rateBucket'.resetAt <= rateNow' + RateWindow
      /\ \A t \in 0 .. RateTime : t > rateNow' => rateAllowed'[t] = 0
  BY <1>1, RateConstants DEF RateInv
<1> QED BY <1>2, <1>6, <1>7, <1>8, <1>9 DEF RateInv

\* Requests and windows in any order: no stretch of time as long as a window sees more
\* than twice the limit, and an open window no more than the limit (hit, prune).
THEOREM NeverMoreThanTwice == AllSpec => []AtMostTwiceTheLimit
<1>1. AllInit => RateInv
  BY RateStarts DEF AllInit
<1>2. RateInv /\ [RateLimit!Next]_(RateLimit!vars) => RateInv'
  <2> SUFFICES ASSUME RateInv, [RateLimit!Next]_(RateLimit!vars) PROVE RateInv'
    OBVIOUS
  <2>1. CASE UNCHANGED RateLimit!vars
    <3>1. /\ rateNow' = rateNow /\ rateBucket' = rateBucket
          /\ rateAllowed' = rateAllowed /\ rateHits' = rateHits
      BY <2>1 DEF RateLimit!vars
    <3>2. RateLimit!AtMostTwiceTheLimit'
      BY <3>1, ThroughIsAllowed DEF RateInv, RateLimit!AtMostTwiceTheLimit, Through
    <3>3. WindowCounts' /\ WindowWearsOff'
      BY <3>1 DEF RateInv, WindowCounts, WindowWearsOff, RateLimit!Expired, Through
    <3> QED BY <3>1, <3>2, <3>3 DEF RateInv, RateLimit!TypeOK
  <2> QED BY <2>1, HitKeepsRate, PruneKeepsRate, TickKeepsRate DEF RateLimit!Next
<1>3. RateInv => AtMostTwiceTheLimit
  <2> SUFFICES ASSUME RateInv PROVE RateLimit!WindowHolds
    BY DEF AtMostTwiceTheLimit, RateInv
  <2>1. ~RateLimit!Expired => Through(rateBucket.resetAt - RateWindow, rateNow) <= RateMax
    BY RateConstants DEF RateInv, RateLimit!TypeOK, WindowCounts
  <2> QED BY <2>1, ThroughIsAllowed DEF RateInv, RateLimit!WindowHolds
<1> QED BY <1>1, <1>2, <1>3, RateSteps, PTL DEF AllSpec
-----------------------------------------------------------------------------
(* WebSession: what the guard has let pass fits the user until it is       *)
(* shown, for every change of the user starts another navigation.          *)

\* A step of the whole is one of the session, or leaves it alone.
LEMMA SessionSteps == [AllNext]_allVars => [Session!Next]_(Session!vars)
BY DEF AllNext, OtherParts, allVars, session, Session!vars

PageNames == Session!Public \union Session!Guarded

\* What the guard has let pass may be shown to the user.
CheckedFits ==
    \A t \in Tab : sessionGoing[t].checked /\ sessionGoing[t].to \in Session!Guarded =>
        Session!HasRole(sessionUser[t], Session!RolesOf(sessionGoing[t].to))

\* A form that was sent comes from a tab, and asks for an account.
FormsAreSent ==
    \A c \in sessionCalls : c.tab \in Tab /\ c.nr \in 1 .. sessionSent /\ c.account \in Account

SessionInv ==
    /\ Session!TypeOK
    /\ FormsAreSent
    /\ sessionStored \in sessionKnown \union {NoAccount}
    /\ CheckedFits
    /\ Session!PagesFitTheUser
    /\ Cardinality(Tab) = 1 => \A t \in Tab : sessionUser[t] = sessionStored

\* The constants of the session.
LEMMA SessionConstants ==
    /\ RoleOf \in [Account -> Session!AllRoles]
    /\ Known \subseteq Account /\ NoAccount \notin Account
    /\ NoPage \notin PageNames
    /\ IsFiniteSet(Tab) /\ MaxForms \in Nat
BY WebAssumption
   DEF Session!SessionAssumption, Session!AllRoles, PageNames, Session!IsFiniteSet, IsFiniteSet

\* The home of a role is a page that this role may see.
LEMMA HomesFit ==
    ASSUME NEW u \in Account \union {NoAccount}
    PROVE  /\ Session!HomeForRole(u) \in PageNames
           /\ Session!HomeForRole(u) \in Session!Guarded =>
                 Session!HasRole(u, Session!RolesOf(Session!HomeForRole(u)))
<1>1. CASE u = NoAccount
  BY <1>1 DEF Session!HomeForRole, PageNames, Session!Public, Session!Guarded
<1>2. CASE u # NoAccount
  <2>1. RoleOf[u] \in {"STUDENT", "SPONSOR", "ADMIN", "SCHOOL_ADMIN", "DONOR"}
    BY <1>2, SessionConstants DEF Session!AllRoles
  <2>2. /\ RoleOf[u] = "STUDENT" => Session!HomeForRole(u) = "student"
        /\ RoleOf[u] = "SPONSOR" => Session!HomeForRole(u) = "sponsor"
        /\ RoleOf[u] = "ADMIN" => Session!HomeForRole(u) = "admin"
        /\ RoleOf[u] = "SCHOOL_ADMIN" => Session!HomeForRole(u) = "school"
        /\ RoleOf[u] = "DONOR" => Session!HomeForRole(u) = "donor"
    BY <1>2 DEF Session!HomeForRole
  <2>3. Session!HomeForRole(u) \in PageNames
    BY <2>1, <2>2 DEF PageNames, Session!Public, Session!Guarded
  <2>4. RoleOf[u] \in Session!RolesOf(Session!HomeForRole(u))
    BY <2>1, <2>2 DEF Session!RolesOf
  <2> QED BY <1>2, <2>3, <2>4 DEF Session!HasRole
<1> QED BY <1>1, <1>2

\* The guard leads to a page, and what it lets pass fits the user.
LEMMA GuardFits ==
    ASSUME NEW p \in PageNames, NEW u \in Account \union {NoAccount}
    PROVE  /\ Session!AuthGuard(p, u) \in PageNames
           /\ Session!AuthGuard(p, u) = p /\ p \in Session!Guarded =>
                 Session!HasRole(u, Session!RolesOf(p))
<1>1. "login" \in Session!Public /\ \A q \in Session!Guarded : q \notin Session!Public
  BY DEF Session!Public, Session!Guarded
<1> QED BY <1>1, HomesFit DEF Session!AuthGuard, PageNames

\* A tab that has another user is on its way to another page.
LEMMA NewUserFits ==
    ASSUME SessionInv, NEW t \in Tab, NEW u \in Account \union {NoAccount}, NEW p \in PageNames,
           sessionUser' = [sessionUser EXCEPT ![t] = u],
           sessionGoing' = [sessionGoing EXCEPT ![t] = Session!To(p)],
           \A q \in Tab \ {t} : sessionPage'[q] = sessionPage[q]
    PROVE  /\ sessionUser' \in [Tab -> Account \union {NoAccount}]
           /\ sessionGoing' \in [Tab -> [to : PageNames \union {NoPage}, checked : BOOLEAN]]
           /\ CheckedFits'
           /\ Session!PagesFitTheUser'
<1>1. /\ sessionUser \in [Tab -> Account \union {NoAccount}]
      /\ sessionGoing \in [Tab -> [to : PageNames \union {NoPage}, checked : BOOLEAN]]
      /\ p # NoPage
  BY SessionConstants DEF SessionInv, Session!TypeOK, PageNames
<1>2. /\ Session!To(p) \in [to : PageNames \union {NoPage}, checked : BOOLEAN]
      /\ ~Session!To(p).checked /\ Session!To(p).to = p
  BY DEF Session!To
<1>3. \A q \in Tab : /\ sessionUser'[q] = IF q = t THEN u ELSE sessionUser[q]
                     /\ sessionGoing'[q] = IF q = t THEN Session!To(p) ELSE sessionGoing[q]
  BY <1>1
<1>4. CheckedFits'
  BY <1>2, <1>3 DEF SessionInv, CheckedFits
<1>5. Session!PagesFitTheUser'
  <2> SUFFICES ASSUME NEW q \in Tab, sessionGoing'[q].to = NoPage,
                      sessionPage'[q] \in Session!Guarded
               PROVE  Session!HasRole(sessionUser'[q], Session!RolesOf(sessionPage'[q]))
    BY DEF Session!PagesFitTheUser, Session!HasRole
  <2>1. q # t
    BY <1>1, <1>2, <1>3
  <2> QED BY <1>3, <2>1 DEF SessionInv, Session!PagesFitTheUser
<1> QED BY <1>1, <1>2, <1>4, <1>5

\* With one tab, what changes in a tab changes in all of them.
LEMMA OnlyTab ==
    ASSUME Cardinality(Tab) = 1, NEW t \in Tab, NEW q \in Tab
    PROVE  q = t
BY SessionConstants, OneAtMost

\* A link or an address keeps the invariant.
LEMMA FollowKeepsSession ==
    ASSUME SessionInv, NEW t \in Tab, NEW p \in PageNames, Session!Follow(t, p)
    PROVE  SessionInv'
<1>1. sessionUser' = [sessionUser EXCEPT ![t] = sessionUser[t]]
  BY DEF Session!Follow, SessionInv, Session!TypeOK
<1>2. sessionUser[t] \in Account \union {NoAccount}
  BY DEF SessionInv, Session!TypeOK
<1>3. /\ sessionGoing' \in [Tab -> [to : PageNames \union {NoPage}, checked : BOOLEAN]]
      /\ CheckedFits' /\ Session!PagesFitTheUser'
  BY <1>1, <1>2, NewUserFits DEF Session!Follow
<1> QED BY <1>3 DEF SessionInv, Session!Follow, Session!TypeOK, FormsAreSent, PageNames

LEMMA OpenKeepsSession ==
    ASSUME SessionInv, NEW t \in Tab, NEW p \in PageNames, Session!Open(t, p)
    PROVE  SessionInv'
<1>1. /\ sessionStored \in Account \union {NoAccount}
      /\ sessionPage \in [Tab -> PageNames \union {NoPage}]
      /\ sessionForm \in [Tab -> 0 .. MaxForms]
      /\ sessionUser \in [Tab -> Account \union {NoAccount}]
  BY DEF SessionInv, Session!TypeOK, PageNames
<1>2. \A q \in Tab \ {t} : sessionPage'[q] = sessionPage[q]
  BY <1>1 DEF Session!Open
<1>3. /\ sessionUser' \in [Tab -> Account \union {NoAccount}]
      /\ sessionGoing' \in [Tab -> [to : PageNames \union {NoPage}, checked : BOOLEAN]]
      /\ CheckedFits' /\ Session!PagesFitTheUser'
  BY <1>1, <1>2, NewUserFits DEF Session!Open
<1>4. /\ sessionPage' \in [Tab -> PageNames \union {NoPage}]
      /\ sessionForm' \in [Tab -> 0 .. MaxForms]
  BY <1>1, SessionConstants DEF Session!Open
<1>5. PICK arrived \in SUBSET sessionCalls :
         sessionKnown' = sessionKnown \union {c.account : c \in arrived}
  BY Zenon DEF Session!Open
<1>6. sessionKnown' \subseteq Account /\ sessionKnown \subseteq sessionKnown'
  BY <1>5 DEF SessionInv, FormsAreSent, Session!TypeOK
<1>7. /\ sessionCalls' \subseteq sessionCalls /\ sessionSent' = sessionSent
      /\ sessionErased' = sessionErased /\ sessionStored' = sessionStored
      /\ sessionLeaving' \subseteq sessionLeaving
  BY DEF Session!Open
<1>8. Session!TypeOK' /\ FormsAreSent'
  BY <1>1, <1>3, <1>4, <1>6, <1>7 DEF SessionInv, Session!TypeOK, FormsAreSent, PageNames
<1>9. Cardinality(Tab) = 1 => \A q \in Tab : sessionUser'[q] = sessionStored'
  BY <1>1, <1>7, OnlyTab DEF Session!Open
<1> QED BY <1>3, <1>6, <1>7, <1>8, <1>9 DEF SessionInv

\* The guard, and a page that is shown.
LEMMA CheckKeepsSession ==
    ASSUME SessionInv, NEW t \in Tab, Session!Check(t)
    PROVE  SessionInv'
<1> PICK to : to = sessionGoing[t].to
  OBVIOUS
<1> PICK p : p = Session!AuthGuard(to, sessionUser[t])
  OBVIOUS
<1>1. /\ to \in PageNames /\ sessionUser[t] \in Account \union {NoAccount} /\ to # NoPage
      /\ sessionGoing \in [Tab -> [to : PageNames \union {NoPage}, checked : BOOLEAN]]
  BY DEF SessionInv, Session!TypeOK, Session!Check, PageNames
<1>2. sessionGoing' = [sessionGoing EXCEPT ![t] = [to |-> p, checked |-> p = to]]
  BY DEF Session!Check
<1>3. p \in PageNames /\ p # NoPage
  BY <1>1, GuardFits, SessionConstants
<1>4. \A q \in Tab : sessionGoing'[q] =
                        IF q = t THEN [to |-> p, checked |-> p = to] ELSE sessionGoing[q]
  BY <1>1, <1>2
<1>5. sessionGoing' \in [Tab -> [to : PageNames \union {NoPage}, checked : BOOLEAN]]
  <2>1. (p = to) \in BOOLEAN
    OBVIOUS
  <2>2. [to |-> p, checked |-> p = to] \in [to : PageNames \union {NoPage}, checked : BOOLEAN]
    BY <1>3, <2>1
  <2> QED BY <1>1, <1>2, <2>2
<1>6. CheckedFits'
  <2> SUFFICES ASSUME NEW q \in Tab, sessionGoing'[q].checked,
                      sessionGoing'[q].to \in Session!Guarded
               PROVE  Session!HasRole(sessionUser[q], Session!RolesOf(sessionGoing'[q].to))
    BY DEF CheckedFits, Session!Check
  <2>1. CASE q = t
    <3>0. p = to
      <4> SUFFICES ASSUME p # to PROVE FALSE
        OBVIOUS
      <4>1. (p = to) = FALSE
        OBVIOUS
      <4>2. sessionGoing'[t] = [to |-> p, checked |-> FALSE]
        BY <1>4, <4>1
      <4> QED BY <2>1, <4>2
    <3>1. p = to /\ sessionGoing'[q].to = to
      BY <1>4, <2>1, <3>0
    <3>2. Session!AuthGuard(to, sessionUser[t]) = to /\ to \in Session!Guarded
      BY <3>1
    <3>3. Session!HasRole(sessionUser[t], Session!RolesOf(to))
      BY <1>1, <3>2, GuardFits
    <3> QED BY <2>1, <3>1, <3>3
  <2>2. CASE q # t
    BY <1>4, <2>2 DEF SessionInv, CheckedFits
  <2> QED BY <2>1, <2>2
<1>7. Session!PagesFitTheUser'
  BY <1>3, <1>4 DEF SessionInv, Session!PagesFitTheUser, Session!Check
<1> QED BY <1>5, <1>6, <1>7 DEF SessionInv, Session!TypeOK, Session!Check, FormsAreSent, PageNames

LEMMA ShowKeepsSession ==
    ASSUME SessionInv, NEW t \in Tab, Session!Show(t)
    PROVE  SessionInv'
<1>1. /\ sessionGoing \in [Tab -> [to : PageNames \union {NoPage}, checked : BOOLEAN]]
      /\ sessionPage \in [Tab -> PageNames \union {NoPage}]
      /\ sessionForm \in [Tab -> 0 .. MaxForms]
      /\ sessionGoing[t].checked
      /\ sessionGoing' = [sessionGoing EXCEPT ![t] = Session!Nowhere]
      /\ sessionPage' = [sessionPage EXCEPT ![t] = sessionGoing[t].to]
  BY DEF SessionInv, Session!TypeOK, Session!Show, PageNames
<1>2. /\ Session!Nowhere \in [to : PageNames \union {NoPage}, checked : BOOLEAN]
      /\ ~Session!Nowhere.checked
  BY DEF Session!Nowhere
<1>3. /\ sessionGoing' \in [Tab -> [to : PageNames \union {NoPage}, checked : BOOLEAN]]
      /\ sessionPage' \in [Tab -> PageNames \union {NoPage}]
  BY <1>1, <1>2
<1>4. sessionForm' \in [Tab -> 0 .. MaxForms]
  BY <1>1, SessionConstants DEF Session!Show
<1>5. \A q \in Tab :
         /\ sessionGoing'[q] = IF q = t THEN Session!Nowhere ELSE sessionGoing[q]
         /\ sessionPage'[q] = IF q = t THEN sessionGoing[q].to ELSE sessionPage[q]
  BY <1>1
<1>6. CheckedFits'
  BY <1>2, <1>5 DEF SessionInv, CheckedFits, Session!Show
<1>7. Session!PagesFitTheUser'
  BY <1>1, <1>5 DEF SessionInv, CheckedFits, Session!PagesFitTheUser, Session!Show
<1> QED BY <1>3, <1>4, <1>6, <1>7
        DEF SessionInv, Session!TypeOK, Session!Show, FormsAreSent, PageNames

\* A form that goes out, and what becomes of it.
LEMMA SubmitKeepsSession ==
    ASSUME SessionInv, NEW t \in Tab, NEW kind, NEW a \in Account, Session!Submit(t, kind, a)
    PROVE  SessionInv'
<1>1. sessionSent \in 0 .. MaxForms /\ sessionSent + 1 \in 1 .. MaxForms
  BY SessionConstants DEF SessionInv, Session!TypeOK, Session!Submit
<1>2. sessionForm' \in [Tab -> 0 .. MaxForms] /\ sessionSent' = sessionSent + 1
  BY <1>1, SessionConstants DEF SessionInv, Session!TypeOK, Session!Submit
<1>3. FormsAreSent'
  BY <1>1 DEF SessionInv, FormsAreSent, Session!Submit
<1>4. Session!TypeOK'
  BY <1>1, <1>2, <1>3, SessionConstants
     DEF SessionInv, Session!TypeOK, Session!Submit, FormsAreSent
<1>5. CheckedFits' /\ Session!PagesFitTheUser'
  BY DEF SessionInv, CheckedFits, Session!PagesFitTheUser, Session!Submit
<1> QED BY <1>3, <1>4, <1>5 DEF SessionInv, Session!Submit

LEMMA AcceptedKeepsSession ==
    ASSUME SessionInv, NEW c \in sessionCalls, Session!Accepted(c)
    PROVE  SessionInv'
<1>1. c.tab \in Tab /\ c.account \in Account
  BY DEF SessionInv, FormsAreSent
<1>2. Session!HomeForRole(c.account) \in PageNames
  BY <1>1, HomesFit
<1>3. /\ sessionStored' = c.account
      /\ sessionUser' = [sessionUser EXCEPT ![c.tab] = c.account]
      /\ sessionGoing' = [sessionGoing EXCEPT ![c.tab] = Session!To(Session!HomeForRole(c.account))]
      /\ sessionKnown' = sessionKnown \union {c.account}
      /\ sessionCalls' = sessionCalls \ {c}
      /\ sessionPage' = sessionPage /\ sessionSent' = sessionSent
      /\ sessionLeaving' = sessionLeaving /\ sessionErased' = sessionErased
  BY DEF Session!Accepted, Session!Persist, Session!Done
<1>4. /\ sessionUser' \in [Tab -> Account \union {NoAccount}]
      /\ sessionGoing' \in [Tab -> [to : PageNames \union {NoPage}, checked : BOOLEAN]]
      /\ CheckedFits' /\ Session!PagesFitTheUser'
  BY <1>1, <1>2, <1>3, NewUserFits
<1>5. sessionForm' \in [Tab -> 0 .. MaxForms]
  <2> PICK n : n = IF sessionForm[c.tab] = c.nr THEN 0 ELSE sessionForm[c.tab]
    OBVIOUS
  <2>1. sessionForm \in [Tab -> 0 .. MaxForms] /\ n \in 0 .. MaxForms
    BY <1>1, SessionConstants DEF SessionInv, Session!TypeOK
  <2>2. sessionForm' = [sessionForm EXCEPT ![c.tab] = n]
    BY DEF Session!Accepted, Session!Done
  <2> QED BY <2>1, <2>2
<1>6. Session!TypeOK' /\ FormsAreSent'
  BY <1>1, <1>3, <1>4, <1>5 DEF SessionInv, Session!TypeOK, FormsAreSent, PageNames
<1>7. Cardinality(Tab) = 1 => \A q \in Tab : sessionUser'[q] = sessionStored'
  <2>1. sessionUser \in [Tab -> Account \union {NoAccount}]
    BY DEF SessionInv, Session!TypeOK
  <2> QED BY <1>1, <1>3, <2>1, OnlyTab
<1> QED BY <1>3, <1>4, <1>6, <1>7 DEF SessionInv

LEMMA RefusedKeepsSession ==
    ASSUME SessionInv, NEW c \in sessionCalls, Session!Refused(c)
    PROVE  SessionInv'
<1>1. sessionForm' \in [Tab -> 0 .. MaxForms]
  <2> PICK n : n = IF sessionForm[c.tab] = c.nr THEN 0 ELSE sessionForm[c.tab]
    OBVIOUS
  <2>1. sessionForm \in [Tab -> 0 .. MaxForms] /\ c.tab \in Tab
    BY DEF SessionInv, Session!TypeOK, FormsAreSent
  <2>2. n \in 0 .. MaxForms
    BY <2>1, SessionConstants
  <2>3. sessionForm' = [sessionForm EXCEPT ![c.tab] = n]
    BY DEF Session!Refused, Session!Done
  <2> QED BY <2>1, <2>2, <2>3
<1>2. sessionCalls' = sessionCalls \ {c}
  BY DEF Session!Refused, Session!Done
<1> QED BY <1>1, <1>2 DEF SessionInv, Session!TypeOK, Session!Refused, FormsAreSent,
           CheckedFits, Session!PagesFitTheUser

\* Who signs out leaves the page, in the tab and in what the browser keeps.
LEMMA SignOutKeepsSession ==
    ASSUME SessionInv, NEW t \in Tab, Session!SignOut(t), sessionPage' = sessionPage,
           sessionForm' = sessionForm, sessionCalls' = sessionCalls,
           sessionSent' = sessionSent, sessionLeaving' \subseteq sessionLeaving,
           sessionKnown' = sessionKnown, sessionErased' = sessionErased
    PROVE  SessionInv'
<1>1. "campaigns" \in PageNames
  BY DEF PageNames, Session!Public
<1>2. /\ sessionStored' = NoAccount
      /\ sessionUser' = [sessionUser EXCEPT ![t] = NoAccount]
      /\ sessionGoing' = [sessionGoing EXCEPT ![t] = Session!To("campaigns")]
  BY DEF Session!SignOut
<1>3. /\ sessionUser' \in [Tab -> Account \union {NoAccount}]
      /\ sessionGoing' \in [Tab -> [to : PageNames \union {NoPage}, checked : BOOLEAN]]
      /\ CheckedFits' /\ Session!PagesFitTheUser'
  BY <1>1, <1>2, NewUserFits
<1>4. Session!TypeOK' /\ FormsAreSent'
  BY <1>2, <1>3 DEF SessionInv, Session!TypeOK, FormsAreSent, PageNames
<1>5. Cardinality(Tab) = 1 => \A q \in Tab : sessionUser'[q] = sessionStored'
  <2>1. sessionUser \in [Tab -> Account \union {NoAccount}]
    BY DEF SessionInv, Session!TypeOK
  <2> QED BY <1>2, <2>1, OnlyTab
<1> QED BY <1>2, <1>3, <1>4, <1>5 DEF SessionInv

LEMMA DeleteKeepsSession ==
    ASSUME SessionInv, NEW t \in Tab, Session!DeleteMyAccount(t)
    PROVE  SessionInv'
<1>1. sessionStored \in sessionKnown
  BY DEF SessionInv, Session!DeleteMyAccount
<1>2. Session!TypeOK'
  BY <1>1 DEF SessionInv, Session!TypeOK, Session!DeleteMyAccount
<1> QED BY <1>2 DEF SessionInv, Session!DeleteMyAccount, FormsAreSent, CheckedFits,
           Session!PagesFitTheUser

\* In any number of tabs, however navigations, answers, sign-outs and erasures fall: a
\* page at rest is one that its user may see; and in a browser with one tab the token
\* belongs to the user who is shown (authGuard, roleGuard, persist, logout).
THEOREM PagesAlwaysFit == AllSpec => []PagesFitTheUser
<1>1. AllInit => SessionInv
  <2> SUFFICES ASSUME Session!Init PROVE SessionInv
    BY DEF AllInit
  <2>1. /\ "campaigns" \in PageNames /\ "campaigns" \notin Session!Guarded
        /\ ~Session!Nowhere.checked
        /\ Session!Nowhere \in [to : PageNames \union {NoPage}, checked : BOOLEAN]
    BY DEF PageNames, Session!Public, Session!Guarded, Session!Nowhere
  <2>2. Session!TypeOK
    BY <2>1, SessionConstants DEF Session!Init, Session!TypeOK, PageNames
  <2>3. CheckedFits /\ Session!PagesFitTheUser
    BY <2>1 DEF Session!Init, CheckedFits, Session!PagesFitTheUser
  <2> QED BY <2>2, <2>3 DEF Session!Init, SessionInv, FormsAreSent
<1>2. SessionInv /\ [Session!Next]_(Session!vars) => SessionInv'
  <2> SUFFICES ASSUME SessionInv, [Session!Next]_(Session!vars) PROVE SessionInv'
    OBVIOUS
  <2>1. CASE UNCHANGED Session!vars
    BY <2>1 DEF Session!vars, SessionInv, Session!TypeOK, FormsAreSent, CheckedFits,
             Session!PagesFitTheUser
  <2>2. ASSUME NEW t \in Tab, NEW p \in PageNames, Session!Follow(t, p) \/ Session!Open(t, p)
        PROVE  SessionInv'
    BY <2>2, FollowKeepsSession, OpenKeepsSession
  <2>3. ASSUME NEW t \in Tab, Session!Logout(t) \/ Session!SignOutLater(t)
        PROVE  SessionInv'
    BY <2>3, SignOutKeepsSession DEF Session!Logout, Session!SignOutLater
  <2>4. ASSUME NEW t \in Tab,
               Session!Check(t) \/ Session!Show(t) \/ Session!DeleteMyAccount(t)
        PROVE  SessionInv'
    BY <2>4, CheckKeepsSession, ShowKeepsSession, DeleteKeepsSession
  <2>5. ASSUME NEW t \in Tab, NEW a \in Account, Session!Login(t, a) \/ Session!Register(t, a)
        PROVE  SessionInv'
    BY <2>5, SubmitKeepsSession DEF Session!Login, Session!Register
  <2>6. ASSUME NEW c \in sessionCalls, Session!Accepted(c) \/ Session!Refused(c)
        PROVE  SessionInv'
    BY <2>6, AcceptedKeepsSession, RefusedKeepsSession
  <2> QED BY <2>1, <2>2, <2>3, <2>4, <2>5, <2>6 DEF Session!Next, PageNames
<1>3. SessionInv => PagesFitTheUser
  <2>1. Session!Cardinality(Tab) = Cardinality(Tab)
    BY DEF Session!Cardinality, Cardinality
  <2> QED BY <2>1 DEF SessionInv, PagesFitTheUser, Session!TabSpeaksForItsUser
<1> QED BY <1>1, <1>2, <1>3, SessionSteps, PTL DEF AllSpec
-----------------------------------------------------------------------------
(* Accounts: what a request is about to store names users that exist, and  *)
(* only an erased account has the email of the erased.                     *)

\* A step of the whole is one of the accounts, or leaves them alone.
LEMMA AccountSteps == [AllNext]_allVars => [Accounts!Next]_(Accounts!vars)
BY DEF AllNext, OtherParts, allVars, acc, Accounts!vars

\* What requests remember.
RequestsFit ==
    \A r \in Hand :
        /\ accRequest[r].step \in {"idle", "register", "give", "erase"}
        /\ accRequest[r].step = "register" => accRequest[r].email \in Email
        /\ accRequest[r].step = "give" =>
              accRequest[r].user \in DOMAIN accUsers /\ accRequest[r].donation \in Gift
        /\ accRequest[r].step = "erase" => accRequest[r].user \in DOMAIN accUsers

UserRows == [email : Email \cup {Accounts!Deleted}, erased : BOOLEAN]
DonationRows == [by : Holder, named : BOOLEAN, late : BOOLEAN]

AccountsInv ==
    /\ DOMAIN accUsers \subseteq Holder /\ accUsers \in [DOMAIN accUsers -> UserRows]
    /\ accTokens \subseteq DOMAIN accUsers
    /\ DOMAIN accDonations \subseteq Gift
    /\ accDonations \in [DOMAIN accDonations -> DonationRows]
    /\ accRequest \in [Hand -> {accRequest[r] : r \in Hand}]
    /\ RequestsFit
    /\ \A d \in DOMAIN accDonations : accDonations[d].by \in DOMAIN accUsers
    /\ \A u \in DOMAIN accUsers :
          accUsers[u].email = Accounts!Deleted <=> accUsers[u].erased
    /\ Accounts!ErasedIsAnonymous

\* The rules of the server and of the form are the same, whatever the password.
LEMMA RulesAgree == Accounts!FormAgreesWithServer
<1> SUFFICES ASSUME NEW p \in Accounts!Password
             PROVE  /\ Accounts!AssessPassword(p) = Accounts!AssessPasswordStrength(p)
                    /\ ~Accounts!AssessPassword(p).valid => Accounts!AssessPassword(p).score <= 1
  BY DEF Accounts!FormAgreesWithServer
<1> PICK points : points = Accounts!Count(<<p.length >= 10, p.length >= 14,
                                            p.lower /\ p.upper, p.digit, p.symbol>>)
  OBVIOUS
<1> DEFINE valid == /\ p.length >= 10 /\ p.lower /\ p.upper /\ p.digit /\ ~p.common
                    /\ ~(p.length >= 10 /\ p.pattern)
           issues == {i \in {"length", "lower", "upper", "digit", "common", "pattern"} :
                         CASE i = "length" -> p.length < 10
                           [] i = "common" -> p.common
                           [] i = "pattern" -> p.length >= 10 /\ p.pattern
                           [] OTHER -> ~p[i]}
<1>1. p.length \in Nat
  BY CommunityAssumption DEF Accounts!AccountsAssumption, Accounts!Password
<1>2. valid <=> issues = {}
  <2>1. /\ "length" \in issues <=> p.length < 10
        /\ "lower" \in issues <=> ~p.lower
        /\ "upper" \in issues <=> ~p.upper
        /\ "digit" \in issues <=> ~p.digit
        /\ "common" \in issues <=> p.common
        /\ "pattern" \in issues <=> p.length >= 10 /\ p.pattern
    OBVIOUS
  <2>2. issues = {} <=> /\ "length" \notin issues /\ "lower" \notin issues
                        /\ "upper" \notin issues /\ "digit" \notin issues
                        /\ "common" \notin issues /\ "pattern" \notin issues
    OBVIOUS
  <2> HIDE DEF issues
  <2> QED BY <1>1, <2>1, <2>2
<1>3. points \in Nat
  <2> PICK conditions : conditions = <<p.length >= 10, p.length >= 14, p.lower /\ p.upper,
                                       p.digit, p.symbol>>
    OBVIOUS
  <2>1. DOMAIN conditions = 1 .. 5
    OBVIOUS
  <2>2. points = Cardinality({c \in DOMAIN conditions : conditions[c]})
    BY DEF Accounts!Count, Accounts!Cardinality, Cardinality
  <2>0. PICK five \in Nat : five = 5
    OBVIOUS
  <2>3. IsFiniteSet(1 .. five) /\ DOMAIN conditions = 1 .. five
    <3>1. IsFiniteSet(1 .. five)
      BY FS_Interval
    <3>2. DOMAIN conditions = 1 .. five
      BY <2>1, <2>0
    <3> QED BY <3>1, <3>2
  <2>4. {c \in DOMAIN conditions : conditions[c]} \subseteq 1 .. five
    <3> HIDE DEF issues, valid
    <3> QED BY <2>3, Zenon
  <2> QED BY <2>2, <2>3, <2>4, FS_Subset, FS_CardinalityType
<1> HIDE DEF valid
<1>4. Accounts!AssessPassword(p) =
         [valid |-> valid,
          score |-> IF valid \/ (IF points > 4 THEN 4 ELSE points) < 1
                    THEN (IF points > 4 THEN 4 ELSE points) ELSE 1]
  BY DEF Accounts!AssessPassword, valid
<1>5. Accounts!AssessPasswordStrength(p) =
         [valid |-> issues = {},
          score |-> IF points > (IF issues = {} THEN 4 ELSE 1)
                    THEN (IF issues = {} THEN 4 ELSE 1) ELSE points]
  BY DEF Accounts!AssessPasswordStrength
<1> HIDE DEF issues
<1>6. CASE valid
  <2>1. valid = TRUE /\ (issues = {}) = TRUE
    BY <1>2, <1>6 DEF valid
  <2> PICK score : score = IF points > 4 THEN 4 ELSE points
    OBVIOUS
  <2>2. Accounts!AssessPassword(p) = [valid |-> TRUE, score |-> score]
    BY <1>4, <2>1
  <2>3. Accounts!AssessPasswordStrength(p) = [valid |-> TRUE, score |-> score]
    BY <1>5, <2>1
  <2> QED BY <2>2, <2>3
<1>7. CASE ~valid
  <2>1. valid = FALSE /\ (issues = {}) = FALSE
    BY <1>2, <1>7
  <2> PICK score : score = IF points > 1 THEN 1 ELSE points
    OBVIOUS
  <2>2. Accounts!AssessPassword(p) = [valid |-> FALSE, score |-> score]
    <3>1. score = IF (IF points > 4 THEN 4 ELSE points) < 1
                  THEN (IF points > 4 THEN 4 ELSE points) ELSE 1
      BY <1>3
    <3> QED BY <1>4, <2>1, <3>1
  <2>3. Accounts!AssessPasswordStrength(p) = [valid |-> FALSE, score |-> score]
    BY <1>5, <2>1
  <2>4. score <= 1
    BY <1>3
  <2> QED BY <2>2, <2>3, <2>4
<1> QED BY <1>6, <1>7

\* A request that goes on, and the others.
LEMMA RequestContinues ==
    ASSUME AccountsInv, NEW r \in Hand, NEW next, Accounts!Continue(r, next)
    PROVE  /\ \A q \in Hand : accRequest'[q] = IF q = r THEN next ELSE accRequest[q]
           /\ accRequest' \in [Hand -> {accRequest'[q] : q \in Hand}]
<1>1. DOMAIN accRequest = Hand /\ accRequest' = [accRequest EXCEPT ![r] = next]
  BY DEF AccountsInv, Accounts!Continue
<1> QED BY <1>1

\* A request that ends remembers nothing.
LEMMA RequestEnds ==
    ASSUME AccountsInv, NEW r \in Hand, Accounts!Continue(r, Accounts!Idle),
           DOMAIN accUsers \subseteq DOMAIN accUsers'
    PROVE  RequestsFit'
<1> SUFFICES ASSUME NEW q \in Hand
             PROVE  /\ accRequest'[q].step \in {"idle", "register", "give", "erase"}
                    /\ accRequest'[q].step = "register" => accRequest'[q].email \in Email
                    /\ accRequest'[q].step = "give" =>
                          /\ accRequest'[q].user \in DOMAIN accUsers'
                          /\ accRequest'[q].donation \in Gift
                    /\ accRequest'[q].step = "erase" => accRequest'[q].user \in DOMAIN accUsers'
  BY DEF RequestsFit
<1>1. accRequest'[q] = IF q = r THEN Accounts!Idle ELSE accRequest[q]
  BY RequestContinues
<1>2. CASE q = r
  <2>1. accRequest'[q].step = "idle"
    BY <1>1, <1>2 DEF Accounts!Idle
  <2> QED BY <2>1
<1>3. CASE q # r
  BY <1>1, <1>3 DEF AccountsInv, RequestsFit
<1> QED BY <1>2, <1>3

\* A user who registers: nobody has the email when the user is stored.
LEMMA CreateUserKeepsAccounts ==
    ASSUME AccountsInv, NEW r \in Hand, NEW u \in Holder, Accounts!CreateUser(r, u)
    PROVE  AccountsInv'
<1> PICK email : email = accRequest[r].email
  OBVIOUS
<1> PICK row : row = [email |-> email, erased |-> FALSE]
  OBVIOUS
<1>1. /\ email \in Email /\ row \in UserRows /\ ~row.erased /\ row.email = email
      /\ email # Accounts!Deleted
  BY CommunityAssumption
     DEF AccountsInv, RequestsFit, Accounts!CreateUser, UserRows, Accounts!AccountsAssumption
<1>2. /\ \A q \in Hand : accRequest'[q] = IF q = r THEN Accounts!Idle ELSE accRequest[q]
      /\ accRequest' \in [Hand -> {accRequest'[q] : q \in Hand}]
      /\ accDonations' = accDonations /\ u \notin DOMAIN accUsers
  BY RequestContinues DEF Accounts!CreateUser
<1>3. CASE Accounts!Taken(accRequest[r].email)
  <2>1. accUsers' = accUsers /\ accTokens' = accTokens
    BY <1>3 DEF Accounts!CreateUser
  <2>2. RequestsFit'
    BY <2>1, RequestEnds DEF Accounts!CreateUser
  <2> QED BY <1>2, <2>1, <2>2 DEF AccountsInv, Accounts!ErasedIsAnonymous
<1>4. CASE ~Accounts!Taken(accRequest[r].email)
  <2>1. /\ accUsers' = [k \in DOMAIN accUsers \cup {u} |-> IF k = u THEN row ELSE accUsers[k]]
        /\ accTokens' = accTokens \cup {u}
    BY <1>4 DEF Accounts!CreateUser, Accounts!With
  <2>2. /\ DOMAIN accUsers' = DOMAIN accUsers \cup {u}
        /\ accUsers'[u] = row
        /\ \A k \in DOMAIN accUsers : accUsers'[k] = accUsers[k]
    BY <1>2, <2>1
  <2>3. accUsers' \in [DOMAIN accUsers' -> UserRows]
    BY <1>1, <2>1 DEF AccountsInv
  <2>4. \A k \in DOMAIN accUsers : accUsers[k].email # email
    BY <1>4 DEF Accounts!Taken
  <2>5. Accounts!ErasedIsAnonymous'
    <3>1. ASSUME NEW d \in DOMAIN accDonations', accUsers'[accDonations'[d].by].erased,
                 accDonations'[d].named
          PROVE  accDonations'[d].late
      BY <1>2, <2>2, <3>1 DEF AccountsInv, Accounts!ErasedIsAnonymous
    <3>2. ASSUME NEW x \in DOMAIN accUsers', NEW y \in DOMAIN accUsers',
                 accUsers'[x].email = accUsers'[y].email
          PROVE  x = y \/ accUsers'[x].erased
      <4>1. CASE x = u \/ y = u
        BY <1>1, <2>2, <2>4, <3>2, <4>1
      <4>2. CASE x # u /\ y # u
        BY <2>2, <3>2, <4>2 DEF AccountsInv, Accounts!ErasedIsAnonymous
      <4> QED BY <4>1, <4>2
    <3> QED BY <3>1, <3>2 DEF Accounts!ErasedIsAnonymous
  <2>6. RequestsFit'
    BY <2>2, RequestEnds DEF Accounts!CreateUser
  <2>7. /\ DOMAIN accUsers' \subseteq Holder /\ accTokens' \subseteq DOMAIN accUsers'
        /\ \A d \in DOMAIN accDonations' : accDonations'[d].by \in DOMAIN accUsers'
        /\ \A k \in DOMAIN accUsers' :
              accUsers'[k].email = Accounts!Deleted <=> accUsers'[k].erased
    BY <1>1, <1>2, <2>1, <2>2 DEF AccountsInv
  <2> QED BY <1>2, <2>3, <2>5, <2>6, <2>7 DEF AccountsInv
<1> QED BY <1>3, <1>4

\* A donation that is stored says whether the name came after the erasure.
LEMMA CreateDonationKeepsAccounts ==
    ASSUME AccountsInv, NEW r \in Hand, Accounts!CreateDonation(r)
    PROVE  AccountsInv'
<1> PICK u, d : u = accRequest[r].user /\ d = accRequest[r].donation
  OBVIOUS
<1> PICK row : row = [by |-> u, named |-> TRUE, late |-> accUsers[u].erased]
  OBVIOUS
<1>1. u \in DOMAIN accUsers /\ d \in Gift
  BY DEF AccountsInv, RequestsFit, Accounts!CreateDonation
<1>2. row \in DonationRows /\ row.by = u /\ row.late = accUsers[u].erased
  BY <1>1 DEF AccountsInv, UserRows, DonationRows
<1>3. /\ \A q \in Hand : accRequest'[q] = IF q = r THEN Accounts!Idle ELSE accRequest[q]
      /\ accRequest' \in [Hand -> {accRequest'[q] : q \in Hand}]
      /\ accUsers' = accUsers /\ accTokens' = accTokens
  BY RequestContinues DEF Accounts!CreateDonation
<1>4. RequestsFit'
  BY <1>3, RequestEnds DEF Accounts!CreateDonation
<1>5. CASE d \in DOMAIN accDonations
  <2>1. accDonations' = accDonations
    BY <1>5 DEF Accounts!CreateDonation
  <2> QED BY <1>3, <1>4, <2>1 DEF AccountsInv, Accounts!ErasedIsAnonymous
<1>6. CASE d \notin DOMAIN accDonations
  <2>1. accDonations' = [k \in DOMAIN accDonations \cup {d} |->
                            IF k = d THEN row ELSE accDonations[k]]
    BY <1>6 DEF Accounts!CreateDonation, Accounts!With
  <2>2. /\ DOMAIN accDonations' = DOMAIN accDonations \cup {d}
        /\ \A k \in DOMAIN accDonations' :
              accDonations'[k] = IF k = d THEN row ELSE accDonations[k]
    BY <2>1
  <2>3. accDonations' \in [DOMAIN accDonations' -> DonationRows]
    BY <1>2, <2>1 DEF AccountsInv
  <2>4. Accounts!ErasedIsAnonymous'
    <3>1. ASSUME NEW e \in DOMAIN accDonations', accUsers'[accDonations'[e].by].erased,
                 accDonations'[e].named
          PROVE  accDonations'[e].late
      <4>1. CASE e = d
        BY <1>2, <1>3, <2>2, <3>1, <4>1
      <4>2. CASE e # d
        BY <1>3, <2>2, <3>1, <4>2 DEF AccountsInv, Accounts!ErasedIsAnonymous
      <4> QED BY <4>1, <4>2
    <3> QED BY <1>3, <3>1 DEF AccountsInv, Accounts!ErasedIsAnonymous
  <2>5. /\ DOMAIN accDonations' \subseteq Gift
        /\ \A e \in DOMAIN accDonations' : accDonations'[e].by \in DOMAIN accUsers'
    BY <1>1, <1>2, <1>3, <2>2 DEF AccountsInv
  <2> QED BY <1>3, <1>4, <2>3, <2>4, <2>5 DEF AccountsInv
<1> QED BY <1>5, <1>6

\* The erasure takes the name from every donation of the user that is stored.
LEMMA EraseKeepsAccounts ==
    ASSUME AccountsInv, NEW r \in Hand, Accounts!Erase(r)
    PROVE  AccountsInv'
<1> PICK u : u = accRequest[r].user
  OBVIOUS
<1> PICK gone : gone = [email |-> Accounts!Deleted, erased |-> TRUE]
  OBVIOUS
<1>1. u \in DOMAIN accUsers /\ gone \in UserRows /\ gone.erased
      /\ gone.email = Accounts!Deleted
  BY DEF AccountsInv, RequestsFit, Accounts!Erase, UserRows
<1>2. /\ accUsers' = [accUsers EXCEPT ![u] = gone]
      /\ accDonations' = [d \in DOMAIN accDonations |->
              IF d \in Accounts!DonationsOf(u) THEN [accDonations[d] EXCEPT !.named = FALSE]
              ELSE accDonations[d]]
      /\ accTokens' = accTokens
      /\ \A q \in Hand : accRequest'[q] = IF q = r THEN Accounts!Idle ELSE accRequest[q]
      /\ accRequest' \in [Hand -> {accRequest'[q] : q \in Hand}]
  BY RequestContinues DEF Accounts!Erase
<1>3. /\ DOMAIN accUsers' = DOMAIN accUsers /\ accUsers' \in [DOMAIN accUsers' -> UserRows]
      /\ \A k \in DOMAIN accUsers : accUsers'[k] = IF k = u THEN gone ELSE accUsers[k]
  BY <1>1, <1>2 DEF AccountsInv
<1>4. DOMAIN accDonations' = DOMAIN accDonations
  BY <1>2
<1>5. \A d \in DOMAIN accDonations :
         /\ accDonations'[d] \in DonationRows
         /\ accDonations'[d].by = accDonations[d].by
         /\ accDonations'[d].late = accDonations[d].late
         /\ accDonations'[d].named => accDonations[d].named /\ accDonations[d].by # u
  <2> SUFFICES ASSUME NEW d \in DOMAIN accDonations
               PROVE  /\ accDonations'[d] \in DonationRows
                      /\ accDonations'[d].by = accDonations[d].by
                      /\ accDonations'[d].late = accDonations[d].late
                      /\ accDonations'[d].named => accDonations[d].named /\ accDonations[d].by # u
    OBVIOUS
  <2>1. accDonations[d] \in DonationRows
    BY DEF AccountsInv
  <2>2. CASE accDonations[d].by = u
    <3>1. accDonations'[d] = [accDonations[d] EXCEPT !.named = FALSE]
      BY <1>2, <2>2 DEF Accounts!DonationsOf
    <3> QED BY <2>1, <3>1 DEF DonationRows
  <2>3. CASE accDonations[d].by # u
    <3>1. accDonations'[d] = accDonations[d]
      BY <1>2, <2>3 DEF Accounts!DonationsOf
    <3> QED BY <2>1, <2>3, <3>1
  <2> QED BY <2>2, <2>3
<1>6. accDonations' \in [DOMAIN accDonations' -> DonationRows]
  BY <1>2, <1>4, <1>5
<1>7. Accounts!ErasedIsAnonymous'
  <2>1. ASSUME NEW d \in DOMAIN accDonations', accUsers'[accDonations'[d].by].erased,
               accDonations'[d].named
        PROVE  accDonations'[d].late
    BY <1>3, <1>4, <1>5, <2>1 DEF AccountsInv, Accounts!ErasedIsAnonymous
  <2>2. ASSUME NEW x \in DOMAIN accUsers', NEW y \in DOMAIN accUsers',
               accUsers'[x].email = accUsers'[y].email
        PROVE  x = y \/ accUsers'[x].erased
    BY <1>1, <1>3, <2>2 DEF AccountsInv, Accounts!ErasedIsAnonymous
  <2> QED BY <2>1, <2>2 DEF Accounts!ErasedIsAnonymous
<1>8. RequestsFit'
  BY <1>3, RequestEnds DEF Accounts!Erase
<1>9. /\ DOMAIN accUsers' \subseteq Holder /\ accTokens' \subseteq DOMAIN accUsers'
      /\ DOMAIN accDonations' \subseteq Gift
      /\ \A d \in DOMAIN accDonations' : accDonations'[d].by \in DOMAIN accUsers'
      /\ \A k \in DOMAIN accUsers' :
            accUsers'[k].email = Accounts!Deleted <=> accUsers'[k].erased
  BY <1>1, <1>2, <1>3, <1>4, <1>5 DEF AccountsInv
<1> QED BY <1>2, <1>3, <1>6, <1>7, <1>8, <1>9 DEF AccountsInv

\* A request that begins remembers what it has looked at.
LEMMA RequestsKeepAccounts ==
    ASSUME AccountsInv, NEW r \in Hand,
           \/ \E e \in Email : Accounts!Register(r, e)
           \/ \E u \in Holder : Accounts!Anonymize(r, u)
           \/ \E u \in Holder, d \in Gift : Accounts!Give(r, u, d)
    PROVE  AccountsInv'
<1>1. /\ accUsers' = accUsers /\ accTokens' = accTokens /\ accDonations' = accDonations
      /\ \E next : /\ Accounts!Continue(r, next)
                   /\ \/ \E e \in Email : next = [step |-> "register", email |-> e]
                      \/ \E u \in DOMAIN accUsers : next = [step |-> "erase", user |-> u]
                      \/ \E u \in DOMAIN accUsers, d \in Gift :
                            next = [step |-> "give", user |-> u, donation |-> d]
  BY DEF AccountsInv, Accounts!Register, Accounts!Anonymize, Accounts!Give
<1>2. PICK next : /\ Accounts!Continue(r, next)
                  /\ \/ \E e \in Email : next = [step |-> "register", email |-> e]
                     \/ \E u \in DOMAIN accUsers : next = [step |-> "erase", user |-> u]
                     \/ \E u \in DOMAIN accUsers, d \in Gift :
                           next = [step |-> "give", user |-> u, donation |-> d]
  BY <1>1
<1>3. /\ \A q \in Hand : accRequest'[q] = IF q = r THEN next ELSE accRequest[q]
      /\ accRequest' \in [Hand -> {accRequest'[q] : q \in Hand}]
  BY <1>2, RequestContinues
<1>4. RequestsFit'
  <2>1. /\ next.step \in {"register", "give", "erase"}
        /\ next.step = "register" => next.email \in Email
        /\ next.step = "give" => next.user \in DOMAIN accUsers /\ next.donation \in Gift
        /\ next.step = "erase" => next.user \in DOMAIN accUsers
    BY <1>2
  <2> QED BY <1>1, <1>3, <2>1 DEF AccountsInv, RequestsFit
<1> QED BY <1>1, <1>3, <1>4 DEF AccountsInv, Accounts!ErasedIsAnonymous

\* However requests overlap: after an erasure no donation that was stored before carries
\* the name, no two accounts share an email, and the form and the server judge every
\* password alike (anonymize, register, assessPassword, assessPasswordStrength).
THEOREM ErasuresHold == AllSpec => []ErasedIsAnonymous
<1>1. AllInit => AccountsInv
  <2> SUFFICES ASSUME Accounts!Init PROVE AccountsInv
    BY DEF AllInit
  <2>1. /\ DOMAIN accUsers = {} /\ DOMAIN accDonations = {} /\ accTokens = {}
        /\ accRequest = [r \in Hand |-> Accounts!Idle]
    BY DEF Accounts!Init
  <2>2. accUsers \in [DOMAIN accUsers -> UserRows]
        /\ accDonations \in [DOMAIN accDonations -> DonationRows]
    BY DEF Accounts!Init
  <2> QED BY <2>1, <2>2 DEF AccountsInv, RequestsFit, Accounts!Idle, Accounts!ErasedIsAnonymous
<1>2. AccountsInv /\ [Accounts!Next]_(Accounts!vars) => AccountsInv'
  <2> SUFFICES ASSUME AccountsInv, [Accounts!Next]_(Accounts!vars) PROVE AccountsInv'
    OBVIOUS
  <2>1. CASE UNCHANGED Accounts!vars
    BY <2>1 DEF Accounts!vars, AccountsInv, RequestsFit, Accounts!ErasedIsAnonymous
  <2>2. ASSUME NEW u \in Holder, Accounts!Login(u) \/ Accounts!Logout(u)
        PROVE  AccountsInv'
    BY <2>2 DEF Accounts!Login, Accounts!Logout, AccountsInv, RequestsFit,
             Accounts!ErasedIsAnonymous
  <2>3. CASE Accounts!Next
    BY <2>2, <2>3, CreateUserKeepsAccounts, CreateDonationKeepsAccounts, EraseKeepsAccounts,
       RequestsKeepAccounts DEF Accounts!Next
  <2> QED BY <2>1, <2>3
<1>3. AccountsInv => ErasedIsAnonymous
  <2> SUFFICES ASSUME AccountsInv PROVE ErasedIsAnonymous
    OBVIOUS
  <2>1. Accounts!TypeOK
    BY DEF AccountsInv, Accounts!TypeOK, RequestsFit, UserRows, DonationRows
  <2> QED BY <2>1, RulesAgree DEF AccountsInv, ErasedIsAnonymous
<1> QED BY <1>1, <1>2, <1>3, AccountSteps, PTL DEF AllSpec
-----------------------------------------------------------------------------
(* PayrollRoster: the inductive invariant says what a sync and a run have  *)
(* read, and that while requests do not overlap a run's copies may still   *)
(* pay before tax exactly if the stored ones may.                          *)

\* A step of the whole is one of the roster, or leaves it alone.
LEMMA RosterSteps == [AllNext]_allVars => [Roster!Next]_(Roster!vars)
BY DEF AllNext, OtherParts, allVars, roster, Roster!vars

\* What the roster is made of.
LEMMA RosterConstants ==
    /\ IsFiniteSet(Hand) /\ Staff \subseteq Nat /\ IsFiniteSet(Staff)
    /\ StaffRecords \subseteq [present : {TRUE}, band : Nat, preTax : BOOLEAN,
                               email : StaffAccount \cup {"none"}]
    /\ AskedDeductions \subseteq [amount : Nat \ {0}, preTax : BOOLEAN, rate : Int]
    /\ RosterStarts \in Nat
BY MoneyAssumption
DEF Roster!RosterAssumption, Roster!IsFiniteSet, IsFiniteSet, Roster!NoEmail

\* The stages of a request that is not idle.
SyncRequest(t) ==
    /\ DOMAIN t = {"step", "roster", "todo"} /\ t.step = "sync"
    /\ DOMAIN t.roster \subseteq Staff /\ t.todo \subseteq DOMAIN t.roster
    /\ \A e \in DOMAIN t.roster : t.roster[e] \in StaffRecords
RunRequest(t) ==
    /\ DOMAIN t = {"step", "d", "read", "todo"} /\ t.step = "run"
    /\ t.d \in AskedDeductions
    /\ DOMAIN t.read \subseteq Staff /\ t.todo \subseteq DOMAIN t.read
    /\ \A e \in DOMAIN t.read : t.read[e] \in Roster!Profile
RosterRequest(t) == t = Roster!Idle \/ SyncRequest(t) \/ RunRequest(t)

\* A request reads employees and does not go beyond them; scopes are read-only ones.
RosterTypes ==
    /\ Roster!TypeOK
    /\ DOMAIN rosterTask = Hand /\ \A h \in Hand : RosterRequest(rosterTask[h])
    /\ rosterScopes = {} \/ Roster!ReadOnlyScopes(rosterScopes)
    /\ \A e \in rosterLog : e.readOnly = TRUE

\* The copies that a run reads agree with the stored ones on who may pay before tax.
ReadAgrees(profile, t) ==
    t.step = "run" =>
        \A e \in DOMAIN t.read : profile[e].synced = TRUE /\ profile[e].preTax = t.read[e].preTax

\* While requests do not overlap, one is at work, with what is stored.
RosterAlone ==
    /\ \A g, h \in Hand :
          rosterTask[g] # Roster!Idle /\ rosterTask[h] # Roster!Idle => g = h
    /\ \A h \in Hand : ReadAgrees(rosterProfile, rosterTask[h])
    /\ \A l \in rosterLines : l.preTax => l.may

RosterInv == RosterTypes /\ (rosterAlone => RosterAlone)

\* The first of some employees is one of them.
LEMMA FirstIsOne ==
    ASSUME NEW T \in SUBSET Staff, T # {}
    PROVE  Roster!FirstOf(T) \in T
<1>1. \E e \in T : \A f \in T : e <= f
  BY RosterConstants, LeastNatural
<1> QED BY <1>1 DEF Roster!FirstOf

\* A request that goes on, or ends, is the only one if none overlaps.
LEMMA RosterGoesOn ==
    ASSUME RosterInv, NEW h \in Hand, NEW t, Roster!Goto(h, t)
    PROVE  /\ DOMAIN rosterTask' = Hand
           /\ rosterTask'[h] = t
           /\ \A g \in Hand \ {h} : rosterTask'[g] = rosterTask[g]
           /\ rosterAlone' \in BOOLEAN
           /\ rosterAlone' => /\ rosterAlone
                              /\ \A g, k \in Hand :
                                    rosterTask'[g] # Roster!Idle /\ rosterTask'[k] # Roster!Idle
                                    => g = k
<1>1. rosterTask' = [rosterTask EXCEPT ![h] = t] /\ DOMAIN rosterTask = Hand
  BY DEF Roster!Goto, RosterInv, RosterTypes
<1>2. rosterAlone' \in BOOLEAN /\ (rosterAlone' => rosterAlone)
  BY DEF Roster!Goto, RosterInv, RosterTypes, Roster!TypeOK
<1>3. ASSUME rosterAlone'
      PROVE  \A g, k \in Hand :
                rosterTask'[g] # Roster!Idle /\ rosterTask'[k] # Roster!Idle => g = k
  <2> PICK busy : busy = {g \in Hand : rosterTask'[g] # Roster!Idle}
    OBVIOUS
  <2>1. Roster!Cardinality(busy) <= 1
    BY <1>3 DEF Roster!Goto
  <2>2. Cardinality(busy) <= 1
    BY <2>1 DEF Cardinality, Roster!Cardinality
  <2>3. IsFiniteSet(busy)
    BY RosterConstants, FS_Subset
  <2> QED BY <2>2, <2>3, OneAtMost
<1> QED BY <1>1, <1>2, <1>3

\* The stages are told apart by their names.
LEMMA RosterStages ==
    \A t : /\ SyncRequest(t) => t # Roster!Idle /\ t.step = "sync"
           /\ RunRequest(t) => t # Roster!Idle /\ t.step = "run"
           /\ Roster!Idle.step = "idle"
BY DEF SyncRequest, RunRequest, Roster!Idle

\* What a deduction leaves is between nothing and the contribution.
LEMMA NetIsPartOfGross ==
    ASSUME NEW d \in AskedDeductions, NEW p \in Roster!Profile
    PROVE  Roster!Net(d, p) \in 0 .. d.amount /\ Roster!PreTax(d, p) \in BOOLEAN
<1>1. PICK a : a = d.amount
  OBVIOUS
<1>2. PICK c : c = Roster!Percent(d.rate)
  OBVIOUS
<1>3. a \in Nat /\ c \in 0 .. 100 /\ d.preTax \in BOOLEAN /\ p.preTax \in BOOLEAN
  BY <1>1, <1>2, RosterConstants DEF Roster!Percent, Roster!Profile
<1>4. a * c \in Nat /\ a * c <= a * 100
  <2>1. \A x \in Nat, y, z \in Nat : y + z = 100 => x * y \in Nat /\ x * z \in Nat
                                                   /\ x * y + x * z = x * 100
    OBVIOUS
  <2>2. 100 - c \in Nat /\ c \in Nat
    BY <1>3
  <2> QED BY <1>3, <2>1, <2>2
<1>5. PICK k : k = a * c
  OBVIOUS
<1>6. k \div 100 \in 0 .. a
  BY <1>3, <1>4, <1>5
<1>7. Roster!Saving(d, p) \in 0 .. a
  BY <1>1, <1>2, <1>3, <1>5, <1>6 DEF Roster!Saving
<1> QED BY <1>1, <1>3, <1>7 DEF Roster!Net, Roster!PreTax

\* The steps in which no request goes on: people come and go, companies connect.
LEMMA OutsideKeepsRoster ==
    ASSUME RosterInv,
           \/ \E e \in Staff, record \in StaffRecords \cup {Roster!Gone} :
                 Roster!HrisChanges(e, record)
           \/ \E asked \in AskedScopes : Roster!Connect(asked)
           \/ \E reported \in {"ERROR", "SYNCED"} : Roster!Webhook(reported)
    PROVE  RosterInv'
<1>1. UNCHANGED <<rosterProfile, rosterLog, rosterLines, rosterTask, rosterAlone>>
  BY DEF Roster!HrisChanges, Roster!Connect, Roster!Webhook
<1>2. /\ rosterHris' \in [Staff -> StaffRecords \cup {Roster!Gone}]
      /\ rosterStatus' \in Roster!Status
      /\ rosterStarts' \in 0 .. RosterStarts
      /\ rosterScopes' \in AskedScopes \cup {{}}
  BY RosterConstants
  DEF RosterInv, RosterTypes, Roster!TypeOK, Roster!HrisChanges, Roster!Connect,
      Roster!Webhook, Roster!Status
<1>3. rosterScopes' = {} \/ Roster!ReadOnlyScopes(rosterScopes')
  BY DEF RosterInv, RosterTypes, Roster!HrisChanges, Roster!Connect, Roster!Webhook
<1>4. RosterTypes'
  BY <1>1, <1>2, <1>3 DEF RosterInv, RosterTypes, Roster!TypeOK
<1>5. rosterAlone' => RosterAlone'
  BY <1>1 DEF RosterInv, RosterAlone
<1> QED BY <1>4, <1>5 DEF RosterInv

\* An employee opts in: whether it may pay before tax stays.
LEMMA ActivateKeepsRoster ==
    ASSUME RosterInv, NEW e \in Staff, Roster!Activate(e)
    PROVE  RosterInv'
<1>1. /\ UNCHANGED <<rosterHris, rosterStatus, rosterScopes, rosterLog, rosterLines, rosterTask,
                     rosterStarts, rosterAlone>>
      /\ rosterProfile' = [rosterProfile EXCEPT ![e].active = TRUE]
      /\ rosterProfile[e].synced
  BY DEF Roster!Activate, Roster!Synced
<1>2. rosterProfile \in [Staff -> Roster!Profile \cup {Roster!NotSynced}]
  BY DEF RosterInv, RosterTypes, Roster!TypeOK
<1>3. rosterProfile[e] \in Roster!Profile
  BY <1>1, <1>2 DEF Roster!NotSynced
<1> PICK new : new = rosterProfile'
  OBVIOUS
<1>4. /\ new \in [Staff -> Roster!Profile \cup {Roster!NotSynced}]
      /\ \A f \in Staff : new[f].synced = rosterProfile[f].synced
      /\ \A f \in Staff : rosterProfile[f].synced = TRUE
                             => new[f].preTax = rosterProfile[f].preTax
  BY <1>1, <1>2, <1>3 DEF Roster!Profile, Roster!NotSynced
<1>5. RosterTypes'
  BY <1>1, <1>4 DEF RosterInv, RosterTypes, Roster!TypeOK
<1>6. ASSUME rosterAlone' PROVE RosterAlone'
  <2>1. RosterAlone
    BY <1>1, <1>6 DEF RosterInv
  <2>2. ASSUME NEW h \in Hand PROVE ReadAgrees(new, rosterTask[h])
    <3>1. ReadAgrees(rosterProfile, rosterTask[h]) /\ RosterRequest(rosterTask[h])
      BY <2>1 DEF RosterAlone, RosterInv, RosterTypes
    <3> QED BY <1>4, <3>1, RosterStages DEF ReadAgrees, RosterRequest, RunRequest
  <2> QED BY <1>1, <2>1, <2>2 DEF RosterAlone
<1> QED BY <1>5, <1>6 DEF RosterInv

\* A sync asks for the employees, or copies one: while it does, no run is under way.
LEMMA SyncKeepsRoster ==
    ASSUME RosterInv, NEW h \in Hand, Roster!StartSync(h) \/ Roster!SyncOne(h)
    PROVE  RosterInv'
<1> PICK t : Roster!Goto(h, t) /\ SyncRequest(t)
  <2>1. CASE Roster!StartSync(h)
    <3> DEFINE present == {e \in Staff : rosterHris[e].present}
               next == [step |-> "sync", roster |-> [e \in present |-> rosterHris[e]],
                        todo |-> present]
    <3>1. Roster!Goto(h, next)
      BY <2>1 DEF Roster!StartSync
    <3>2. \A e \in present : rosterHris[e] \in StaffRecords
      BY DEF RosterInv, RosterTypes, Roster!TypeOK, Roster!Gone
    <3>3. SyncRequest(next)
      BY <3>2 DEF SyncRequest
    <3> QED BY <3>1, <3>3
  <2>2. CASE Roster!SyncOne(h)
    <3> DEFINE next == [rosterTask[h] EXCEPT
                            !.todo = rosterTask[h].todo \ {Roster!FirstOf(rosterTask[h].todo)}]
    <3>1. Roster!Goto(h, next) /\ rosterTask[h].step = "sync"
      BY <2>2 DEF Roster!SyncOne
    <3>2. SyncRequest(rosterTask[h])
      BY <3>1, RosterStages DEF RosterInv, RosterTypes, RosterRequest
    <3>3. SyncRequest(next)
      BY <3>2 DEF SyncRequest
    <3> QED BY <3>1, <3>3
  <2> QED BY <2>1, <2>2
<1>1. UNCHANGED <<rosterHris, rosterStatus, rosterScopes, rosterLog, rosterLines>>
  BY DEF Roster!StartSync, Roster!SyncOne
<1>2. rosterStarts' \in 0 .. RosterStarts
  BY RosterConstants
  DEF Roster!StartSync, Roster!SyncOne, Roster!Begin, RosterInv, RosterTypes, Roster!TypeOK
<1>3. rosterProfile' \in [Staff -> Roster!Profile \cup {Roster!NotSynced}]
  <2>1. rosterProfile \in [Staff -> Roster!Profile \cup {Roster!NotSynced}]
    BY DEF RosterInv, RosterTypes, Roster!TypeOK
  <2>2. CASE Roster!StartSync(h)
    BY <2>1, <2>2 DEF Roster!StartSync
  <2>3. CASE Roster!SyncOne(h)
    <3>1. PICK e : e = Roster!FirstOf(rosterTask[h].todo)
      OBVIOUS
    <3>2. PICK record : record = rosterTask[h].roster[e]
      OBVIOUS
    <3>3. SyncRequest(rosterTask[h]) /\ rosterTask[h].todo # {}
      BY <2>3, RosterStages DEF Roster!SyncOne, RosterInv, RosterTypes, RosterRequest
    <3>4. rosterTask[h].todo \in SUBSET Staff
      BY <3>3 DEF SyncRequest
    <3>5. e \in rosterTask[h].todo
      BY <3>1, <3>3, <3>4, FirstIsOne
    <3>6. record \in StaffRecords /\ e \in Staff
      BY <3>2, <3>3, <3>5 DEF SyncRequest
    <3>7. /\ record.band \in Nat /\ record.preTax \in BOOLEAN
          /\ record.email \in StaffAccount \cup {"none"}
      BY <3>6, RosterConstants
    <3>8. Roster!Copy(e, record) \in Roster!Profile
      <4> PICK p : p = rosterProfile[e]
        OBVIOUS
      <4>1. p \in Roster!Profile \cup {Roster!NotSynced}
        BY <2>1, <3>6
      <4>2. CASE ~p.synced
        BY <3>7, <4>2 DEF Roster!Copy, Roster!Profile, Roster!NoEmail
      <4>3. CASE p.synced
        <5>1. p \in Roster!Profile
          BY <4>1, <4>3 DEF Roster!NotSynced
        <5>2. PICK user : user = IF record.email # Roster!NoEmail THEN record.email ELSE p.user
          OBVIOUS
        <5>3. user \in StaffAccount \cup {Roster!NoEmail}
          BY <3>7, <5>1, <5>2 DEF Roster!Profile, Roster!NoEmail
        <5>4. Roster!Copy(e, record)
                 = [p EXCEPT !.band = record.band, !.preTax = record.preTax, !.user = user]
          BY <4>3, <5>2 DEF Roster!Copy
        <5> QED BY <3>7, <5>1, <5>3, <5>4 DEF Roster!Profile
      <4> QED BY <4>2, <4>3
    <3>9. rosterProfile' = [rosterProfile EXCEPT ![e] = Roster!Copy(e, record)]
      BY <2>3, <3>1, <3>2 DEF Roster!SyncOne
    <3> QED BY <2>1, <3>6, <3>8, <3>9
  <2> QED BY <2>2, <2>3
<1>4. RosterTypes'
  <2>1. \A g \in Hand : RosterRequest(rosterTask'[g])
    BY RosterGoesOn DEF RosterInv, RosterTypes, RosterRequest
  <2> QED BY <1>1, <1>2, <1>3, <2>1, RosterGoesOn DEF RosterInv, RosterTypes, Roster!TypeOK
<1>5. ASSUME rosterAlone' PROVE RosterAlone'
  <2>1. \A g \in Hand : rosterTask'[g] = t \/ rosterTask'[g] = Roster!Idle
    BY <1>5, RosterGoesOn, RosterStages
  <2>2. \A g \in Hand : rosterTask'[g].step # "run"
    BY <2>1, RosterStages
  <2>3. \A l \in rosterLines' : l.preTax => l.may
    BY <1>1, <1>5, RosterGoesOn DEF RosterInv, RosterAlone
  <2> QED BY <1>5, <2>2, <2>3, RosterGoesOn DEF RosterAlone, ReadAgrees
<1> QED BY <1>4, <1>5 DEF RosterInv

\* A sync that ends, or a request that stops, leaves the copies as they are; the scopes
\* it logs are those that a connection was checked for.
LEMMA EndKeepsRoster ==
    ASSUME RosterInv, NEW h \in Hand, Roster!SyncEnds(h) \/ Roster!Stops(h)
    PROVE  RosterInv'
<1>1. /\ UNCHANGED <<rosterHris, rosterScopes, rosterProfile, rosterLines, rosterStarts>>
      /\ Roster!Goto(h, Roster!Idle)
      /\ rosterStatus' \in Roster!Status
  BY DEF Roster!SyncEnds, Roster!Stops, Roster!Status, RosterInv, RosterTypes, Roster!TypeOK
<1>2. \A e \in rosterLog' : e.count \in 0 .. Cardinality(Staff) /\ e.readOnly = TRUE
  <2>1. \A e \in rosterLog : e.count \in 0 .. Cardinality(Staff) /\ e.readOnly = TRUE
    BY DEF RosterInv, RosterTypes, Roster!TypeOK, Roster!Cardinality, Cardinality
  <2>2. CASE Roster!Stops(h)
    BY <2>1, <2>2 DEF Roster!Stops
  <2>3. CASE Roster!SyncEnds(h)
    <3>1. SyncRequest(rosterTask[h])
      BY <2>3, RosterStages DEF Roster!SyncEnds, RosterInv, RosterTypes, RosterRequest
    <3>2. PICK D : D = DOMAIN rosterTask[h].roster
      OBVIOUS
    <3>3. Cardinality(D) \in 0 .. Cardinality(Staff)
      <4>1. D \subseteq Staff
        BY <3>1, <3>2 DEF SyncRequest
      <4>2. IsFiniteSet(D) /\ Cardinality(D) <= Cardinality(Staff)
        BY <4>1, RosterConstants, FS_Subset
      <4> QED BY <4>2, RosterConstants, FS_CardinalityType
    <3>4. Roster!Cardinality(D) = Cardinality(D)
      BY DEF Roster!Cardinality, Cardinality
    <3>5. Roster!AllReadOnly(rosterScopes) = TRUE
      BY DEF RosterInv, RosterTypes, Roster!AllReadOnly, Roster!ReadOnlyScopes,
             Roster!LogMarkers, Roster!ConnectMarkers
    <3>6. rosterLog' = rosterLog \cup {[count |-> Cardinality(D), readOnly |-> TRUE]}
      BY <2>3, <3>2, <3>4, <3>5 DEF Roster!SyncEnds
    <3> QED BY <2>1, <3>3, <3>6
  <2> QED BY <2>2, <2>3
<1>3. RosterTypes'
  <2>1. \A g \in Hand : RosterRequest(rosterTask'[g])
    BY <1>1, RosterGoesOn DEF RosterInv, RosterTypes, RosterRequest
  <2>2. \A e \in rosterLog' : e.count \in 0 .. Roster!Cardinality(Staff) /\ e.readOnly \in BOOLEAN
    BY <1>2 DEF Roster!Cardinality, Cardinality
  <2> QED BY <1>1, <1>2, <2>1, <2>2, RosterGoesOn DEF RosterInv, RosterTypes, Roster!TypeOK
<1>4. ASSUME rosterAlone' PROVE RosterAlone'
  <2>1. RosterAlone
    BY <1>1, <1>4, RosterGoesOn DEF RosterInv
  <2>2. \A g \in Hand : ReadAgrees(rosterProfile, rosterTask'[g])
    BY <1>1, <2>1, RosterGoesOn, RosterStages DEF RosterAlone, ReadAgrees
  <2> QED BY <1>1, <1>4, <2>1, <2>2, RosterGoesOn DEF RosterAlone
<1> QED BY <1>3, <1>4 DEF RosterInv

\* A run reads who takes part.
LEMMA StartRunKeepsRoster ==
    ASSUME RosterInv, NEW h \in Hand, NEW d \in AskedDeductions, Roster!StartRun(h, d)
    PROVE  RosterInv'
<1> DEFINE active == {e \in Roster!Synced : rosterProfile[e].active}
           t == [step |-> "run", d |-> d, read |-> [e \in active |-> rosterProfile[e]],
                 todo |-> active]
<1>1. /\ UNCHANGED <<rosterHris, rosterStatus, rosterScopes, rosterProfile, rosterLog, rosterLines>>
      /\ Roster!Goto(h, t)
  BY DEF Roster!StartRun
<1>2. rosterStarts' \in 0 .. RosterStarts
  BY RosterConstants DEF Roster!StartRun, Roster!Begin, RosterInv, RosterTypes, Roster!TypeOK
<1>3. \A e \in active : /\ e \in Staff /\ rosterProfile[e] \in Roster!Profile
                        /\ rosterProfile[e].synced = TRUE
  <2> SUFFICES ASSUME NEW e \in active
               PROVE  /\ e \in Staff /\ rosterProfile[e] \in Roster!Profile
                      /\ rosterProfile[e].synced = TRUE
    OBVIOUS
  <2>1. e \in Staff /\ rosterProfile[e].synced
    BY DEF Roster!Synced
  <2>2. rosterProfile[e] \in Roster!Profile \cup {Roster!NotSynced}
    BY <2>1 DEF RosterInv, RosterTypes, Roster!TypeOK
  <2>3. rosterProfile[e] # Roster!NotSynced
    BY <2>1 DEF Roster!NotSynced
  <2> QED BY <2>1, <2>2, <2>3 DEF Roster!Profile
<1>4. RunRequest(t) /\ ReadAgrees(rosterProfile, t)
  BY <1>3 DEF RunRequest, ReadAgrees
<1> HIDE DEF t
<1>5. RosterTypes'
  <2>1. \A g \in Hand : RosterRequest(rosterTask'[g])
    BY <1>1, <1>4, RosterGoesOn DEF RosterInv, RosterTypes, RosterRequest
  <2> QED BY <1>1, <1>2, <2>1, RosterGoesOn DEF RosterInv, RosterTypes, Roster!TypeOK
<1>6. ASSUME rosterAlone' PROVE RosterAlone'
  <2>1. RosterAlone
    BY <1>1, <1>6, RosterGoesOn DEF RosterInv
  <2>2. \A g \in Hand : ReadAgrees(rosterProfile, rosterTask'[g])
    BY <1>1, <1>4, <2>1, RosterGoesOn DEF RosterAlone
  <2> QED BY <1>1, <1>6, <2>1, <2>2, RosterGoesOn DEF RosterAlone
<1> QED BY <1>5, <1>6 DEF RosterInv

\* A run books a line for one employee, as it read it.
LEMMA RunOneKeepsRoster ==
    ASSUME RosterInv, NEW h \in Hand, Roster!RunOne(h)
    PROVE  RosterInv'
<1>q. PICK q : q = rosterTask[h]
  OBVIOUS
<1>e. PICK e : e = Roster!FirstOf(q.todo)
  OBVIOUS
<1>t. PICK t : t = IF q.todo = {e} THEN Roster!Idle ELSE [q EXCEPT !.todo = q.todo \ {e}]
  OBVIOUS
<1>1. /\ UNCHANGED <<rosterHris, rosterStatus, rosterScopes, rosterProfile, rosterLog, rosterStarts>>
      /\ Roster!Goto(h, t) /\ q.step = "run" /\ q.todo # {}
      /\ rosterLines' = IF ~Roster!Eligible(q.read[e]) THEN rosterLines
                        ELSE rosterLines \cup {[of |-> e, gross |-> q.d.amount,
                                net |-> Roster!Net(q.d, q.read[e]),
                                preTax |-> Roster!PreTax(q.d, q.read[e]),
                                may |-> rosterProfile[e].preTax]}
  BY <1>q, <1>e, <1>t DEF Roster!RunOne
<1>2. RunRequest(q)
  BY <1>q, <1>1, RosterStages DEF RosterInv, RosterTypes, RosterRequest
<1>3. e \in q.todo /\ e \in DOMAIN q.read /\ e \in Staff
  <2>1. q.todo \in SUBSET Staff
    BY <1>2 DEF RunRequest
  <2> QED BY <1>e, <1>1, <1>2, <2>1, FirstIsOne DEF RunRequest
<1>4. RosterRequest(t) /\ (t = Roster!Idle \/ (t.step = "run" /\ t.read = q.read))
  BY <1>t, <1>2 DEF RosterRequest, RunRequest
<1>5. Roster!Net(q.d, q.read[e]) \in 0 .. q.d.amount
      /\ Roster!PreTax(q.d, q.read[e]) \in BOOLEAN
  BY <1>2, <1>3, NetIsPartOfGross DEF RunRequest
<1>6. RosterTypes'
  <2>1. \A g \in Hand : RosterRequest(rosterTask'[g])
    <3>1. rosterTask'[h] = t /\ \A g \in Hand \ {h} : rosterTask'[g] = rosterTask[g]
      BY <1>1, RosterGoesOn
    <3> QED BY <1>4, <3>1 DEF RosterInv, RosterTypes
  <2>2. \A l \in rosterLines' : l.of \in Staff /\ l.net \in 0 .. l.gross
    BY <1>1, <1>3, <1>5 DEF RosterInv, RosterTypes, Roster!TypeOK
  <2> QED BY <1>1, <2>1, <2>2, RosterGoesOn DEF RosterInv, RosterTypes, Roster!TypeOK
<1>7. ASSUME rosterAlone' PROVE RosterAlone'
  <2>1. RosterAlone
    BY <1>1, <1>7, RosterGoesOn DEF RosterInv
  <2>2. ReadAgrees(rosterProfile, q)
    BY <1>q, <2>1 DEF RosterAlone
  <2>3. ReadAgrees(rosterProfile, t)
    BY <1>1, <1>4, <2>2, RosterStages DEF ReadAgrees
  <2>4. \A g \in Hand : ReadAgrees(rosterProfile, rosterTask'[g])
    BY <1>1, <2>1, <2>3, RosterGoesOn DEF RosterAlone
  <2>5. Roster!PreTax(q.d, q.read[e]) => rosterProfile[e].preTax
    BY <1>1, <1>3, <2>2 DEF ReadAgrees, Roster!PreTax
  <2>6. \A l \in rosterLines' : l.preTax => l.may
    BY <1>1, <2>1, <2>5 DEF RosterAlone
  <2> QED BY <1>1, <1>7, <2>4, <2>6, RosterGoesOn DEF RosterAlone
<1> QED BY <1>6, <1>7 DEF RosterInv

\* Copying an employee anew keeps what it chose.
LEMMA ChosenStays ==
    ASSUME RosterInv, [Roster!Next]_(Roster!vars), NEW e \in Staff,
           rosterProfile[e].synced, rosterProfile[e].active
    PROVE  rosterProfile'[e].active
<1>1. rosterProfile \in [Staff -> Roster!Profile \cup {Roster!NotSynced}]
  BY DEF RosterInv, RosterTypes, Roster!TypeOK
<1>2. rosterProfile[e] \in Roster!Profile
  BY <1>1 DEF Roster!NotSynced
<1>3. ASSUME NEW h \in Hand, Roster!SyncOne(h) PROVE rosterProfile'[e].active
  <2>1. PICK f : f = Roster!FirstOf(rosterTask[h].todo)
    OBVIOUS
  <2>2. PICK record : record = rosterTask[h].roster[f]
    OBVIOUS
  <2>3. rosterProfile' = [rosterProfile EXCEPT ![f] = Roster!Copy(f, record)]
    BY <1>3, <2>1, <2>2 DEF Roster!SyncOne
  <2>4. CASE f # e
    BY <1>1, <2>3, <2>4
  <2>5. CASE f = e
    BY <1>1, <1>2, <2>3, <2>5 DEF Roster!Copy, Roster!Profile
  <2> QED BY <2>4, <2>5
<1>4. ASSUME NEW f \in Staff, Roster!Activate(f) PROVE rosterProfile'[e].active
  BY <1>1, <1>2, <1>4 DEF Roster!Activate, Roster!Profile
<1>5. \/ \E h \in Hand : Roster!SyncOne(h)
      \/ \E f \in Staff : Roster!Activate(f)
      \/ rosterProfile' = rosterProfile
  BY DEF Roster!Next, Roster!vars, Roster!HrisChanges, Roster!Connect, Roster!Webhook,
         Roster!StartSync, Roster!SyncEnds, Roster!RunOne, Roster!Stops, Roster!StartRun
<1> QED BY <1>3, <1>4, <1>5

\* Every sync that is logged is logged as read-only, while requests do not overlap
\* nobody pays before tax who may not, and who opted in stays in, however often the
\* employees are copied anew (connectHris, syncEmployees, runCampaign).
THEOREM RosterIsAlwaysKept == AllSpec => RosterIsKept
<1>1. AllInit => RosterInv
  <2> SUFFICES ASSUME Roster!Init PROVE RosterInv
    BY DEF AllInit
  <2>1. RosterTypes
    BY RosterConstants DEF Roster!Init, RosterTypes, Roster!TypeOK, Roster!Status, RosterRequest
  <2>2. RosterAlone
    BY RosterStages DEF Roster!Init, RosterAlone, ReadAgrees
  <2> QED BY <2>1, <2>2 DEF RosterInv
<1>2. RosterInv /\ [Roster!Next]_(Roster!vars) => RosterInv'
  <2> SUFFICES ASSUME RosterInv, [Roster!Next]_(Roster!vars) PROVE RosterInv'
    OBVIOUS
  <2>1. CASE UNCHANGED Roster!vars
    BY <2>1 DEF Roster!vars, RosterInv, RosterTypes, RosterAlone, Roster!TypeOK
  <2>2. CASE Roster!Next
    BY <2>2, OutsideKeepsRoster, ActivateKeepsRoster, SyncKeepsRoster, EndKeepsRoster,
       StartRunKeepsRoster, RunOneKeepsRoster
    DEF Roster!Next
  <2> QED BY <2>1, <2>2
<1>3. RosterInv => (focus = "roster" => Roster!TypeOK /\ Roster!LoggedReadOnly
                                        /\ Roster!PreTaxIsAllowed)
  BY DEF RosterInv, RosterTypes, RosterAlone, Roster!LoggedReadOnly, Roster!PreTaxIsAllowed
<1>4. RosterInv /\ [Roster!Next]_(Roster!vars) =>
          [\A e \in Staff : rosterProfile[e].synced /\ rosterProfile[e].active
                               => rosterProfile'[e].active]_(Roster!vars)
  BY ChosenStays
<1> QED BY <1>1, <1>2, <1>3, <1>4, RosterSteps, PTL DEF AllSpec, RosterIsKept, Roster!OptInIsKept
-----------------------------------------------------------------------------
(* Groups, a circle with one request at a time: the inductive invariant    *)
(* says that what a request has checked still holds when it writes, for    *)
(* the administrators and for the ballots.  A cohort with many requests:   *)
(* the invariant keeps what the split of a match promised.                 *)

\* A step of the whole is one of the circle, or leaves it alone; and of the cohort.
LEMMA GroupSteps ==
    /\ [AllNext]_allVars => [Circle!Next]_(Circle!vars)
    /\ [AllNext]_allVars => [Cohort!Next]_(Cohort!vars)
BY DEF AllNext, OtherParts, allVars, circle, cohort, Circle!vars, Cohort!vars

\* What groups are made of.
LEMMA GroupConstants ==
    /\ CircleOption \subseteq Nat
    /\ CohortCampaign \subseteq Nat /\ CohortTotals \subseteq Nat
    /\ IsFiniteSet(CohortCampaign) /\ CohortGoal \in [CohortCampaign -> Nat]
BY CommunityAssumption
DEF Circle!GroupsAssumption, Cohort!GroupsAssumption, Cohort!IsFiniteSet, IsFiniteSet

\* The sum of the module is the sum that Sums is about.
LEMMA CohortSums == \A f, S : Cohort!Total(f, S) = Total(f, S)
BY DEF Cohort!Total, Cohort!MapThenSumSet, Cohort!MapThenFoldSet, Total, MapThenSumSet,
       MapThenFoldSet

\* The remainder fills the campaigns in order: those before a number get what there is,
\* or all they have room for.
LEMMA RestIsSpent ==
    ASSUME NEW D \in SUBSET Nat, IsFiniteSet(D), NEW room \in [D -> Nat], NEW rest \in Nat,
           NEW add,
           \A c \in D :
              LET left == rest - Total(room, {b \in D : b < c})
              IN  add[c] = IF left <= 0 THEN 0 ELSE Cohort!Lower(room[c], left)
    PROVE  /\ \A c \in D : add[c] \in Nat /\ add[c] <= room[c]
           /\ Total(add, D) = Cohort!Lower(rest, Total(room, D))
<1>1. \A U \in SUBSET D : IsFiniteSet(U) /\ Total(room, U) \in Nat
  BY FS_Subset, TotalIsNatural
<1>2. \A c \in D : add[c] \in Nat /\ add[c] <= room[c]
  <2> SUFFICES ASSUME NEW c \in D PROVE add[c] \in Nat /\ add[c] <= room[c]
    OBVIOUS
  <2>1. PICK before : before = Total(room, {b \in D : b < c})
    OBVIOUS
  <2>2. before \in Nat /\ room[c] \in Nat
    BY <1>1, <2>1
  <2> QED BY <2>1, <2>2 DEF Cohort!Lower
<1> DEFINE P == {U \in SUBSET D : Total(add, U) = Cohort!Lower(rest, Total(room, U))}
<1>3. {} \in P
  BY TotalOfNone DEF Cohort!Lower
<1>4. ASSUME NEW c \in D, {b \in D : b < c} \in P PROVE {b \in D : b < c} \cup {c} \in P
  <2>1. PICK U : U = {b \in D : b < c}
    OBVIOUS
  <2>2. PICK before : before = Total(room, U)
    OBVIOUS
  <2>3. IsFiniteSet(U) /\ IsFiniteSet({c}) /\ U \cap {c} = {} /\ before \in Nat
    BY <1>1, <2>1, <2>2, FS_Singleton
  <2>u. c \notin U /\ \A x \in U \cup {c} : room[x] \in Int /\ add[x] \in Int
    BY <1>2, <2>1
  <2>4. Total(room, U \cup {c}) = before + room[c]
    BY <2>2, <2>3, <2>u, TotalWithOneMore
  <2>5. Total(add, U \cup {c}) = Total(add, U) + add[c]
    BY <2>3, <2>u, TotalWithOneMore
  <2>6. Total(add, U) = Cohort!Lower(rest, before)
    BY <1>4, <2>1, <2>2
  <2>7. add[c] = IF rest - before <= 0 THEN 0 ELSE Cohort!Lower(room[c], rest - before)
    BY <2>1, <2>2
  <2>8. Total(add, U \cup {c}) = Cohort!Lower(rest, before + room[c])
    BY <2>3, <2>5, <2>6, <2>7 DEF Cohort!Lower
  <2> QED BY <2>1, <2>4, <2>8
<1> HIDE DEF P
<1>5. D \in P
  <2>1. D \in SUBSET Int
    OBVIOUS
  <2> QED BY <1>3, <1>4, <2>1, OrderedInduction
<1> QED BY <1>2, <1>5 DEF P

\* The shares in proportion, rounded down, are within the gaps and together within what
\* there is to give.
LEMMA SharesAreWithin ==
    ASSUME NEW D, IsFiniteSet(D), NEW gap \in [D -> Nat], NEW sum, sum = Total(gap, D),
           NEW capped \in Nat, sum > 0, NEW base,
           \A c \in D : base[c] = Cohort!Lower(gap[c], (capped * gap[c]) \div sum)
    PROVE  /\ \A c \in D : base[c] \in Nat /\ base[c] <= gap[c]
           /\ Total(base, D) \in Nat /\ Total(base, D) <= capped
<1>1. sum \in Nat
  BY TotalIsNatural
<1>2. ASSUME NEW c \in D
      PROVE  base[c] \in Nat /\ base[c] <= gap[c] /\ sum * base[c] <= capped * gap[c]
  <2>1. PICK k : k = capped * gap[c]
    OBVIOUS
  <2>2. k \in Nat
    BY <2>1
  <2>3. PICK q : q = k \div sum
    OBVIOUS
  <2>4. q \in Nat /\ sum * q <= k
    BY <1>1, <2>2, <2>3
  <2>5. base[c] \in Nat /\ base[c] <= gap[c] /\ base[c] <= q
    BY <2>1, <2>3, <2>4 DEF Cohort!Lower
  <2>6. \A x \in Nat, y, z \in Nat : y <= z => x * y <= x * z
    OBVIOUS
  <2>7. sum * base[c] <= sum * q
    BY <1>1, <2>4, <2>5, <2>6
  <2>8. sum * base[c] \in Int /\ sum * q \in Int
    BY <1>1, <2>4, <2>5
  <2> QED BY <2>1, <2>2, <2>4, <2>5, <2>7, <2>8
<1>3. Total(base, D) \in Nat
  BY <1>2, TotalIsNatural
<1>4. PICK scaled : scaled = [c \in D |-> sum * base[c]]
  OBVIOUS
<1>5. PICK prod : prod = [c \in D |-> capped * gap[c]]
  OBVIOUS
<1>6. \A c \in D : scaled[c] \in Int /\ prod[c] \in Int /\ scaled[c] <= prod[c]
  BY <1>1, <1>2, <1>4, <1>5
<1>7. Total(scaled, D) = sum * Total(base, D)
  BY <1>1, <1>2, <1>4, TotalOfMultiple
<1>8. Total(prod, D) = capped * sum
  BY <1>5, TotalOfMultiple
<1>9. sum * Total(base, D) <= capped * sum
  BY <1>6, <1>7, <1>8, TotalsCompare
<1>10. Total(base, D) <= capped
  <2>1. PICK b : b = Total(base, D)
    OBVIOUS
  <2>2. \A s, x, y \in Nat : s > 0 /\ y + 1 <= x => s * x > y * s
    OBVIOUS
  <2>3. b \in Nat /\ sum * b <= capped * sum /\ sum * b \in Nat /\ capped * sum \in Nat
    BY <1>1, <1>3, <1>9, <2>1
  <2>4. ~(capped + 1 <= b)
    BY <1>1, <2>2, <2>3
  <2> QED BY <2>1, <2>3, <2>4
<1> QED BY <1>2, <1>3, <1>10

\* A match spends what is offered, up to what is missing, and gives no campaign more
\* than it lacks (allocateGap).
LEMMA AllocationIsExact ==
    ASSUME NEW D \in SUBSET Nat, IsFiniteSet(D), NEW gap \in [D -> Nat], NEW total \in Nat,
           NEW share, share = Cohort!AllocateGap(gap, total)
    PROVE  /\ share \in [D -> Nat]
           /\ \A c \in D : share[c] <= gap[c]
           /\ Total(share, D) = Cohort!Lower(total, Total(gap, D))
<1>1. PICK sum : sum = Total(gap, D)
  OBVIOUS
<1>2. sum \in Nat /\ \A c \in D : gap[c] \in Nat
  BY <1>1, TotalIsNatural
<1>3. PICK capped : capped = Cohort!Lower(total, sum)
  OBVIOUS
<1>4. capped \in Nat /\ capped <= sum
  BY <1>2, <1>3 DEF Cohort!Lower
<1>5. PICK base : base = [c \in D |-> Cohort!Lower(gap[c], (capped * gap[c]) \div sum)]
  OBVIOUS
<1>6. share = IF sum = 0 \/ total = 0 THEN [c \in D |-> 0]
              ELSE Cohort!RestToFirst(base, gap, capped - Total(base, D))
  BY <1>1, <1>3, <1>5, CohortSums DEF Cohort!AllocateGap
<1>7. CASE sum = 0 \/ total = 0
  <2>1. share = [c \in D |-> 0]
    BY <1>6, <1>7
  <2>2. Total(share, D) = 0
    <3>1. \A c \in D : share[c] = 0
      BY <2>1
    <3> QED BY <3>1, TotalOfZeros
  <2>3. capped = 0
    BY <1>2, <1>3, <1>7 DEF Cohort!Lower
  <2> QED BY <1>1, <1>2, <1>3, <2>1, <2>2, <2>3
<1>8. CASE ~(sum = 0 \/ total = 0)
  <2>1. PICK rest : rest = capped - Total(base, D)
    OBVIOUS
  <2>2. /\ \A c \in D : base[c] \in Nat /\ base[c] <= gap[c]
        /\ Total(base, D) \in Nat /\ rest \in Nat
    <3>1. \A c \in D : base[c] = Cohort!Lower(gap[c], (capped * gap[c]) \div sum)
      BY <1>5
    <3>2. sum > 0
      BY <1>2, <1>8
    <3>3. /\ \A c \in D : base[c] \in Nat /\ base[c] <= gap[c]
          /\ Total(base, D) \in Nat /\ Total(base, D) <= capped
      BY <1>1, <1>4, <3>1, <3>2, SharesAreWithin
    <3> QED BY <1>4, <2>1, <3>3
  <2>3. PICK room : room = [c \in D |-> gap[c] - base[c]]
    OBVIOUS
  <2>4. room \in [D -> Nat] /\ \A c \in D : gap[c] = base[c] + room[c]
    BY <1>2, <2>2, <2>3
  <2>5. PICK add : add = [c \in D |->
            LET left == rest - Total(room, {b \in D : b < c})
            IN  IF left <= 0 THEN 0 ELSE Cohort!Lower(room[c], left)]
    OBVIOUS
  <2>6. /\ \A c \in D : add[c] \in Nat /\ add[c] <= room[c]
        /\ Total(add, D) = Cohort!Lower(rest, Total(room, D))
    <3>1. \A c \in D : LET left == rest - Total(room, {b \in D : b < c})
                       IN  add[c] = IF left <= 0 THEN 0 ELSE Cohort!Lower(room[c], left)
      BY <2>5
    <3> QED BY <2>2, <2>4, <3>1, RestIsSpent
  <2>7. share = [c \in D |-> base[c] + add[c]]
    <3>1. share = Cohort!RestToFirst(base, gap, rest) /\ DOMAIN base = D
      BY <1>5, <1>6, <1>8, <2>1
    <3>2. \A c \in D : {b \in DOMAIN base : b < c} = {b \in D : b < c}
      BY <3>1
    <3>3. room = [b \in DOMAIN base |-> gap[b] - base[b]]
      BY <2>3, <3>1
    <3> QED BY <2>5, <3>1, <3>2, <3>3, CohortSums DEF Cohort!RestToFirst
  <2>8. share \in [D -> Nat] /\ \A c \in D : share[c] <= gap[c]
    BY <1>2, <2>2, <2>4, <2>6, <2>7
  <2>9. Total(share, D) = Total(base, D) + Total(add, D)
    <3>1. AddedUp(share, base, add, D)
      BY <2>2, <2>6, <2>7 DEF AddedUp
    <3> QED BY <3>1, TotalOfPairs
  <2>10. sum = Total(base, D) + Total(room, D) /\ Total(room, D) \in Nat
    <3>1. AddedUp(gap, base, room, D)
      BY <2>2, <2>4 DEF AddedUp
    <3>2. Total(gap, D) = Total(base, D) + Total(room, D)
      BY <3>1, TotalOfPairs
    <3>3. \A c \in D : room[c] \in Nat
      BY <2>4
    <3> QED BY <1>1, <3>2, <3>3, TotalIsNatural
  <2>11. Total(share, D) = capped
    BY <1>4, <2>1, <2>2, <2>6, <2>9, <2>10 DEF Cohort!Lower
  <2> QED BY <1>1, <1>3, <2>8, <2>11
<1> QED BY <1>7, <1>8

\* What a request of the cohort has read and not yet written.
MemberRequest(t) ==
    /\ DOMAIN t = {"step", "user", "role"} /\ t.step \in {"join", "role"}
    /\ t.user \in CohortUser /\ t.role \in Cohort!Roles
LeaveRequest(t) == DOMAIN t = {"step", "user"} /\ t.step = "delete"
MatchRequest(t) ==
    /\ DOMAIN t = {"step", "total", "gap", "share", "todo"} /\ t.step = "sponsor"
    /\ DOMAIN t.gap \subseteq CohortCampaign /\ t.todo \subseteq DOMAIN t.gap
    /\ \A c \in DOMAIN t.gap : t.share[c] \in Nat /\ t.share[c] <= t.gap[c]
    /\ Total(t.share, DOMAIN t.gap) = Cohort!Lower(t.total, Total(t.gap, DOMAIN t.gap))
CohortRequest(t) == t = Cohort!Idle \/ MemberRequest(t) \/ LeaveRequest(t) \/ MatchRequest(t)

CohortInv ==
    /\ Cohort!TypeOK
    /\ DOMAIN cohortTask = Hand /\ \A h \in Hand : CohortRequest(cohortTask[h])
    /\ cohortInvites = <<>> /\ cohortVote = Cohort!NoVote

\* The stages are told apart by their names.
LEMMA CohortStages ==
    \A t : /\ CohortRequest(t) /\ t.step \in {"join", "role"} => MemberRequest(t)
           /\ CohortRequest(t) /\ t.step = "delete" => LeaveRequest(t)
           /\ CohortRequest(t) /\ t.step = "sponsor" => MatchRequest(t)
           /\ CohortRequest(t) => t.step \in {"idle", "join", "role", "delete", "sponsor"}
BY DEF CohortRequest, MemberRequest, LeaveRequest, MatchRequest, Cohort!Idle

\* A request of the cohort goes on, or ends.
LEMMA CohortGoesOn ==
    ASSUME CohortInv, NEW h \in Hand, NEW t, CohortRequest(t), Cohort!Continue(h, t)
    PROVE  /\ DOMAIN cohortTask' = Hand
           /\ \A g \in Hand : CohortRequest(cohortTask'[g])
           /\ \A g \in Hand : cohortTask'[g].step \in
                {"idle", "join", "delete", "role", "ballot", "close", "sponsor"}
<1>1. cohortTask' = [cohortTask EXCEPT ![h] = t] /\ DOMAIN cohortTask = Hand
  BY DEF Cohort!Continue, CohortInv
<1>2. \A g \in Hand : CohortRequest(cohortTask'[g])
  BY <1>1 DEF CohortInv
<1> QED BY <1>1, <1>2, CohortStages

\* Members of the cohort come, go and change roles.
LEMMA CohortMembersStep ==
    ASSUME CohortInv, NEW h \in Hand, Cohort!MemberStep(h)
    PROVE  CohortInv'
<1>1. UNCHANGED <<cohortMode, cohortLinked, cohortRaised, cohortContributions, cohortVote>>
  BY DEF Cohort!MemberStep, Cohort!CreateInvite, Cohort!Join, Cohort!CreateMember, Cohort!Leave,
         Cohort!DeleteMember, Cohort!SetRole, Cohort!StoreRole, Cohort!Money, Cohort!Talk
<1>2. cohortInvites' = <<>>
  BY DEF Cohort!MemberStep, Cohort!CreateInvite, Cohort!Join, Cohort!CreateMember, Cohort!Leave,
         Cohort!DeleteMember, Cohort!SetRole, Cohort!StoreRole, CohortInv
<1>3. /\ DOMAIN cohortMembers \subseteq CohortUser
      /\ cohortMembers \in [DOMAIN cohortMembers -> Cohort!Roles] /\ cohortVisits \in Nat
  BY DEF CohortInv, Cohort!TypeOK, Cohort!Members
<1>4. /\ DOMAIN cohortMembers' \subseteq CohortUser
      /\ cohortMembers' \in [DOMAIN cohortMembers' -> Cohort!Roles] /\ cohortVisits' \in Nat
      /\ \E t : CohortRequest(t) /\ Cohort!Continue(h, t)
  <2>1. CASE Cohort!CreateMember(h) \/ Cohort!StoreRole(h)
    <3>1. PICK u, role : u = cohortTask[h].user /\ role = cohortTask[h].role
      OBVIOUS
    <3>2. u \in CohortUser /\ role \in Cohort!Roles
      BY <2>1, <3>1, CohortStages
      DEF CohortInv, Cohort!CreateMember, Cohort!StoreRole, MemberRequest
    <3>3. cohortMembers' \in {cohortMembers, Cohort!With(cohortMembers, u, role)}
      BY <2>1, <3>1 DEF Cohort!CreateMember, Cohort!StoreRole
    <3>4. cohortVisits' = cohortVisits + 1 /\ Cohort!Continue(h, Cohort!Idle)
      BY <2>1 DEF Cohort!CreateMember, Cohort!StoreRole
    <3>5. /\ DOMAIN cohortMembers' \subseteq CohortUser
          /\ cohortMembers' \in [DOMAIN cohortMembers' -> Cohort!Roles]
      BY <1>3, <3>2, <3>3 DEF Cohort!With
    <3> QED BY <1>3, <3>4, <3>5 DEF CohortRequest
  <2>2. CASE Cohort!DeleteMember(h)
    <3>1. PICK u : u = cohortTask[h].user
      OBVIOUS
    <3>2. /\ cohortMembers' = Cohort!Without(cohortMembers, u)
          /\ cohortVisits' = cohortVisits /\ Cohort!Continue(h, Cohort!Idle)
      BY <2>2, <3>1 DEF Cohort!DeleteMember
    <3> QED BY <1>3, <3>2 DEF Cohort!Without, CohortRequest
  <2>3. ASSUME NEW u \in CohortUser, Cohort!Leave(h, u)
        PROVE  \E t : CohortRequest(t) /\ Cohort!Continue(h, t)
    <3>1. Cohort!Continue(h, [step |-> "delete", user |-> u])
      BY <2>3 DEF Cohort!Leave
    <3> QED BY <3>1 DEF CohortRequest, LeaveRequest
  <2>4. ASSUME NEW actor \in CohortUser, NEW u \in CohortUser, NEW role \in Cohort!Roles,
               Cohort!SetRole(h, actor, u, role)
        PROVE  \E t : CohortRequest(t) /\ Cohort!Continue(h, t)
    <3>1. Cohort!Continue(h, [step |-> "role", user |-> u, role |-> role])
      BY <2>4 DEF Cohort!SetRole
    <3> QED BY <3>1 DEF CohortRequest, MemberRequest
  <2>5. \/ Cohort!CreateMember(h) \/ Cohort!StoreRole(h) \/ Cohort!DeleteMember(h)
        \/ \E u \in CohortUser : Cohort!Leave(h, u)
        \/ \E actor, u \in CohortUser, role \in Cohort!Roles : Cohort!SetRole(h, actor, u, role)
    BY DEF Cohort!MemberStep
  <2>6. ASSUME \/ \E u \in CohortUser : Cohort!Leave(h, u)
               \/ \E actor, u \in CohortUser, role \in Cohort!Roles :
                     Cohort!SetRole(h, actor, u, role)
        PROVE  UNCHANGED <<cohortMembers, cohortVisits>>
    BY <2>6 DEF Cohort!Leave, Cohort!SetRole
  <2> QED BY <1>3, <2>1, <2>2, <2>3, <2>4, <2>5, <2>6
<1> QED BY <1>1, <1>2, <1>4, CohortGoesOn DEF CohortInv, Cohort!TypeOK, Cohort!Members

\* Campaigns of the cohort are matched, one after the other, by the split that was made.
LEMMA CohortMoneyStep ==
    ASSUME CohortInv, NEW h \in Hand, Cohort!MoneyStep(h)
    PROVE  CohortInv'
<1>1. UNCHANGED <<cohortMode, cohortMembers, cohortInvites, cohortVote, cohortVisits>>
  BY DEF Cohort!MoneyStep, Cohort!AddCampaign, Cohort!MatchCohort, Cohort!SponsorNext,
         Cohort!Contribute, Cohort!Talk
<1>2. cohortLinked' \subseteq CohortCampaign /\ cohortContributions' \subseteq DOMAIN CohortDonation
  BY DEF Cohort!MoneyStep, Cohort!AddCampaign, Cohort!MatchCohort, Cohort!SponsorNext,
         Cohort!Contribute, Cohort!Money, CohortInv, Cohort!TypeOK
<1>3. cohortRaised \in [CohortCampaign -> Nat]
  BY DEF CohortInv, Cohort!TypeOK
<1>4. ASSUME NEW u \in CohortUser, NEW total \in CohortTotals, Cohort!MatchCohort(h, u, total)
      PROVE  cohortRaised' = cohortRaised /\ \E t : CohortRequest(t) /\ Cohort!Continue(h, t)
  <2>1. PICK live : live = Cohort!Live
    OBVIOUS
  <2>2. PICK gap : gap = [c \in live |-> Cohort!GapOf(c)]
    OBVIOUS
  <2>3. PICK share : share = Cohort!AllocateGap(gap, total)
    OBVIOUS
  <2>4. PICK t : t = [step |-> "sponsor", total |-> total, gap |-> gap, share |-> share,
                      todo |-> live]
    OBVIOUS
  <2>5. Cohort!Continue(h, t) /\ cohortRaised' = cohortRaised
    BY <1>4, <2>1, <2>2, <2>3, <2>4 DEF Cohort!MatchCohort, Cohort!Money
  <2>6. live \subseteq CohortCampaign /\ live \in SUBSET Nat /\ IsFiniteSet(live)
    BY <2>1, GroupConstants, FS_Subset DEF Cohort!Live, CohortInv, Cohort!TypeOK
  <2>7. gap \in [live -> Nat] /\ total \in Nat
    BY <1>3, <2>2, <2>6, GroupConstants DEF Cohort!GapOf
  <2>8. /\ share \in [live -> Nat] /\ \A c \in live : share[c] <= gap[c]
        /\ Total(share, live) = Cohort!Lower(total, Total(gap, live))
    BY <2>3, <2>6, <2>7, AllocationIsExact
  <2>9. MatchRequest(t)
    BY <2>4, <2>6, <2>7, <2>8 DEF MatchRequest
  <2> QED BY <2>5, <2>9 DEF CohortRequest
<1>5. ASSUME Cohort!SponsorNext(h)
      PROVE  /\ cohortRaised' \in [CohortCampaign -> Nat]
             /\ \E t : CohortRequest(t) /\ Cohort!Continue(h, t)
  <2>1. PICK q : q = cohortTask[h]
    OBVIOUS
  <2>2. MatchRequest(q)
    BY <1>5, <2>1, CohortStages DEF CohortInv, Cohort!SponsorNext
  <2>3. PICK c \in q.todo :
          \/ /\ cohortRaised' = [cohortRaised EXCEPT
                                    ![c] = @ + Cohort!Lower(q.share[c], Cohort!GapOf(c))]
             /\ Cohort!Continue(h, IF q.todo = {c} THEN Cohort!Idle
                                   ELSE [q EXCEPT !.todo = @ \ {c}])
          \/ Cohort!Continue(h, Cohort!Idle) /\ UNCHANGED cohortRaised
    BY <1>5, <2>1 DEF Cohort!SponsorNext
  <2>4. c \in CohortCampaign /\ q.share[c] \in Nat
    BY <2>2 DEF MatchRequest
  <2>5. Cohort!Lower(q.share[c], Cohort!GapOf(c)) \in Nat
    BY <1>3, <2>4, GroupConstants DEF Cohort!Lower, Cohort!GapOf
  <2>6. cohortRaised' \in [CohortCampaign -> Nat]
    BY <1>3, <2>3, <2>4, <2>5
  <2>7. MatchRequest([q EXCEPT !.todo = @ \ {c}])
    BY <2>2 DEF MatchRequest
  <2> QED BY <2>3, <2>6, <2>7 DEF CohortRequest
<1>6. ASSUME \/ \E u \in CohortUser, c \in CohortCampaign : Cohort!AddCampaign(h, u, c)
             \/ \E u \in CohortUser, d \in DOMAIN CohortDonation : Cohort!Contribute(h, u, d)
      PROVE  UNCHANGED <<cohortRaised, cohortTask>>
  BY <1>6 DEF Cohort!AddCampaign, Cohort!Contribute
<1>7. /\ cohortRaised' \in [CohortCampaign -> Nat]
      /\ UNCHANGED cohortTask \/ \E t : CohortRequest(t) /\ Cohort!Continue(h, t)
  BY <1>3, <1>4, <1>5, <1>6 DEF Cohort!MoneyStep
<1>8. CASE UNCHANGED cohortTask
  BY <1>1, <1>2, <1>7, <1>8 DEF CohortInv, Cohort!TypeOK, Cohort!Members
<1>9. CASE \E t : CohortRequest(t) /\ Cohort!Continue(h, t)
  BY <1>1, <1>2, <1>7, <1>9, CohortGoesOn DEF CohortInv, Cohort!TypeOK, Cohort!Members
<1> QED BY <1>7, <1>8, <1>9

\* The steps of the cohort keep what its matches promised.
LEMMA CohortKeepsInv ==
    ASSUME CohortInv, [Cohort!Next]_(Cohort!vars)
    PROVE  CohortInv'
<1>1. CASE UNCHANGED Cohort!vars
  BY <1>1 DEF Cohort!vars, CohortInv, Cohort!TypeOK, Cohort!Members
<1>2. ASSUME NEW h \in Hand, Cohort!VoteStep(h) PROVE CohortInv'
  <2>1. cohortTask[h].step \notin {"ballot", "close"} /\ cohortVote.status = "NONE"
    BY CohortStages DEF CohortInv, Cohort!NoVote
  <2>2. \E u \in CohortUser, text \in CohortText : Cohort!PostMessage(h, u, text)
    BY <1>2, <2>1
    DEF Cohort!VoteStep, Cohort!OpenVote, Cohort!StoreBallot, Cohort!CloseVote,
        Cohort!StoreClosed
  <2> QED BY <2>2 DEF Cohort!PostMessage, Cohort!Money, CohortInv, Cohort!TypeOK, Cohort!Members
<1>3. ASSUME NEW c \in CohortCampaign, Cohort!OthersGive(c) PROVE CohortInv'
  BY <1>3 DEF Cohort!OthersGive, Cohort!Talk, CohortInv, Cohort!TypeOK, Cohort!Members
<1> QED BY <1>1, <1>2, <1>3, CohortMembersStep, CohortMoneyStep DEF Cohort!Next

\* Somebody else than u is an administrator.
AnotherAdmin(members, u) == \E a \in DOMAIN members : a # u /\ members[a] = "ADMIN"

\* What a request of the circle has checked, which is true of members and of the vote.
JoinIsGood(t) ==
    /\ DOMAIN t = {"step", "user", "role"} /\ t.step = "join"
    /\ t.user \in CircleUser /\ t.role \in Circle!Roles
LeaveIsGood(t, members) ==
    /\ DOMAIN t = {"step", "user"} /\ t.step = "delete"
    /\ AnotherAdmin(members, t.user)
RoleIsGood(t, members) ==
    /\ DOMAIN t = {"step", "user", "role"} /\ t.step = "role"
    /\ t.user \in CircleUser /\ t.role \in Circle!Roles
    /\ t.role # "ADMIN" => AnotherAdmin(members, t.user)
BallotIsGood(t, v) ==
    /\ DOMAIN t = {"step", "user", "option"} /\ t.step = "ballot"
    /\ t.user \in CircleUser /\ t.option \in CircleOption /\ v.status = "OPEN"
CloseIsGood(t, v) ==
    /\ DOMAIN t = {"step", "winner"} /\ t.step = "close"
    /\ v.status # "NONE" /\ t.winner = Circle!Winner(v.ballots)
CircleRequest(t, members, v) ==
    \/ t = Circle!Idle
    \/ JoinIsGood(t)
    \/ LeaveIsGood(t, members)
    \/ RoleIsGood(t, members)
    \/ BallotIsGood(t, v)
    \/ CloseIsGood(t, v)

\* Members and ballots: one administrator at least, and what was announced stands.
MembersFit(members) ==
    /\ DOMAIN members \subseteq CircleUser /\ members \in [DOMAIN members -> Circle!Roles]
    /\ \E a \in DOMAIN members : members[a] = "ADMIN"
VoteFits(v) ==
    /\ v = [status |-> v.status, ballots |-> v.ballots, winner |-> v.winner]
    /\ v.status \in {"NONE", "OPEN", "CLOSED"} /\ IsFiniteSet(DOMAIN v.ballots)
    /\ DOMAIN v.ballots \subseteq CircleUser
    /\ \A u \in DOMAIN v.ballots : v.ballots[u] \in CircleOption
    /\ v.winner \in CircleOption \cup {0}
    /\ v.status = "CLOSED" => v.winner = Circle!Winner(v.ballots)

CircleInv ==
    /\ circleMode \in Circle!Modes
    /\ MembersFit(circleMembers) /\ VoteFits(circleVote)
    /\ DOMAIN circleInvites \subseteq CircleInvite
    /\ circleInvites \in [DOMAIN circleInvites -> Circle!Roles]
    /\ circleLinked = {} /\ circleRaised \in [{} -> Nat] /\ circleContributions = {}
    /\ DOMAIN circleTask = {1}
    /\ CircleRequest(circleTask[1], circleMembers, circleVote)
    /\ circleVisits \in Nat

\* The stages are told apart by their names.
LEMMA CircleStages ==
    \A t, m, v :
        CircleRequest(t, m, v) =>
            /\ t.step \in {"idle", "join", "delete", "role", "ballot", "close"}
            /\ t.step = "join" => JoinIsGood(t)
            /\ t.step = "delete" => LeaveIsGood(t, m)
            /\ t.step = "role" => RoleIsGood(t, m)
            /\ t.step = "ballot" => BallotIsGood(t, v)
            /\ t.step = "close" => CloseIsGood(t, v)
BY DEF CircleRequest, JoinIsGood, LeaveIsGood, RoleIsGood, BallotIsGood, CloseIsGood,
       Circle!Idle

\* The only request of the circle goes on, or ends.
LEMMA CircleGoesOn ==
    ASSUME CircleInv, NEW t, Circle!Continue(1, t)
    PROVE  DOMAIN circleTask' = {1} /\ circleTask'[1] = t
BY DEF Circle!Continue, CircleInv

\* A vote with ballots has a winner: of the options with the most, the first.
LEMMA ThereIsAWinner ==
    ASSUME NEW v, VoteFits(v)
    PROVE  Circle!Winner(v.ballots) \in CircleOption \cup {0}
<1> DEFINE b == v.ballots
           N(o) == Cardinality({u \in DOMAIN b : b[u] = o})
<1>1. CASE DOMAIN b = {}
  BY <1>1 DEF Circle!Winner
<1>2. CASE DOMAIN b # {}
  <2>1. PICK u \in DOMAIN b : b[u] \in CircleOption
    BY <1>2 DEF VoteFits
  <2>2. \A o : N(o) \in Nat /\ Circle!Count(o, b) = N(o)
    <3> SUFFICES ASSUME NEW o PROVE N(o) \in Nat /\ Circle!Count(o, b) = N(o)
      OBVIOUS
    <3>1. IsFiniteSet({w \in DOMAIN b : b[w] = o})
      BY FS_Subset DEF VoteFits
    <3>2. N(o) \in Nat
      BY <3>1, FS_CardinalityType
    <3> QED BY <3>2 DEF Circle!Count, Circle!Cardinality, Cardinality
  <2>3. PICK all : all = Cardinality(DOMAIN b)
    OBVIOUS
  <2>4. all \in Nat /\ \A o : N(o) <= all
    <3>1. \A o : Cardinality({w \in DOMAIN b : b[w] = o}) <= Cardinality(DOMAIN b)
      BY FS_Subset DEF VoteFits
    <3> QED BY <2>3, <3>1, FS_CardinalityType DEF VoteFits
  <2> HIDE DEF N
  <2>5. PICK m \in CircleOption : \A p \in CircleOption : N(p) <= N(m)
    <3> DEFINE T == {all - N(o) : o \in CircleOption}
    <3>1. T \in SUBSET Nat /\ T # {}
      BY <2>1, <2>2, <2>4
    <3>2. PICK n \in T : \A k \in T : n <= k
      BY <3>1, LeastNatural
    <3>3. PICK m \in CircleOption : n = all - N(m)
      BY <3>2
    <3>4. \A p \in CircleOption : all - N(m) <= all - N(p)
      BY <3>2, <3>3
    <3>5. \A p \in CircleOption : N(p) <= N(m)
      BY <2>2, <2>4, <3>4
    <3> QED BY <3>5
  <2>6. PICK o \in {p \in CircleOption : N(p) = N(m)} :
            \A p \in {q \in CircleOption : N(q) = N(m)} : o <= p
    <3>1. {p \in CircleOption : N(p) = N(m)} \in SUBSET Nat
      BY GroupConstants
    <3>2. {p \in CircleOption : N(p) = N(m)} # {}
      OBVIOUS
    <3> QED BY <3>1, <3>2, LeastNatural
  <2>7. \A p \in CircleOption : N(o) > N(p) \/ (N(o) = N(p) /\ o <= p)
    BY <2>2, <2>5, <2>6
  <2>8. \E w \in CircleOption : \A p \in CircleOption :
            \/ Circle!Count(w, b) > Circle!Count(p, b)
            \/ Circle!Count(w, b) = Circle!Count(p, b) /\ w <= p
    BY <2>2, <2>6, <2>7
  <2> QED BY <1>2, <2>8 DEF Circle!Winner
<1> QED BY <1>1, <1>2

\* Whoever may go is not the last administrator.
LEMMA NotTheLast ==
    ASSUME MembersFit(circleMembers), NEW u, ~Circle!IsLastAdmin(u)
    PROVE  AnotherAdmin(circleMembers, u)
<1> SUFFICES ASSUME ~AnotherAdmin(circleMembers, u) PROVE FALSE
  OBVIOUS
<1>1. PICK admins : admins = Circle!Admins
  OBVIOUS
<1>2. \A a \in DOMAIN circleMembers : circleMembers[a] = "ADMIN" => a = u
  BY DEF AnotherAdmin
<1>3. circleMembers[u] = "ADMIN"
  BY <1>2 DEF MembersFit
<1>4. admins \subseteq {u}
  BY <1>1, <1>2 DEF Circle!Admins, Circle!Members
<1>5. Cardinality(admins) <= 1
  <2>1. IsFiniteSet({u}) /\ Cardinality({u}) = 1
    BY FS_Singleton
  <2> QED BY <1>4, <2>1, FS_Subset
<1>6. Circle!Cardinality(admins) <= 1
  BY <1>5 DEF Circle!Cardinality, Cardinality
<1> QED BY <1>1, <1>3, <1>6 DEF Circle!IsLastAdmin

\* A member more, or with another role, leaves an administrator if there is another.
LEMMA AdminStays ==
    ASSUME NEW members, MembersFit(members), NEW u \in CircleUser, NEW role \in Circle!Roles,
           \/ u \notin DOMAIN members
           \/ role = "ADMIN"
           \/ AnotherAdmin(members, u)
    PROVE  MembersFit(Circle!With(members, u, role))
<1>1. PICK more : more = Circle!With(members, u, role)
  OBVIOUS
<1>2. /\ DOMAIN more = DOMAIN members \cup {u} /\ more[u] = role
      /\ \A a \in DOMAIN members \ {u} : more[a] = members[a]
      /\ more = [k \in DOMAIN members \cup {u} |-> IF k = u THEN role ELSE members[k]]
  BY <1>1 DEF Circle!With
<1>3. \E a \in DOMAIN more : more[a] = "ADMIN"
  <2>1. PICK a \in DOMAIN members : members[a] = "ADMIN"
    BY DEF MembersFit
  <2>2. CASE role = "ADMIN"
    BY <1>2, <2>2
  <2>3. CASE u \notin DOMAIN members
    BY <1>2, <2>1, <2>3
  <2>4. CASE AnotherAdmin(members, u)
    BY <1>2, <2>4 DEF AnotherAdmin
  <2> QED BY <2>2, <2>3, <2>4
<1>4. DOMAIN more \subseteq CircleUser /\ more \in [DOMAIN more -> Circle!Roles]
  BY <1>2 DEF MembersFit
<1> QED BY <1>1, <1>3, <1>4 DEF MembersFit

\* Members of the circle come, go and change roles; the vote stays.
LEMMA CircleMembersStep ==
    ASSUME CircleInv, Circle!MemberStep(1)
    PROVE  CircleInv'
<1>1. UNCHANGED <<circleMode, circleLinked, circleRaised, circleContributions, circleVote>>
  BY DEF Circle!MemberStep, Circle!CreateInvite, Circle!Join, Circle!CreateMember, Circle!Leave,
         Circle!DeleteMember, Circle!SetRole, Circle!StoreRole, Circle!Money, Circle!Talk
<1>q. PICK q : q = circleTask[1]
  OBVIOUS
<1>2. /\ CircleRequest(q, circleMembers, circleVote) /\ MembersFit(circleMembers)
      /\ circleVisits \in Nat
      /\ DOMAIN circleInvites \subseteq CircleInvite
      /\ circleInvites \in [DOMAIN circleInvites -> Circle!Roles]
  BY <1>q DEF CircleInv
<1>3. ASSUME NEW u \in CircleUser, NEW i \in CircleInvite, NEW role \in Circle!Roles,
             Circle!CreateInvite(1, u, i, role)
      PROVE  CircleInv'
  <2>1. /\ circleInvites' = Circle!With(circleInvites, i, role)
        /\ UNCHANGED <<circleMembers, circleTask, circleVisits>>
    BY <1>3 DEF Circle!CreateInvite
  <2>2. /\ DOMAIN circleInvites' \subseteq CircleInvite
        /\ circleInvites' \in [DOMAIN circleInvites' -> Circle!Roles]
    BY <1>2, <2>1 DEF Circle!With
  <2> QED BY <1>1, <2>1, <2>2 DEF CircleInv
<1>4. ASSUME NEW t, Circle!Continue(1, t),
             CircleRequest(t, circleMembers', circleVote), MembersFit(circleMembers'),
             circleVisits' \in Nat, circleInvites' = circleInvites
      PROVE  CircleInv'
  <2>1. DOMAIN circleTask' = {1} /\ circleTask'[1] = t
    BY <1>4, CircleGoesOn
  <2> QED BY <1>1, <1>4, <2>1 DEF CircleInv
<1>5. ASSUME NEW u \in CircleUser, NEW i \in CircleInvite, Circle!Join(1, u, i)
      PROVE  CircleInv'
  <2>1. PICK t : t = [step |-> "join", user |-> u, role |-> circleInvites[i]]
    OBVIOUS
  <2>2. /\ Circle!Continue(1, t) /\ i \in DOMAIN circleInvites
        /\ UNCHANGED <<circleMembers, circleInvites, circleVisits>>
    BY <1>5, <2>1 DEF Circle!Join
  <2>3. JoinIsGood(t)
    BY <1>2, <2>1, <2>2 DEF JoinIsGood
  <2> QED BY <1>2, <1>4, <2>2, <2>3 DEF CircleRequest
<1>6. CASE Circle!CreateMember(1)
  <2>1. /\ Circle!Continue(1, Circle!Idle) /\ q.step = "join"
        /\ circleMembers' = IF q.user \in DOMAIN circleMembers THEN circleMembers
                            ELSE Circle!With(circleMembers, q.user, q.role)
        /\ circleVisits' = circleVisits + 1 /\ circleInvites' = circleInvites
    BY <1>6, <1>q DEF Circle!CreateMember, Circle!Members
  <2>2. q.user \in CircleUser /\ q.role \in Circle!Roles
    BY <1>2, <2>1, CircleStages DEF JoinIsGood
  <2>3. MembersFit(circleMembers')
    BY <1>2, <2>1, <2>2, AdminStays
  <2> QED BY <1>2, <1>4, <2>1, <2>3 DEF CircleRequest
<1>7. ASSUME NEW u \in CircleUser, Circle!Leave(1, u) PROVE CircleInv'
  <2>1. PICK t : t = [step |-> "delete", user |-> u]
    OBVIOUS
  <2>2. /\ Circle!Continue(1, t) /\ ~Circle!IsLastAdmin(u)
        /\ UNCHANGED <<circleMembers, circleInvites, circleVisits>>
    BY <1>7, <2>1 DEF Circle!Leave
  <2>3. LeaveIsGood(t, circleMembers')
    BY <1>2, <2>1, <2>2, NotTheLast DEF LeaveIsGood
  <2> QED BY <1>2, <1>4, <2>2, <2>3 DEF CircleRequest
<1>8. CASE Circle!DeleteMember(1)
  <2>1. /\ Circle!Continue(1, Circle!Idle) /\ q.step = "delete"
        /\ circleMembers' = Circle!Without(circleMembers, q.user)
        /\ UNCHANGED <<circleInvites, circleVisits>>
    BY <1>8, <1>q DEF Circle!DeleteMember
  <2>2. AnotherAdmin(circleMembers, q.user)
    BY <1>2, <2>1, CircleStages DEF LeaveIsGood
  <2>3. MembersFit(circleMembers')
    BY <1>2, <2>1, <2>2 DEF MembersFit, AnotherAdmin, Circle!Without
  <2> QED BY <1>2, <1>4, <2>1, <2>3 DEF CircleRequest
<1>9. ASSUME NEW actor \in CircleUser, NEW u \in CircleUser, NEW role \in Circle!Roles,
             Circle!SetRole(1, actor, u, role)
      PROVE  CircleInv'
  <2>1. PICK t : t = [step |-> "role", user |-> u, role |-> role]
    OBVIOUS
  <2>2. /\ Circle!Continue(1, t) /\ (role # "ADMIN" => ~Circle!IsLastAdmin(u))
        /\ UNCHANGED <<circleMembers, circleInvites, circleVisits>>
    BY <1>9, <2>1 DEF Circle!SetRole
  <2>3. RoleIsGood(t, circleMembers')
    BY <1>2, <2>1, <2>2, NotTheLast DEF RoleIsGood
  <2> QED BY <1>2, <1>4, <2>2, <2>3 DEF CircleRequest
<1>10. CASE Circle!StoreRole(1)
  <2>1. /\ Circle!Continue(1, Circle!Idle) /\ q.step = "role"
        /\ circleMembers' = IF q.user \in DOMAIN circleMembers
                            THEN Circle!With(circleMembers, q.user, q.role) ELSE circleMembers
        /\ circleVisits' = circleVisits + 1 /\ circleInvites' = circleInvites
    BY <1>10, <1>q DEF Circle!StoreRole, Circle!Members
  <2>2. /\ q.user \in CircleUser /\ q.role \in Circle!Roles
        /\ q.role # "ADMIN" => AnotherAdmin(circleMembers, q.user)
    BY <1>2, <2>1, CircleStages DEF RoleIsGood
  <2>3. MembersFit(circleMembers')
    BY <1>2, <2>1, <2>2, AdminStays
  <2> QED BY <1>2, <1>4, <2>1, <2>3 DEF CircleRequest
<1> QED BY <1>3, <1>5, <1>6, <1>7, <1>8, <1>9, <1>10 DEF Circle!MemberStep

\* Ballots are cast while the vote is open; the winner that is stored is theirs.
LEMMA CircleVoteStep ==
    ASSUME CircleInv, Circle!VoteStep(1)
    PROVE  CircleInv'
<1>1. UNCHANGED <<circleMode, circleMembers, circleInvites, circleLinked, circleRaised,
                  circleContributions, circleVisits>>
  BY DEF Circle!VoteStep, Circle!OpenVote, Circle!CastBallot, Circle!StoreBallot,
         Circle!CloseVote, Circle!PostMessage, Circle!StoreClosed, Circle!Money, Circle!Talk
<1>q. PICK q : q = circleTask[1]
  OBVIOUS
<1>v. PICK v : v = circleVote
  OBVIOUS
<1>n. PICK new : new = circleVote'
  OBVIOUS
<1>2. CircleRequest(q, circleMembers, v) /\ VoteFits(v)
  BY <1>q, <1>v DEF CircleInv
<1>3. ASSUME NEW t, Circle!Continue(1, t), CircleRequest(t, circleMembers, new), VoteFits(new)
      PROVE  CircleInv'
  <2>1. DOMAIN circleTask' = {1} /\ circleTask'[1] = t
    BY <1>3, CircleGoesOn
  <2> QED BY <1>1, <1>3, <1>n, <2>1 DEF CircleInv
<1>4. ASSUME NEW u \in CircleUser, Circle!OpenVote(1, u) PROVE CircleInv'
  <2>1. /\ q = Circle!Idle /\ v.status = "NONE" /\ circleTask' = circleTask
        /\ new = [v EXCEPT !.status = "OPEN"]
    BY <1>4, <1>q, <1>v, <1>n DEF Circle!OpenVote
  <2>2. VoteFits(new)
    BY <1>2, <2>1 DEF VoteFits
  <2> QED BY <1>1, <1>q, <1>n, <2>1, <2>2 DEF CircleInv, CircleRequest
<1>5. ASSUME NEW u \in CircleUser, NEW o \in CircleOption, Circle!CastBallot(1, u, o)
      PROVE  CircleInv'
  <2>1. PICK t : t = [step |-> "ballot", user |-> u, option |-> o]
    OBVIOUS
  <2>2. Circle!Continue(1, t) /\ v.status = "OPEN" /\ new = v
    BY <1>5, <1>v, <1>n, <2>1 DEF Circle!CastBallot, Circle!TakesBallots, Circle!Talk
  <2>3. BallotIsGood(t, new)
    BY <2>1, <2>2 DEF BallotIsGood
  <2> QED BY <1>2, <1>3, <2>2, <2>3 DEF CircleRequest
<1>6. CASE Circle!StoreBallot(1)
  <2>1. /\ Circle!Continue(1, Circle!Idle) /\ q.step = "ballot"
        /\ new = IF q.user \in DOMAIN v.ballots THEN v
                 ELSE [v EXCEPT !.ballots = Circle!With(@, q.user, q.option)]
    BY <1>6, <1>q, <1>v, <1>n DEF Circle!StoreBallot
  <2>2. BallotIsGood(q, v)
    BY <1>2, <2>1, CircleStages
  <2>3. PICK b : b = Circle!With(v.ballots, q.user, q.option)
    OBVIOUS
  <2>4. /\ DOMAIN b = DOMAIN v.ballots \cup {q.user}
        /\ \A u \in DOMAIN b : b[u] = IF u = q.user THEN q.option ELSE v.ballots[u]
    BY <2>3 DEF Circle!With
  <2>5. IsFiniteSet(DOMAIN b)
    BY <1>2, <2>4, FS_AddElement DEF VoteFits
  <2>6. VoteFits(new)
    <3>1. CASE q.user \in DOMAIN v.ballots
      BY <1>2, <2>1, <3>1
    <3>2. CASE q.user \notin DOMAIN v.ballots
      <4>1. new = [status |-> v.status, ballots |-> b, winner |-> v.winner]
        BY <1>2, <2>1, <2>3, <3>2 DEF VoteFits
      <4>2. \A u \in DOMAIN b : u \in CircleUser /\ b[u] \in CircleOption
        BY <1>2, <2>2, <2>4 DEF VoteFits, BallotIsGood
      <4> QED BY <1>2, <2>2, <2>5, <4>1, <4>2 DEF VoteFits, BallotIsGood
    <3> QED BY <3>1, <3>2
  <2> QED BY <1>3, <2>1, <2>6 DEF CircleRequest
<1>7. ASSUME NEW u \in CircleUser, Circle!CloseVote(1, u) PROVE CircleInv'
  <2>1. PICK t : t = [step |-> "close", winner |-> Circle!Winner(v.ballots)]
    OBVIOUS
  <2>2. Circle!Continue(1, t) /\ v.status # "NONE" /\ new = v
    BY <1>7, <1>v, <1>n, <2>1 DEF Circle!CloseVote, Circle!Talk
  <2>3. CloseIsGood(t, new)
    BY <2>1, <2>2 DEF CloseIsGood
  <2> QED BY <1>2, <1>3, <2>2, <2>3 DEF CircleRequest
<1>8. CASE Circle!StoreClosed(1)
  <2>1. /\ Circle!Continue(1, Circle!Idle) /\ q.step = "close"
        /\ new = [v EXCEPT !.status = "CLOSED", !.winner = q.winner]
    BY <1>8, <1>q, <1>v, <1>n DEF Circle!StoreClosed
  <2>2. CloseIsGood(q, v)
    BY <1>2, <2>1, CircleStages
  <2>3. new = [status |-> "CLOSED", ballots |-> v.ballots, winner |-> q.winner]
    BY <1>2, <2>1 DEF VoteFits
  <2>4. q.winner = Circle!Winner(v.ballots) /\ q.winner \in CircleOption \cup {0}
    BY <1>2, <2>2, ThereIsAWinner DEF CloseIsGood
  <2>5. VoteFits(new)
    BY <1>2, <2>3, <2>4 DEF VoteFits
  <2> QED BY <1>3, <2>1, <2>5 DEF CircleRequest
<1> QED BY <1>4, <1>5, <1>6, <1>7, <1>8 DEF Circle!VoteStep

\* The steps of the circle keep what its request has checked.
LEMMA CircleKeepsInv ==
    ASSUME CircleInv, [Circle!Next]_(Circle!vars)
    PROVE  CircleInv'
<1>1. CASE UNCHANGED Circle!vars
  BY <1>1 DEF Circle!vars, CircleInv
<1>2. ASSUME Circle!MoneyStep(1) PROVE CircleInv'
  <2>1. circleTask[1].step # "sponsor" /\ Circle!Live = {}
    BY CircleStages DEF CircleInv, Circle!Live
  <2>2. FALSE
    BY <1>2, <2>1
    DEF Circle!MoneyStep, Circle!SponsorNext, Circle!MatchCohort, Circle!Contribute
  <2> QED BY <2>2
<1>3. ASSUME NEW i \in CircleInvite, Circle!InviteExpires(i) PROVE CircleInv'
  <2>1. /\ circleInvites' = Circle!Without(circleInvites, i)
        /\ UNCHANGED <<circleMode, circleMembers, circleLinked, circleRaised,
                       circleContributions, circleVote, circleTask, circleVisits>>
    BY <1>3 DEF Circle!InviteExpires, Circle!Money, Circle!Talk
  <2>2. /\ DOMAIN circleInvites' \subseteq CircleInvite
        /\ circleInvites' \in [DOMAIN circleInvites' -> Circle!Roles]
    BY <2>1 DEF CircleInv, Circle!Without
  <2> QED BY <2>1, <2>2 DEF CircleInv
<1> QED BY <1>1, <1>2, <1>3, CircleMembersStep, CircleVoteStep DEF Circle!Next

\* A circle whose requests run one at a time keeps an administrator, and the winner it
\* announced is that of the ballots it keeps; a match of a cohort spends what is offered
\* up to what is missing, and gives no campaign more than it lacks, whatever requests
\* overlap (leave, setRole, castBallot, closeVote, matchCohort).
THEOREM GroupsAlwaysKeepTheirRules == AllSpec => []GroupsKeepTheirRules
<1>1. AllInit => CircleInv
  <2> SUFFICES ASSUME Circle!Init PROVE CircleInv
    BY DEF AllInit
  <2>1. PICK u \in CircleUser : circleMode \in Circle!Modes
                                /\ circleMembers = [v \in {u} |-> "ADMIN"]
    BY DEF Circle!Init, Circle!Create
  <2>2. MembersFit(circleMembers)
    BY <2>1 DEF MembersFit, Circle!Roles
  <2>3. VoteFits(circleVote)
    <3>1. circleVote = [status |-> "NONE", ballots |-> <<>>, winner |-> 0]
      BY DEF Circle!Init, Circle!NoVote
    <3>2. DOMAIN circleVote.ballots = {}
      BY <3>1
    <3>3. IsFiniteSet(DOMAIN circleVote.ballots)
      BY <3>2, FS_EmptySet
    <3> QED BY <3>1, <3>2, <3>3 DEF VoteFits
  <2>4. DOMAIN circleInvites = {} /\ circleInvites \in [DOMAIN circleInvites -> Circle!Roles]
    BY DEF Circle!Init
  <2> QED BY <2>1, <2>2, <2>3, <2>4 DEF Circle!Init, CircleInv, CircleRequest
<1>2. CircleInv /\ [Circle!Next]_(Circle!vars) => CircleInv'
  BY CircleKeepsInv
<1>3. AllInit => CohortInv
  <2> SUFFICES ASSUME Cohort!Init PROVE CohortInv
    BY DEF AllInit
  <2>1. PICK u \in CohortUser : cohortMode \in Cohort!Modes
                                /\ cohortMembers = [v \in {u} |-> "ADMIN"]
    BY DEF Cohort!Init, Cohort!Create
  <2>2. /\ DOMAIN cohortMembers \subseteq CohortUser
        /\ cohortMembers \in [DOMAIN cohortMembers -> Cohort!Roles]
    BY <2>1 DEF Cohort!Roles
  <2>3. cohortInvites = <<>> /\ DOMAIN cohortInvites = {}
        /\ cohortInvites \in [DOMAIN cohortInvites -> Cohort!Roles]
    BY DEF Cohort!Init
  <2>4. \A h \in Hand : cohortTask[h].step = "idle"
    BY DEF Cohort!Init, Cohort!Idle
  <2>5. Cohort!TypeOK
    BY <2>1, <2>2, <2>3, <2>4 DEF Cohort!Init, Cohort!TypeOK, Cohort!Members, Cohort!NoVote
  <2> QED BY <2>3, <2>5 DEF Cohort!Init, CohortInv, CohortRequest
<1>4. CohortInv /\ [Cohort!Next]_(Cohort!vars) => CohortInv'
  BY CohortKeepsInv
<1>5. CircleInv /\ CohortInv => GroupsKeepTheirRules
  <2> SUFFICES ASSUME CircleInv, CohortInv PROVE GroupsKeepTheirRules
    OBVIOUS
  <2>1. Circle!TypeOK
    <3>1. \A h \in {1} : circleTask[h].step \in
              {"idle", "join", "delete", "role", "ballot", "close", "sponsor"}
      BY CircleStages DEF CircleInv
    <3> QED BY <3>1 DEF CircleInv, MembersFit, VoteFits, Circle!TypeOK, Circle!Members
  <2>2. Circle!HasAdmin /\ Circle!WinnerStands
    BY DEF CircleInv, MembersFit, VoteFits, Circle!HasAdmin, Circle!Admins, Circle!Members,
           Circle!WinnerStands
  <2>3. Cohort!MatchIsExact
    BY CohortSums, CohortStages DEF CohortInv, MatchRequest, Cohort!MatchIsExact
  <2> QED BY <2>1, <2>2, <2>3 DEF CohortInv, GroupsKeepTheirRules
<1> QED BY <1>1, <1>2, <1>3, <1>4, <1>5, GroupSteps, PTL DEF AllSpec
-----------------------------------------------------------------------------
(* ImpactFeed, the milestones: what is raised, or was when a request read  *)
(* it, is told, about to be told, or excused; and while requests do not    *)
(* overlap what was told lies behind what the one at work has read.        *)

\* A step of the whole is one of this part, or leaves it alone.
LEMMA FeedSteps == [AllNext]_allVars => [Feed!Next]_(Feed!vars)
BY DEF AllNext, OtherParts, allVars, feed, Feed!vars

\* The constants, and what they make of a task.
LEMMA FeedConstants ==
    /\ IsFiniteSet(FeedDonor) /\ FeedAmount \subseteq Nat \ {0} /\ FeedGoal \in Nat \ {0}
    /\ FeedMaxStops \in Nat /\ FeedMaxGifts \in Nat
BY CommunityAssumption DEF Feed!ImpactFeedAssumption, Feed!IsFiniteSet, IsFiniteSet

FeedGiving == [step : {"record", "thank", "announce"}, donor : FeedDonor, prev : 0 .. FeedGoal,
              new : 0 .. FeedGoal]
FeedFanning == [step : {"fan"}, voice : {}]
FeedSending == [step : {"send"}, voice : {}, to : SUBSET (FeedDonor \X {})]
FeedTasks == {Feed!Idle} \cup FeedGiving \cup FeedFanning \cup FeedSending

\* The stages are told apart by their names.
LEMMA FeedStages ==
    ASSUME NEW t \in FeedTasks
    PROVE  /\ t.step \in {"idle", "record", "thank", "announce", "fan", "send"}
           /\ t = Feed!Idle <=> t.step = "idle"
           /\ t \in FeedGiving <=> t.step \in {"record", "thank", "announce"}
           /\ t \in FeedFanning <=> t.step = "fan"
           /\ t \in FeedSending <=> t.step = "send"
BY DEF FeedTasks, Feed!Idle, FeedGiving, FeedFanning, FeedSending

FeedTypes ==
    /\ Feed!TypeOK
    /\ feedTask \in [Hand -> FeedTasks]
    /\ \A r \in Hand : feedTask[r].step = "announce" => feedTask[r].donor \in feedSubscribers

\* Someone has announced a milestone, or is about to.
FeedCovered(m) ==
    \/ feedStops > 0
    \/ \E u \in FeedDonor : feedTold[u][m] > 0
    \/ \E r \in Feed!Announcing : m \in Feed!Crossed(feedTask[r].prev, feedTask[r].new)

\* What is raised, or was when a request began, is covered.
FeedReached(x) == {m \in Feed!Milestones : 100 * x >= m * FeedGoal}
FeedAllCovered ==
    /\ \A m \in FeedReached(feedRaised) : FeedCovered(m)
    /\ \A r \in Hand : feedTask[r] \in FeedGiving =>
          \A m \in FeedReached(feedTask[r].prev) : FeedCovered(m)

\* What is crossed is what is reached and was not before.
LEMMA FeedCrossedIsNew ==
    ASSUME NEW p \in Nat, NEW n \in Nat
    PROVE  /\ Feed!Crossed(p, n) = FeedReached(n) \ FeedReached(p)
           /\ p <= n => FeedReached(p) \subseteq FeedReached(n)
           /\ FeedReached(n) \subseteq Feed!Events
<1>1. \A m \in Feed!Milestones : m * FeedGoal \in Nat
  BY FeedConstants DEF Feed!Milestones
<1> QED BY <1>1 DEF Feed!Crossed, FeedReached, Feed!Events, Feed!Milestones

\* A request that goes on, or ends.
LEMMA FeedGoesOn ==
    ASSUME FeedTypes, NEW r \in Hand, NEW t \in FeedTasks, Feed!Continue(r, t)
    PROVE  /\ feedTask' \in [Hand -> FeedTasks]
           /\ feedTask'[r] = t
           /\ \A q \in Hand \ {r} : feedTask'[q] = feedTask[q]
           /\ \A q \in Hand : feedTask'[q].step \in
                 {"idle", "record", "thank", "announce", "update", "fan", "send"}
<1>1. /\ feedTask' \in [Hand -> FeedTasks]
      /\ feedTask'[r] = t
      /\ \A q \in Hand \ {r} : feedTask'[q] = feedTask[q]
  BY DEF FeedTypes, Feed!Continue
<1> QED BY <1>1, FeedStages

\* What one gift adds stays within the bound.
LEMMA FeedRoomForOne ==
    ASSUME Feed!TypeOK, Feed!Total < FeedMaxGifts, NEW u \in FeedDonor
    PROVE  feedGifts[u] + 1 \in 0 .. FeedMaxGifts
<1> DEFINE All == FeedDonor \X (1 .. FeedMaxGifts)
           T == {g \in All : g[2] <= feedGifts[g[1]]}
           one == [k \in 1 .. FeedMaxGifts |-> <<u, k>>]
<1>1. feedGifts[u] \in 0 .. FeedMaxGifts /\ FeedMaxGifts \in Nat
  BY FeedConstants DEF Feed!TypeOK
<1>2. IsFiniteSet(All)
  <2>1. IsFiniteSet(1 .. FeedMaxGifts)
    BY <1>1, FS_Interval
  <2> QED BY <2>1, FeedConstants, FS_Product
<1>3. IsFiniteSet(T)
  BY <1>2, FS_Subset
<1>4. Cardinality(T) < FeedMaxGifts /\ Cardinality(T) \in Nat
  BY <1>3, FS_CardinalityType DEF Feed!Total, Feed!Cardinality, Cardinality
<1>5. CASE feedGifts[u] = FeedMaxGifts
  <2>1. one \in Injection(1 .. FeedMaxGifts, T)
    BY <1>1, <1>5 DEF Injection, IsInjective
  <2>2. Cardinality(1 .. FeedMaxGifts) <= Cardinality(T)
    <3> HIDE DEF T, one
    <3> QED BY <1>3, <2>1, FS_Injection
  <2>3. Cardinality(1 .. FeedMaxGifts) = FeedMaxGifts
    BY <1>1, FS_Interval
  <2> QED BY <1>1, <1>4, <2>2, <2>3
<1>6. CASE feedGifts[u] # FeedMaxGifts
  BY <1>1, <1>6
<1> QED BY <1>5, <1>6
-----------------------------------------------------------------------------
\* Types, action by action.
LEMMA FeedGiveTypes ==
    ASSUME FeedTypes, NEW r \in Hand, NEW u \in FeedDonor, NEW amount \in FeedAmount,
           Feed!Give(r, u, amount)
    PROVE  FeedTypes'
<1> PICK new : new = IF feedRaised + amount > FeedGoal THEN FeedGoal ELSE feedRaised + amount
  OBVIOUS
<1> PICK t : t = [step |-> "record", donor |-> u, prev |-> feedRaised, new |-> new]
  OBVIOUS
<1>1. feedRaised \in 0 .. FeedGoal /\ new \in 0 .. FeedGoal
  BY FeedConstants DEF FeedTypes, Feed!TypeOK
<1>2. t \in FeedGiving /\ t.step = "record"
  BY <1>1 DEF FeedGiving
<1>3. Feed!Continue(r, t) /\ t \in FeedTasks
  BY <1>2 DEF Feed!Give, FeedTasks
<1> QED BY <1>2, <1>3, FeedGoesOn DEF FeedTypes, Feed!TypeOK, Feed!Give

LEMMA FeedRecordTypes ==
    ASSUME FeedTypes, NEW r \in Hand, Feed!Record(r)
    PROVE  FeedTypes'
<1> PICK old : old = feedTask[r]
  OBVIOUS
<1> PICK t : t = [old EXCEPT !.step = "thank"]
  OBVIOUS
<1>1. old \in FeedGiving
  BY FeedStages DEF FeedTypes, Feed!Record
<1>2. t \in FeedGiving
  BY <1>1 DEF FeedGiving
<1>3. /\ Feed!Continue(r, t)
      /\ feedRaised' = old.new /\ feedGifts' = [feedGifts EXCEPT ![old.donor] = @ + 1]
  BY DEF Feed!Record
<1>4. feedRaised' \in 0 .. FeedGoal /\ old.donor \in FeedDonor
  BY <1>1, <1>3 DEF FeedGiving
<1>5. feedGifts[old.donor] + 1 \in 0 .. FeedMaxGifts
  BY <1>4, FeedRoomForOne DEF Feed!Record, FeedTypes
<1>6. feedGifts' \in [FeedDonor -> 0 .. FeedMaxGifts]
  BY <1>3, <1>4, <1>5 DEF FeedTypes, Feed!TypeOK
<1>7. t \in FeedTasks /\ t.step = "thank"
  BY <1>1, <1>2 DEF FeedTasks, FeedGiving
<1> QED BY <1>3, <1>4, <1>6, <1>7, FeedGoesOn DEF FeedTypes, Feed!TypeOK, Feed!Record

LEMMA FeedThankTypes ==
    ASSUME FeedTypes, NEW r \in Hand, Feed!Thank(r)
    PROVE  FeedTypes'
<1> PICK old : old = feedTask[r]
  OBVIOUS
<1> PICK t : t = [old EXCEPT !.step = "announce"]
  OBVIOUS
<1>1. old \in FeedGiving
  BY FeedStages DEF FeedTypes, Feed!Thank
<1>2. t \in FeedGiving /\ t \in FeedTasks /\ t.donor = old.donor /\ old.donor \in FeedDonor
  BY <1>1 DEF FeedGiving, FeedTasks
<1>3. /\ Feed!Continue(r, t) /\ feedSubscribers' = feedSubscribers \cup {old.donor}
      /\ feedTold' = [feedTold EXCEPT ![old.donor][Feed!ThankYou] = @ + 1]
  BY DEF Feed!Thank
<1>4. feedTold' \in [FeedDonor -> [Feed!Events -> Nat]]
  <2>1. /\ feedTold \in [FeedDonor -> [Feed!Events -> Nat]] /\ Feed!ThankYou \in Feed!Events
        /\ feedTold[old.donor] \in [Feed!Events -> Nat]
    BY <1>2 DEF FeedTypes, Feed!TypeOK, Feed!Events
  <2>2. \A f \in [Feed!Events -> Nat], e \in Feed!Events :
           [f EXCEPT ![e] = @ + 1] \in [Feed!Events -> Nat]
    OBVIOUS
  <2> PICK f : f = [feedTold[old.donor] EXCEPT ![Feed!ThankYou] = @ + 1]
    OBVIOUS
  <2>3. f \in [Feed!Events -> Nat]
    BY <2>1, <2>2
  <2>4. feedTold' = [feedTold EXCEPT ![old.donor] = f]
    BY <1>3
  <2> QED BY <1>2, <2>1, <2>3, <2>4
<1>5. \A q \in Hand : feedTask'[q].step = "announce" => feedTask'[q].donor \in feedSubscribers'
  BY <1>2, <1>3, FeedGoesOn DEF FeedTypes
<1>6. feedSubscribers' \subseteq FeedDonor
  BY <1>2, <1>3 DEF FeedTypes, Feed!TypeOK
<1> QED BY <1>2, <1>3, <1>4, <1>5, <1>6, FeedGoesOn DEF FeedTypes, Feed!TypeOK, Feed!Thank

\* Telling adds to what was told.
LEMMA FeedDelivers ==
    ASSUME Feed!TypeOK, NEW pairs, Feed!Deliver(pairs)
    PROVE  /\ feedTold' \in [FeedDonor -> [Feed!Events -> Nat]]
           /\ \A u \in FeedDonor, e \in Feed!Events :
                 /\ <<u, e>> \in pairs => feedTold'[u][e] = feedTold[u][e] + 1
                 /\ <<u, e>> \notin pairs => feedTold'[u][e] = feedTold[u][e]
<1>1. \A u \in FeedDonor, e \in Feed!Events : feedTold[u][e] \in Nat
  BY DEF Feed!TypeOK
<1> QED BY <1>1 DEF Feed!Deliver

LEMMA FeedAnnounceTypes ==
    ASSUME FeedTypes, NEW r \in Hand, Feed!Announce(r)
    PROVE  FeedTypes'
<1>1. Feed!Idle \in FeedTasks /\ Feed!Idle.step = "idle"
  BY DEF FeedTasks, Feed!Idle
<1>2. feedTold' \in [FeedDonor -> [Feed!Events -> Nat]] /\ Feed!Continue(r, Feed!Idle)
  BY FeedDelivers DEF FeedTypes, Feed!Announce
<1> QED BY <1>1, <1>2, FeedGoesOn DEF FeedTypes, Feed!TypeOK, Feed!Announce

LEMMA FeedPostUpdateTypes ==
    ASSUME FeedTypes, NEW r \in Hand, Feed!PostUpdate(r)
    PROVE  FeedTypes'
BY FeedDelivers DEF FeedTypes, Feed!TypeOK, Feed!PostUpdate

LEMMA FeedStopTypes ==
    ASSUME FeedTypes, NEW r \in Hand, Feed!Stop(r)
    PROVE  FeedTypes'
<1>1. Feed!Idle \in FeedTasks /\ Feed!Idle.step = "idle"
  BY DEF FeedTasks, Feed!Idle
<1>2. feedTold' \in [FeedDonor -> [Feed!Events -> Nat]] /\ Feed!Continue(r, Feed!Idle)
  BY FeedDelivers DEF FeedTypes, Feed!TypeOK, Feed!Stop
<1>3. feedStops' \in 0 .. FeedMaxStops
  BY FeedConstants DEF FeedTypes, Feed!TypeOK, Feed!Stop
<1> QED BY <1>1, <1>2, <1>3, FeedGoesOn DEF FeedTypes, Feed!TypeOK, Feed!Stop

LEMMA FeedSubmitVoiceTypes ==
    ASSUME FeedTypes, NEW r \in Hand, NEW voice \in {}, Feed!SubmitVoice(r, voice)
    PROVE  FeedTypes'
<1> PICK t : t = IF Feed!ModerateVoice(voice) = "APPROVED" THEN [step |-> "fan", voice |-> voice]
                 ELSE Feed!Idle
  OBVIOUS
<1>1. t \in FeedTasks /\ t.step \in {"fan", "idle"} /\ Feed!Continue(r, t)
  BY DEF FeedTasks, FeedFanning, Feed!Idle, Feed!SubmitVoice
<1>2. /\ DOMAIN feedVoices' = DOMAIN feedVoices \cup {voice}
      /\ feedVoices' \in [DOMAIN feedVoices' -> {"APPROVED", "REJECTED"}]
  BY DEF Feed!SubmitVoice, Feed!ModerateVoice, FeedTypes, Feed!TypeOK
<1> QED BY <1>1, <1>2, FeedGoesOn DEF FeedTypes, Feed!TypeOK, Feed!SubmitVoice

LEMMA FeedFanOutTypes ==
    ASSUME FeedTypes, NEW r \in Hand, Feed!FanOut(r)
    PROVE  FeedTypes'
<1> PICK to : to = {x \in (feedSubscribers \cup Feed!Given) \X {} : x[2] \in feedPrefs[x[1]]}
  OBVIOUS
<1> PICK t : t = [step |-> "send", voice |-> feedTask[r].voice, to |-> to]
  OBVIOUS
<1>1. feedTask[r].voice \in {}
  BY FeedStages DEF FeedTypes, Feed!FanOut, FeedFanning
<1>2. to \in SUBSET (FeedDonor \X {})
  BY DEF FeedTypes, Feed!TypeOK, Feed!Given
<1>3. t \in FeedTasks /\ t.step = "send"
  BY <1>1, <1>2 DEF FeedTasks, FeedSending
<1>4. Feed!Continue(r, t)
  BY DEF Feed!FanOut
<1> QED BY <1>3, <1>4, FeedGoesOn DEF FeedTypes, Feed!TypeOK, Feed!FanOut

LEMMA FeedSendTypes ==
    ASSUME FeedTypes, NEW r \in Hand, Feed!Send(r) \/ Feed!MessengerFails(r)
    PROVE  FeedTypes'
<1> PICK old : old = feedTask[r]
  OBVIOUS
<1>1. old \in FeedSending
  BY FeedStages DEF FeedTypes, Feed!Send, Feed!MessengerFails
<1>2. Feed!Idle \in FeedTasks /\ Feed!Idle.step = "idle"
  BY DEF FeedTasks, Feed!Idle
<1>3. \A x : LET t == [old EXCEPT !.to = @ \ {x}] IN t \in FeedTasks /\ t.step = "send"
  BY <1>1 DEF FeedTasks, FeedSending
<1>4. \E t \in FeedTasks : t.step \in {"send", "idle"} /\ Feed!Continue(r, t)
  BY <1>2, <1>3 DEF Feed!Send, Feed!MessengerFails
<1>5. feedSent' \subseteq [to : FeedDonor, channel : {}, voice : {}]
  <2>1. old.voice \in {} /\ \A x \in old.to : x[1] \in FeedDonor /\ x[2] \in {}
    BY <1>1 DEF FeedSending
  <2>2. CASE feedSent' = feedSent
    BY <2>2 DEF FeedTypes, Feed!TypeOK
  <2>3. CASE feedSent' # feedSent
    <3>1. PICK x \in old.to :
             feedSent' = feedSent \cup {[to |-> x[1], channel |-> x[2], voice |-> old.voice]}
      BY <2>3 DEF Feed!Send, Feed!MessengerFails
    <3> QED BY <2>1, <3>1 DEF FeedTypes, Feed!TypeOK
  <2> QED BY <2>2, <2>3
<1>6. UNCHANGED <<feedRaised, feedGifts, feedSubscribers, feedTold, feedPrefs, feedVoices, feedSeen,
                  feedProvider, feedStops>>
  BY DEF Feed!Send, Feed!MessengerFails
<1> QED BY <1>4, <1>5, <1>6, FeedGoesOn DEF FeedTypes, Feed!TypeOK

LEMMA FeedRestTypes ==
    ASSUME FeedTypes,
           \/ \E r \in Hand, u \in FeedDonor, ch \in {}, in \in BOOLEAN : Feed!SetPref(r, u, ch, in)
           \/ \E u \in FeedDonor : Feed!MarkRead(u)
           \/ UNCHANGED Feed!vars
    PROVE  FeedTypes'
BY DEF FeedTypes, Feed!TypeOK, Feed!SetPref, Feed!MarkRead, Feed!vars
-----------------------------------------------------------------------------
(* What is reached is covered.                                             *)

\* Who announces goes on announcing, what was told stays told.
FeedGoes ==
    /\ \A r \in Feed!Announcing :
          /\ r \in Feed!Announcing'
          /\ feedTask'[r].prev = feedTask[r].prev /\ feedTask'[r].new = feedTask[r].new
    /\ \A u \in FeedDonor, e \in Feed!Events : feedTold'[u][e] >= feedTold[u][e]
    /\ feedStops' >= feedStops

LEMMA FeedCoveredStays ==
    ASSUME FeedTypes, FeedTypes', FeedGoes, NEW m \in Feed!Events, FeedCovered(m)
    PROVE  FeedCovered(m)'
<1>1. CASE feedStops > 0
  BY <1>1 DEF FeedGoes, FeedCovered, FeedTypes, Feed!TypeOK
<1>2. CASE \E u \in FeedDonor : feedTold[u][m] > 0
  <2>1. \A u \in FeedDonor : feedTold[u][m] \in Nat /\ feedTold'[u][m] \in Nat
    BY DEF FeedTypes, Feed!TypeOK
  <2> QED BY <1>2, <2>1 DEF FeedGoes, FeedCovered
<1>3. CASE \E r \in Feed!Announcing : m \in Feed!Crossed(feedTask[r].prev, feedTask[r].new)
  <2>1. PICK r \in Feed!Announcing : m \in Feed!Crossed(feedTask[r].prev, feedTask[r].new)
    BY <1>3
  <2>2. m \in Feed!Crossed(feedTask'[r].prev, feedTask'[r].new) /\ r \in Feed!Announcing'
    BY <2>1 DEF FeedGoes
  <2> QED BY <2>2 DEF FeedCovered, Feed!Crossed
<1> QED BY <1>1, <1>2, <1>3 DEF FeedCovered

\* Of milestones that were reached, nothing is lost.
LEMMA FeedAllStaysCovered ==
    ASSUME FeedTypes, FeedTypes', FeedAllCovered, FeedGoes,
           feedRaised' = feedRaised,
           \A r \in Hand : feedTask'[r] \in FeedGiving =>
               \/ feedTask'[r].prev = feedRaised
               \/ feedTask[r] \in FeedGiving /\ feedTask'[r].prev = feedTask[r].prev
    PROVE  FeedAllCovered'
<1>1. \A x \in 0 .. FeedGoal : FeedReached(x) \subseteq Feed!Events
  BY FeedConstants, FeedCrossedIsNew
<1>2. feedRaised \in 0 .. FeedGoal /\ \A r \in Hand : feedTask[r] \in FeedGiving => feedTask[r].prev \in 0 .. FeedGoal
  BY DEF FeedTypes, Feed!TypeOK, FeedGiving
<1>3. \A m \in FeedReached(feedRaised) : FeedCovered(m)'
  BY <1>1, <1>2, FeedCoveredStays DEF FeedAllCovered
<1>4. \A r \in Hand : feedTask[r] \in FeedGiving =>
         \A m \in FeedReached(feedTask[r].prev) : FeedCovered(m)'
  BY <1>1, <1>2, FeedCoveredStays DEF FeedAllCovered
<1> QED BY <1>3, <1>4 DEF FeedAllCovered, FeedReached

LEMMA FeedRecordCovers ==
    ASSUME FeedTypes, FeedTypes', FeedAllCovered, NEW r \in Hand, Feed!Record(r)
    PROVE  FeedAllCovered'
<1> PICK old : old = feedTask[r]
  OBVIOUS
<1> PICK t : t = [old EXCEPT !.step = "thank"]
  OBVIOUS
<1>1. old \in FeedGiving /\ old.step = "record"
  BY FeedStages DEF FeedTypes, Feed!Record
<1>2. t \in FeedGiving /\ t \in FeedTasks /\ t.step = "thank" /\ t.prev = old.prev /\ t.new = old.new
  BY <1>1 DEF FeedGiving, FeedTasks
<1>3. /\ feedTask'[r] = t /\ \A q \in Hand \ {r} : feedTask'[q] = feedTask[q]
  BY <1>2, FeedGoesOn DEF Feed!Record
<1>4. /\ feedRaised' = old.new
      /\ UNCHANGED <<feedTold, feedStops, feedSubscribers>>
  BY DEF Feed!Record
<1>5. \A q \in Feed!Announcing : q \in Hand /\ q # r
  BY <1>1 DEF Feed!Announcing
<1>6. FeedGoes
  <2>1. \A u \in FeedDonor, e \in Feed!Events : feedTold[u][e] \in Nat
    BY DEF FeedTypes, Feed!TypeOK
  <2>2. feedStops \in Int
    BY FeedConstants DEF FeedTypes, Feed!TypeOK
  <2>3. \A q \in Feed!Announcing : q \in Feed!Announcing' /\ feedTask'[q] = feedTask[q]
    BY <1>3, <1>5 DEF Feed!Announcing
  <2> QED BY <1>4, <2>1, <2>2, <2>3 DEF FeedGoes
<1>7. old.prev \in 0 .. FeedGoal /\ old.new \in 0 .. FeedGoal
  BY <1>1 DEF FeedGiving
<1>8. \A x \in 0 .. FeedGoal : FeedReached(x) \subseteq Feed!Events
  BY FeedConstants, FeedCrossedIsNew
<1>9. \A q \in Hand : feedTask[q] \in FeedGiving =>
         \A m \in FeedReached(feedTask[q].prev) : FeedCovered(m)'
  <2>1. \A q \in Hand : feedTask[q] \in FeedGiving => feedTask[q].prev \in 0 .. FeedGoal
    BY DEF FeedGiving
  <2> QED BY <1>6, <1>8, <2>1, FeedCoveredStays DEF FeedAllCovered
<1>10. \A m \in FeedReached(old.new) : FeedCovered(m)'
  <2> SUFFICES ASSUME NEW m \in FeedReached(old.new), m \notin FeedReached(old.prev)
               PROVE  FeedCovered(m)'
    BY <1>1, <1>9
  <2>1. m \in Feed!Crossed(t.prev, t.new)
    BY <1>2, <1>7, FeedConstants, FeedCrossedIsNew
  <2>2. r \in Feed!Announcing'
    BY <1>2, <1>3 DEF Feed!Announcing
  <2> QED BY <1>3, <2>1, <2>2 DEF FeedCovered, Feed!Crossed
<1>11. \A q \in Hand : feedTask'[q] \in FeedGiving =>
          feedTask[q] \in FeedGiving /\ feedTask'[q].prev = feedTask[q].prev
  BY <1>1, <1>2, <1>3
<1> QED BY <1>4, <1>9, <1>10, <1>11 DEF FeedAllCovered, FeedReached

LEMMA FeedThankCovers ==
    ASSUME FeedTypes, FeedTypes', FeedAllCovered, NEW r \in Hand, Feed!Thank(r)
    PROVE  FeedAllCovered'
<1> PICK old : old = feedTask[r]
  OBVIOUS
<1> PICK t : t = [old EXCEPT !.step = "announce"]
  OBVIOUS
<1>1. old \in FeedGiving /\ old.step = "thank"
  BY FeedStages DEF FeedTypes, Feed!Thank
<1>2. t \in FeedGiving /\ t \in FeedTasks /\ t.step = "announce" /\ t.prev = old.prev /\ t.new = old.new
  BY <1>1 DEF FeedGiving, FeedTasks
<1>3. /\ feedTask'[r] = t /\ \A q \in Hand \ {r} : feedTask'[q] = feedTask[q]
  BY <1>2, FeedGoesOn DEF Feed!Thank
<1>4. /\ UNCHANGED <<feedRaised, feedStops>>
      /\ feedTold' = [feedTold EXCEPT ![old.donor][Feed!ThankYou] = @ + 1]
  BY DEF Feed!Thank
<1>5. \A u \in FeedDonor, e \in Feed!Events : feedTold'[u][e] >= feedTold[u][e]
  <2>1. \A u \in FeedDonor, e \in Feed!Events : feedTold[u][e] \in Nat
    BY DEF FeedTypes, Feed!TypeOK
  <2>2. feedTold \in [FeedDonor -> [Feed!Events -> Nat]]
    BY DEF FeedTypes, Feed!TypeOK
  <2> QED BY <1>4, <2>1, <2>2
<1>6. feedStops' >= feedStops
  BY <1>4, FeedConstants DEF FeedTypes, Feed!TypeOK
<1>7. \A q \in Hand : /\ feedTask'[q] \in FeedGiving => feedTask[q] \in FeedGiving
                                                   /\ feedTask'[q].prev = feedTask[q].prev
                      /\ q \in Feed!Announcing => q \in Feed!Announcing'
                                                /\ feedTask'[q].prev = feedTask[q].prev
                                                /\ feedTask'[q].new = feedTask[q].new
  BY <1>1, <1>2, <1>3 DEF Feed!Announcing
<1> QED BY <1>4, <1>5, <1>6, <1>7, FeedAllStaysCovered DEF FeedGoes, Feed!Announcing

\* Who announces tells the donor, at least.
LEMMA FeedAnnounceCovers ==
    ASSUME FeedTypes, FeedTypes', FeedAllCovered, NEW r \in Hand, Feed!Announce(r)
    PROVE  FeedAllCovered'
<1> PICK old : old = feedTask[r]
  OBVIOUS
<1>1. old \in FeedGiving /\ old.step = "announce" /\ old.donor \in FeedDonor \cap feedSubscribers
  BY FeedStages DEF FeedTypes, Feed!Announce, FeedGiving
<1>2. Feed!Idle \in FeedTasks /\ Feed!Idle \notin FeedGiving /\ Feed!Idle.step = "idle"
  BY DEF FeedTasks, Feed!Idle, FeedGiving
<1>3. feedTask'[r] = Feed!Idle /\ \A q \in Hand \ {r} : feedTask'[q] = feedTask[q]
  BY <1>2, FeedGoesOn DEF Feed!Announce
<1> PICK pairs : pairs = feedSubscribers \X Feed!Crossed(old.prev, old.new)
  OBVIOUS
<1>4. UNCHANGED <<feedRaised, feedStops>> /\ Feed!Deliver(pairs)
  BY DEF Feed!Announce
<1>5. /\ \A u \in FeedDonor, e \in Feed!Events : feedTold[u][e] \in Nat
      /\ feedStops \in Int
  BY FeedConstants DEF FeedTypes, Feed!TypeOK
<1>6. \A u \in FeedDonor, e \in Feed!Events :
         /\ <<u, e>> \in pairs => feedTold'[u][e] = feedTold[u][e] + 1
         /\ <<u, e>> \notin pairs => feedTold'[u][e] = feedTold[u][e]
  BY <1>4, FeedDelivers DEF FeedTypes
<1>7. ASSUME NEW m \in Feed!Events, FeedCovered(m)
      PROVE  FeedCovered(m)'
  <2>1. CASE feedStops > 0
    BY <1>4, <2>1 DEF FeedCovered
  <2>2. CASE \E u \in FeedDonor : feedTold[u][m] > 0
    <3>1. \A u \in FeedDonor : feedTold'[u][m] >= feedTold[u][m] /\ feedTold[u][m] \in Nat
      <4> TAKE u \in FeedDonor
      <4>1. feedTold[u][m] \in Nat
        BY <1>5
      <4>2. CASE <<u, m>> \in pairs
        BY <1>6, <4>1, <4>2
      <4>3. CASE <<u, m>> \notin pairs
        BY <1>6, <4>1, <4>3
      <4> QED BY <4>1, <4>2, <4>3
    <3>2. \A u \in FeedDonor : feedTold'[u][m] \in Nat
      BY DEF FeedTypes, Feed!TypeOK
    <3>3. PICK u \in FeedDonor : feedTold[u][m] > 0
      BY <2>2
    <3>4. feedTold'[u][m] > 0
      BY <3>1, <3>2, <3>3
    <3> QED BY <3>4 DEF FeedCovered
  <2>3. CASE \E q \in Feed!Announcing : m \in Feed!Crossed(feedTask[q].prev, feedTask[q].new)
    <3>1. PICK q \in Feed!Announcing : m \in Feed!Crossed(feedTask[q].prev, feedTask[q].new)
      BY <2>3
    <3>2. CASE q = r
      <4>1. <<old.donor, m>> \in pairs
        BY <1>1, <3>1, <3>2
      <4>2. feedTold'[old.donor][m] > 0
        BY <1>1, <1>5, <1>6, <4>1
      <4> QED BY <1>1, <4>2 DEF FeedCovered
    <3>3. CASE q # r
      BY <1>3, <3>1, <3>3 DEF FeedCovered, Feed!Announcing, Feed!Crossed
    <3> QED BY <3>2, <3>3
  <2> QED BY <1>7, <2>1, <2>2, <2>3 DEF FeedCovered
<1>8. /\ \A x \in 0 .. FeedGoal : FeedReached(x) \subseteq Feed!Events
      /\ feedRaised \in 0 .. FeedGoal
      /\ \A q \in Hand : feedTask[q] \in FeedGiving => feedTask[q].prev \in 0 .. FeedGoal
  BY FeedConstants, FeedCrossedIsNew DEF FeedTypes, Feed!TypeOK, FeedGiving
<1>9. /\ \A m \in FeedReached(feedRaised) : FeedCovered(m)'
      /\ \A q \in Hand : feedTask[q] \in FeedGiving =>
            \A m \in FeedReached(feedTask[q].prev) : FeedCovered(m)'
  BY <1>7, <1>8 DEF FeedAllCovered
<1>10. \A q \in Hand : feedTask'[q] \in FeedGiving => feedTask'[q] = feedTask[q]
  BY <1>2, <1>3
<1> QED BY <1>4, <1>9, <1>10 DEF FeedAllCovered, FeedReached

\* A request that ended in the middle excuses what is not told.
LEMMA FeedStopCovers ==
    ASSUME FeedTypes, FeedTypes', NEW r \in Hand, Feed!Stop(r)
    PROVE  FeedAllCovered'
<1>1. feedStops' > 0
  BY FeedConstants DEF FeedTypes, Feed!TypeOK, Feed!Stop
<1> QED BY <1>1 DEF FeedAllCovered, FeedCovered

\* All other steps announce nothing.
LEMMA FeedRestCovers ==
    ASSUME FeedTypes, FeedTypes', FeedAllCovered, 
           UNCHANGED <<feedRaised, feedStops>>,
           \A u \in FeedDonor, e \in Feed!Events : feedTold'[u][e] >= feedTold[u][e],
           \A r \in Hand : \/ feedTask'[r] = feedTask[r]
                           \/ /\ feedTask[r] \notin FeedGiving
                              /\ feedTask'[r] \in FeedGiving => /\ feedTask'[r].step = "record"
                                                            /\ feedTask'[r].prev = feedRaised
    PROVE  FeedAllCovered'
<1>1. \A r \in Feed!Announcing : r \in Hand /\ feedTask[r] \in FeedGiving
  BY FeedStages DEF Feed!Announcing, FeedTypes
<1>2. \A r \in Feed!Announcing : r \in Feed!Announcing' /\ feedTask'[r] = feedTask[r]
  BY <1>1 DEF Feed!Announcing
<1>3. feedStops' >= feedStops
  BY FeedConstants DEF FeedTypes, Feed!TypeOK
<1>4. FeedGoes
  BY <1>2, <1>3 DEF FeedGoes
<1> QED BY <1>4, FeedAllStaysCovered
-----------------------------------------------------------------------------
(* Milestones that are told once.                                          *)

FeedOneAtATime ==
    \A g, h \in Hand : feedTask[g] # Feed!Idle /\ feedTask[h] # Feed!Idle => g = h

\* While requests do not overlap, the one at work has read what is raised, and what
\* was told lies behind it.
FeedAlone ==
    /\ FeedOneAtATime
    /\ \A r \in Hand : feedTask[r] \in FeedGiving =>
          /\ feedTask[r].prev <= feedTask[r].new
          /\ feedTask[r].step = "record" => feedRaised = feedTask[r].prev
          /\ feedTask[r].step # "record" => feedRaised = feedTask[r].new
    /\ \A u \in FeedDonor, m \in Feed!Milestones :
          /\ feedTold[u][m] <= 1
          /\ feedTold[u][m] > 0 =>
                /\ m \in FeedReached(feedRaised)
                /\ \A r \in Hand : feedTask[r] \in FeedGiving => m \in FeedReached(feedTask[r].prev)

FeedInv == FeedTypes /\ FeedAllCovered /\ (alone => FeedAlone)

\* The history of the whole sees the requests of the feed.
LEMMA FeedHistory ==
    ASSUME [AllNext]_allVars, alone => FeedOneAtATime, alone'
    PROVE  alone /\ FeedOneAtATime'
<1>1. CASE AllNext
  <2> PICK busy : busy = {h \in Hand : feedTask'[h] # Feed!Idle}
    OBVIOUS
  <2>1. alone /\ Cardinality(busy) <= 1
    BY <1>1 DEF AllNext, AtMostOneRequest
  <2>2. IsFiniteSet(busy)
    BY RosterConstants, FS_Subset
  <2> QED BY <2>1, <2>2, OneAtMost DEF FeedOneAtATime
<1>2. CASE UNCHANGED allVars
  BY <1>2 DEF allVars, feed, FeedOneAtATime
<1> QED BY <1>1, <1>2

\* A request that reads, or is not about a gift.
LEMMA FeedRestAlone ==
    ASSUME FeedTypes, FeedAlone, FeedOneAtATime',
           UNCHANGED <<feedRaised, feedTold>>,
           \A r \in Hand : feedTask'[r] \in FeedGiving => feedTask'[r] = feedTask[r]
    PROVE  FeedAlone'
BY DEF FeedAlone, FeedReached

LEMMA FeedGiveAlone ==
    ASSUME FeedTypes, FeedAlone, FeedOneAtATime',
           NEW r \in Hand, NEW u \in FeedDonor, NEW amount \in FeedAmount,
           Feed!Give(r, u, amount)
    PROVE  FeedAlone'
<1> PICK new : new = IF feedRaised + amount > FeedGoal THEN FeedGoal ELSE feedRaised + amount
  OBVIOUS
<1> PICK t : t = [step |-> "record", donor |-> u, prev |-> feedRaised, new |-> new]
  OBVIOUS
<1>1. feedRaised \in 0 .. FeedGoal /\ new \in 0 .. FeedGoal /\ feedRaised <= new
  BY FeedConstants DEF FeedTypes, Feed!TypeOK, Feed!Give
<1>2. t \in FeedGiving /\ t.step = "record" /\ t.prev = feedRaised /\ t.new = new
  BY <1>1 DEF FeedGiving
<1>3. Feed!Continue(r, t) /\ t \in FeedTasks /\ UNCHANGED <<feedRaised, feedTold>>
  BY <1>2 DEF Feed!Give, FeedTasks
<1>4. feedTask'[r] = t /\ \A q \in Hand \ {r} : feedTask'[q] = Feed!Idle
  <2>1. t # Feed!Idle
    BY <1>2, <1>3, FeedStages
  <2> QED BY <1>3, <2>1, FeedGoesOn DEF FeedOneAtATime
<1>5. \A q \in Hand : feedTask'[q] \in FeedGiving => q = r
  BY <1>4 DEF FeedGiving, Feed!Idle
<1> QED BY <1>1, <1>2, <1>3, <1>4, <1>5 DEF FeedAlone, FeedReached

LEMMA FeedRecordAlone ==
    ASSUME FeedTypes, FeedAlone, FeedOneAtATime', NEW r \in Hand, Feed!Record(r)
    PROVE  FeedAlone'
<1> PICK old : old = feedTask[r]
  OBVIOUS
<1> PICK t : t = [old EXCEPT !.step = "thank"]
  OBVIOUS
<1>1. old \in FeedGiving /\ old.step = "record"
  BY FeedStages DEF FeedTypes, Feed!Record
<1>2. t \in FeedGiving /\ t \in FeedTasks /\ t.step = "thank" /\ t.prev = old.prev /\ t.new = old.new
  BY <1>1 DEF FeedGiving, FeedTasks
<1>3. Feed!Continue(r, t) /\ feedRaised' = old.new /\ UNCHANGED feedTold
  BY DEF Feed!Record
<1>4. feedTask'[r] = t /\ \A q \in Hand \ {r} : feedTask'[q] = Feed!Idle
  <2>1. t # Feed!Idle
    BY <1>2, <1>3, FeedStages
  <2> QED BY <1>2, <1>3, <2>1, FeedGoesOn DEF FeedOneAtATime
<1>5. \A q \in Hand : feedTask'[q] \in FeedGiving => q = r
  BY <1>4 DEF FeedGiving, Feed!Idle
<1>6. old.prev \in Nat /\ old.new \in Nat /\ old.prev <= old.new /\ feedRaised = old.prev
  BY <1>1, FeedConstants DEF FeedGiving, FeedAlone
<1>7. FeedReached(old.prev) \subseteq FeedReached(old.new)
  BY <1>6, FeedCrossedIsNew
<1> QED BY <1>1, <1>2, <1>3, <1>4, <1>5, <1>6, <1>7 DEF FeedAlone, FeedReached

LEMMA FeedThankAlone ==
    ASSUME FeedTypes, FeedAlone, FeedOneAtATime', NEW r \in Hand, Feed!Thank(r)
    PROVE  FeedAlone'
<1> PICK old : old = feedTask[r]
  OBVIOUS
<1> PICK t : t = [old EXCEPT !.step = "announce"]
  OBVIOUS
<1>1. old \in FeedGiving /\ old.step = "thank"
  BY FeedStages DEF FeedTypes, Feed!Thank
<1>2. t \in FeedGiving /\ t \in FeedTasks /\ t.step = "announce" /\ t.prev = old.prev
      /\ t.new = old.new
  BY <1>1 DEF FeedGiving, FeedTasks
<1>3. Feed!Continue(r, t) /\ UNCHANGED feedRaised
      /\ feedTold' = [feedTold EXCEPT ![old.donor][Feed!ThankYou] = @ + 1]
  BY DEF Feed!Thank
<1>4. feedTask'[r] = t /\ \A q \in Hand \ {r} : feedTask'[q] = feedTask[q]
  BY <1>2, <1>3, FeedGoesOn
<1>5. \A u \in FeedDonor, m \in Feed!Milestones : feedTold'[u][m] = feedTold[u][m]
  <2>1. feedTold \in [FeedDonor -> [Feed!Events -> Nat]]
    BY DEF FeedTypes, Feed!TypeOK
  <2>2. \A m \in Feed!Milestones : m # Feed!ThankYou /\ m \in Feed!Events
    BY DEF Feed!Milestones, Feed!ThankYou, Feed!Events
  <2> QED BY <1>3, <2>1, <2>2
<1>6. /\ feedRaised = old.new /\ old.prev <= old.new
      /\ \A q \in Hand : feedTask'[q] \in FeedGiving =>
            /\ feedTask[q] \in FeedGiving
            /\ feedTask'[q].prev = feedTask[q].prev /\ feedTask'[q].new = feedTask[q].new
            /\ feedTask'[q].step = "record" => feedTask[q].step = "record"
            /\ feedTask'[q].step # "record" => feedTask[q].step # "record"
  BY <1>1, <1>2, <1>4 DEF FeedAlone
<1>7. \A q \in Hand : feedTask'[q] \in FeedGiving =>
          /\ feedTask'[q].prev <= feedTask'[q].new
          /\ feedTask'[q].step = "record" => feedRaised' = feedTask'[q].prev
          /\ feedTask'[q].step # "record" => feedRaised' = feedTask'[q].new
  BY <1>3, <1>6 DEF FeedAlone
<1>8. \A u \in FeedDonor, m \in Feed!Milestones :
          /\ feedTold'[u][m] <= 1
          /\ feedTold'[u][m] > 0 =>
                /\ m \in FeedReached(feedRaised')
                /\ \A q \in Hand : feedTask'[q] \in FeedGiving => m \in FeedReached(feedTask'[q].prev)
  BY <1>3, <1>5, <1>6 DEF FeedAlone
<1> QED BY <1>7, <1>8 DEF FeedAlone, FeedReached

\* Some of those who are told, by the one request at work.
LEMMA FeedDeliverAlone ==
    ASSUME FeedTypes, FeedAlone, FeedOneAtATime', NEW r \in Hand,
           feedTask[r].step = "announce",
           NEW part \in SUBSET (feedSubscribers \X Feed!Crossed(feedTask[r].prev, feedTask[r].new)),
           Feed!Deliver(part), Feed!Continue(r, Feed!Idle), UNCHANGED feedRaised
    PROVE  FeedAlone'
<1> PICK old : old = feedTask[r]
  OBVIOUS
<1>1. old \in FeedGiving /\ old.step = "announce"
  BY FeedStages DEF FeedTypes
<1>2. old.prev \in Nat /\ old.new \in Nat /\ old.prev <= old.new /\ feedRaised = old.new
  BY <1>1, FeedConstants DEF FeedGiving, FeedAlone
<1>3. Feed!Crossed(old.prev, old.new) = FeedReached(feedRaised) \ FeedReached(old.prev)
  BY <1>2, FeedCrossedIsNew
<1>4. Feed!Idle \in FeedTasks /\ old # Feed!Idle /\ Feed!Idle \notin FeedGiving
  BY <1>1, FeedStages DEF FeedTasks, Feed!Idle, FeedGiving
<1>5. \A q \in Hand : feedTask'[q] \notin FeedGiving
  <2>1. feedTask'[r] = Feed!Idle /\ \A q \in Hand \ {r} : feedTask'[q] = feedTask[q]
    BY <1>4, FeedGoesOn
  <2>2. \A q \in Hand \ {r} : feedTask[q] = Feed!Idle
    BY <1>4 DEF FeedAlone, FeedOneAtATime
  <2> QED BY <1>4, <2>1, <2>2
<1>6. ASSUME NEW u \in FeedDonor, NEW m \in Feed!Milestones
      PROVE  feedTold'[u][m] <= 1 /\ (feedTold'[u][m] > 0 => m \in FeedReached(feedRaised))
  <2>1. m \in Feed!Events /\ feedTold[u][m] \in Nat
    BY DEF Feed!Events, FeedTypes, Feed!TypeOK
  <2>2. CASE <<u, m>> \in part
    <3>1. m \in FeedReached(feedRaised) /\ m \notin FeedReached(old.prev)
      BY <1>3, <2>2
    <3>2. feedTold[u][m] = 0
      BY <1>1, <2>1, <3>1 DEF FeedAlone
    <3>3. feedTold'[u][m] = feedTold[u][m] + 1
      BY <2>1, <2>2, FeedDelivers DEF FeedTypes
    <3> QED BY <3>1, <3>2, <3>3
  <2>3. CASE <<u, m>> \notin part
    <3>1. feedTold'[u][m] = feedTold[u][m]
      BY <2>1, <2>3, FeedDelivers DEF FeedTypes
    <3> QED BY <3>1 DEF FeedAlone
  <2> QED BY <2>2, <2>3
<1> QED BY <1>5, <1>6 DEF FeedAlone, FeedReached

LEMMA FeedPostUpdateAlone ==
    ASSUME FeedTypes, FeedAlone, FeedOneAtATime', NEW r \in Hand, Feed!PostUpdate(r)
    PROVE  FeedAlone'
<1>1. \A u \in FeedDonor, m \in Feed!Milestones : feedTold'[u][m] = feedTold[u][m]
  <2> TAKE u \in FeedDonor, m \in Feed!Milestones
  <2> PICK pairs : pairs = feedSubscribers \X {Feed!Update}
    OBVIOUS
  <2>1. Feed!Deliver(pairs) /\ m \in Feed!Events /\ <<u, m>> \notin pairs
    BY DEF Feed!PostUpdate, Feed!Milestones, Feed!Update, Feed!Events
  <2> QED BY <2>1, FeedDelivers DEF FeedTypes
<1> QED BY <1>1 DEF FeedAlone, FeedReached, Feed!PostUpdate
-----------------------------------------------------------------------------
\* Steps of the donors keep the invariant.
LEMMA FeedDonorStep ==
    ASSUME FeedInv, alone' => alone /\ FeedOneAtATime', NEW r \in Hand, Feed!DonorStep(r)
    PROVE  FeedInv'
<1>1. FeedTypes /\ FeedAllCovered /\ (alone => FeedAlone)
  BY DEF FeedInv
<1>2. ASSUME NEW u \in FeedDonor, NEW amount \in FeedAmount, Feed!Give(r, u, amount)
      PROVE  FeedInv'
  <2>1. FeedTypes'
    BY <1>1, <1>2, FeedGiveTypes
  <2>2. \A q \in Hand : \/ feedTask'[q] = feedTask[q]
                        \/ /\ feedTask[q] \notin FeedGiving
                           /\ feedTask'[q].step = "record" /\ feedTask'[q].prev = feedRaised
    BY <1>1, <1>2 DEF Feed!Give, Feed!Continue, FeedTypes, FeedGiving, Feed!Idle
  <2>3. UNCHANGED <<feedRaised, feedStops, feedTold>>
        /\ \A u1 \in FeedDonor, e \in Feed!Events : feedTold[u1][e] \in Nat
    BY <1>1, <1>2 DEF Feed!Give, FeedTypes, Feed!TypeOK
  <2>4. FeedAllCovered'
    BY <1>1, <2>1, <2>2, <2>3, FeedRestCovers
  <2> QED BY <1>1, <1>2, <2>1, <2>4, FeedGiveAlone DEF FeedInv
<1>3. CASE Feed!Record(r)
  BY <1>1, <1>3, FeedRecordTypes, FeedRecordCovers, FeedRecordAlone DEF FeedInv
<1>4. CASE Feed!Thank(r)
  BY <1>1, <1>4, FeedThankTypes, FeedThankCovers, FeedThankAlone DEF FeedInv
<1>5. CASE Feed!Announce(r)
  <2>1. FeedTypes' /\ FeedAllCovered'
    BY <1>1, <1>5, FeedAnnounceTypes, FeedAnnounceCovers
  <2> PICK part : part = feedSubscribers \X Feed!Crossed(feedTask[r].prev, feedTask[r].new)
    OBVIOUS
  <2>2. /\ Feed!Deliver(part) /\ Feed!Continue(r, Feed!Idle) /\ UNCHANGED feedRaised
        /\ feedTask[r].step = "announce"
        /\ part \in SUBSET (feedSubscribers \X Feed!Crossed(feedTask[r].prev, feedTask[r].new))
    BY <1>5 DEF Feed!Announce
  <2>3. alone' => FeedAlone'
    BY <1>1, <2>2, FeedDeliverAlone
  <2> QED BY <2>1, <2>3 DEF FeedInv
<1>6. CASE \E u \in FeedDonor, ch \in {}, in \in BOOLEAN : Feed!SetPref(r, u, ch, in)
  BY <1>6
<1> QED BY <1>2, <1>3, <1>4, <1>5, <1>6 DEF Feed!DonorStep

\* So do those of the student, whose voice is not heard here.
LEMMA FeedStudentStep ==
    ASSUME FeedInv, alone' => alone /\ FeedOneAtATime', NEW r \in Hand, Feed!StudentStep(r)
    PROVE  FeedInv'
<1>1. FeedTypes /\ FeedAllCovered /\ (alone => FeedAlone)
  BY DEF FeedInv
<1>2. feedTask[r].step \notin {"fan", "send"}
  BY <1>1, FeedStages DEF FeedTypes, FeedFanning, FeedSending
<1>3. Feed!PostUpdate(r)
  BY <1>2 DEF Feed!StudentStep, Feed!FanOut, Feed!Send, Feed!MessengerFails
<1>4. FeedTypes'
  BY <1>1, <1>3, FeedPostUpdateTypes
<1>5. \A u \in FeedDonor, e \in Feed!Events : feedTold'[u][e] >= feedTold[u][e]
  <2> TAKE u \in FeedDonor, e \in Feed!Events
  <2> PICK pairs : pairs = feedSubscribers \X {Feed!Update}
    OBVIOUS
  <2>1. Feed!Deliver(pairs) /\ feedTold[u][e] \in Nat
    BY <1>1, <1>3 DEF Feed!PostUpdate, FeedTypes, Feed!TypeOK
  <2>2. CASE <<u, e>> \in pairs
    BY <1>1, <2>1, <2>2, FeedDelivers DEF FeedTypes
  <2>3. CASE <<u, e>> \notin pairs
    BY <1>1, <2>1, <2>3, FeedDelivers DEF FeedTypes
  <2> QED BY <2>2, <2>3
<1>6. UNCHANGED <<feedRaised, feedStops, feedTask>>
  BY <1>3 DEF Feed!PostUpdate
<1>7. FeedAllCovered'
  BY <1>1, <1>4, <1>5, <1>6, FeedRestCovers
<1> QED BY <1>1, <1>3, <1>4, <1>7, FeedPostUpdateAlone DEF FeedInv

LEMMA FeedStopStep ==
    ASSUME FeedInv, alone' => alone /\ FeedOneAtATime', NEW r \in Hand, Feed!Stop(r)
    PROVE  FeedInv'
<1>1. FeedTypes /\ FeedAllCovered /\ (alone => FeedAlone)
  BY DEF FeedInv
<1>2. FeedTypes' /\ FeedAllCovered'
  BY <1>1, FeedStopTypes, FeedStopCovers
<1>3. Feed!Continue(r, Feed!Idle) /\ UNCHANGED feedRaised
  BY DEF Feed!Stop
<1>4. CASE UNCHANGED feedTold
  <2>1. Feed!Idle \in FeedTasks /\ Feed!Idle \notin FeedGiving
    BY DEF FeedTasks, Feed!Idle, FeedGiving
  <2>2. \A q \in Hand : feedTask'[q] \in FeedGiving => feedTask'[q] = feedTask[q]
    BY <1>1, <1>3, <2>1, FeedGoesOn
  <2> QED BY <1>1, <1>2, <1>3, <1>4, <2>2, FeedRestAlone DEF FeedInv
<1>5. CASE ~UNCHANGED feedTold
  <2>1. PICK part \in SUBSET (feedSubscribers \X Feed!Crossed(feedTask[r].prev, feedTask[r].new)) :
           feedTask[r].step = "announce" /\ Feed!Deliver(part)
    BY <1>5 DEF Feed!Stop
  <2>2. alone' => FeedAlone'
    BY <1>1, <1>3, <2>1, FeedDeliverAlone
  <2> QED BY <1>2, <2>2 DEF FeedInv
<1> QED BY <1>4, <1>5

\* Reading changes nothing of this.
LEMMA FeedRestStep ==
    ASSUME FeedInv, alone' => alone /\ FeedOneAtATime',
           (\E u \in FeedDonor : Feed!MarkRead(u)) \/ UNCHANGED Feed!vars
    PROVE  FeedInv'
<1>1. FeedTypes /\ FeedAllCovered /\ (alone => FeedAlone)
  BY DEF FeedInv
<1>2. UNCHANGED <<feedRaised, feedTold, feedTask, feedStops>>
  BY DEF Feed!MarkRead, Feed!vars
<1>3. FeedTypes'
  BY <1>1, FeedRestTypes
<1>4. \A u \in FeedDonor, e \in Feed!Events : feedTold'[u][e] >= feedTold[u][e]
  BY <1>1, <1>2 DEF FeedTypes, Feed!TypeOK
<1>5. FeedAllCovered'
  BY <1>1, <1>2, <1>3, <1>4, FeedRestCovers
<1> QED BY <1>1, <1>2, <1>3, <1>5, FeedRestAlone DEF FeedInv

LEMMA FeedInitially == ASSUME AllInit PROVE FeedInv
<1>1. Feed!Init
  BY DEF AllInit
<1>2. /\ \A r \in Hand : feedTask[r] = Feed!Idle
      /\ feedTask \in [Hand -> FeedTasks] /\ feedRaised = 0
      /\ \A r \in Hand : feedTask[r].step = "idle" /\ feedTask[r] \notin FeedGiving
      /\ feedTold \in [FeedDonor -> [Feed!Events -> Nat]]
      /\ \A u \in FeedDonor, e \in Feed!Events : feedTold[u][e] = 0
  BY <1>1 DEF Feed!Init, FeedTasks, Feed!Idle, FeedGiving
<1>3. FeedReached(0) = {}
  <2>1. \A m \in Feed!Milestones : m * FeedGoal \in Nat \ {0}
    BY FeedConstants DEF Feed!Milestones
  <2> QED BY <2>1 DEF FeedReached, Feed!Milestones
<1>4. feedProvider \in {"mock", "whatsapp", "telegram"}
  BY <1>1 DEF Feed!Init, Feed!SelectProvider
<1>5. FeedTypes
  BY <1>1, <1>2, <1>4, FeedConstants DEF FeedTypes, Feed!TypeOK, Feed!Init
<1>6. FeedAllCovered
  BY <1>2, <1>3 DEF FeedAllCovered
<1>7. FeedAlone
  BY <1>2 DEF FeedAlone, FeedOneAtATime, Feed!Milestones, Feed!Events
<1> QED BY <1>5, <1>6, <1>7 DEF FeedInv

LEMMA FeedNext == ASSUME FeedInv, [AllNext]_allVars PROVE FeedInv'
<1>1. [Feed!Next]_(Feed!vars)
  BY FeedSteps
<1>2. alone' => alone /\ FeedOneAtATime'
  BY FeedHistory DEF FeedInv, FeedAlone
<1>3. CASE Feed!Next
  BY <1>2, <1>3, FeedDonorStep, FeedStudentStep, FeedStopStep, FeedRestStep DEF Feed!Next
<1>4. CASE UNCHANGED Feed!vars
  BY <1>2, <1>4, FeedRestStep
<1> QED BY <1>1, <1>3, <1>4

\* The invariant says that no milestone is missed, nor told twice.
LEMMA FeedSuffices ==
    ASSUME FeedInv
    PROVE  Feed!TypeOK /\ Feed!NoMilestoneIsMissed /\ (alone => Feed!MilestonesOnce)
BY DEF FeedInv, FeedTypes, FeedAllCovered, FeedReached, FeedCovered, FeedAlone,
       Feed!NoMilestoneIsMissed, Feed!MilestonesOnce
-----------------------------------------------------------------------------
(* ImpactFeed, the voice messages: the same about milestones; and only     *)
(* what has no reason to be rejected is approved, on its way, or out.      *)

\* A step of the whole is one of this part, or leaves it alone.
LEMMA VoicesSteps == [AllNext]_allVars => [Voices!Next]_(Voices!vars)
BY DEF AllNext, OtherParts, allVars, voices, Voices!vars

\* The constants, and what they make of a task.
LEMMA VoicesConstants ==
    /\ IsFiniteSet(VoicesDonor) /\ VoicesAmount \subseteq Nat \ {0} /\ VoicesGoal \in Nat \ {0}
    /\ VoicesMaxStops \in Nat /\ VoicesMaxGifts \in Nat
BY CommunityAssumption DEF Voices!ImpactFeedAssumption, Voices!IsFiniteSet, IsFiniteSet

VoicesGiving == [step : {"record", "thank", "announce"}, donor : VoicesDonor, prev : 0 .. VoicesGoal,
              new : 0 .. VoicesGoal]
VoicesFanning == [step : {"fan"}, voice : Message]
VoicesSending == [step : {"send"}, voice : Message, to : SUBSET (VoicesDonor \X Messenger)]
VoicesTasks == {Voices!Idle} \cup VoicesGiving \cup VoicesFanning \cup VoicesSending

\* The stages are told apart by their names.
LEMMA VoicesStages ==
    ASSUME NEW t \in VoicesTasks
    PROVE  /\ t.step \in {"idle", "record", "thank", "announce", "fan", "send"}
           /\ t = Voices!Idle <=> t.step = "idle"
           /\ t \in VoicesGiving <=> t.step \in {"record", "thank", "announce"}
           /\ t \in VoicesFanning <=> t.step = "fan"
           /\ t \in VoicesSending <=> t.step = "send"
BY DEF VoicesTasks, Voices!Idle, VoicesGiving, VoicesFanning, VoicesSending

VoicesTypes ==
    /\ Voices!TypeOK
    /\ voicesTask \in [Hand -> VoicesTasks]
    /\ \A r \in Hand : voicesTask[r].step = "announce" => voicesTask[r].donor \in voicesSubscribers

\* Someone has announced a milestone, or is about to.
VoicesCovered(m) ==
    \/ voicesStops > 0
    \/ \E u \in VoicesDonor : voicesTold[u][m] > 0
    \/ \E r \in Voices!Announcing : m \in Voices!Crossed(voicesTask[r].prev, voicesTask[r].new)

\* What is raised, or was when a request began, is covered.
VoicesReached(x) == {m \in Voices!Milestones : 100 * x >= m * VoicesGoal}
VoicesAllCovered ==
    /\ \A m \in VoicesReached(voicesRaised) : VoicesCovered(m)
    /\ \A r \in Hand : voicesTask[r] \in VoicesGiving =>
          \A m \in VoicesReached(voicesTask[r].prev) : VoicesCovered(m)

\* What is crossed is what is reached and was not before.
LEMMA VoicesCrossedIsNew ==
    ASSUME NEW p \in Nat, NEW n \in Nat
    PROVE  /\ Voices!Crossed(p, n) = VoicesReached(n) \ VoicesReached(p)
           /\ p <= n => VoicesReached(p) \subseteq VoicesReached(n)
           /\ VoicesReached(n) \subseteq Voices!Events
<1>1. \A m \in Voices!Milestones : m * VoicesGoal \in Nat
  BY VoicesConstants DEF Voices!Milestones
<1> QED BY <1>1 DEF Voices!Crossed, VoicesReached, Voices!Events, Voices!Milestones

\* A request that goes on, or ends.
LEMMA VoicesGoesOn ==
    ASSUME VoicesTypes, NEW r \in Hand, NEW t \in VoicesTasks, Voices!Continue(r, t)
    PROVE  /\ voicesTask' \in [Hand -> VoicesTasks]
           /\ voicesTask'[r] = t
           /\ \A q \in Hand \ {r} : voicesTask'[q] = voicesTask[q]
           /\ \A q \in Hand : voicesTask'[q].step \in
                 {"idle", "record", "thank", "announce", "update", "fan", "send"}
<1>1. /\ voicesTask' \in [Hand -> VoicesTasks]
      /\ voicesTask'[r] = t
      /\ \A q \in Hand \ {r} : voicesTask'[q] = voicesTask[q]
  BY DEF VoicesTypes, Voices!Continue
<1> QED BY <1>1, VoicesStages

\* What one gift adds stays within the bound.
LEMMA VoicesRoomForOne ==
    ASSUME Voices!TypeOK, Voices!Total < VoicesMaxGifts, NEW u \in VoicesDonor
    PROVE  voicesGifts[u] + 1 \in 0 .. VoicesMaxGifts
<1> DEFINE All == VoicesDonor \X (1 .. VoicesMaxGifts)
           T == {g \in All : g[2] <= voicesGifts[g[1]]}
           one == [k \in 1 .. VoicesMaxGifts |-> <<u, k>>]
<1>1. voicesGifts[u] \in 0 .. VoicesMaxGifts /\ VoicesMaxGifts \in Nat
  BY VoicesConstants DEF Voices!TypeOK
<1>2. IsFiniteSet(All)
  <2>1. IsFiniteSet(1 .. VoicesMaxGifts)
    BY <1>1, FS_Interval
  <2> QED BY <2>1, VoicesConstants, FS_Product
<1>3. IsFiniteSet(T)
  BY <1>2, FS_Subset
<1>4. Cardinality(T) < VoicesMaxGifts /\ Cardinality(T) \in Nat
  BY <1>3, FS_CardinalityType DEF Voices!Total, Voices!Cardinality, Cardinality
<1>5. CASE voicesGifts[u] = VoicesMaxGifts
  <2>1. one \in Injection(1 .. VoicesMaxGifts, T)
    BY <1>1, <1>5 DEF Injection, IsInjective
  <2>2. Cardinality(1 .. VoicesMaxGifts) <= Cardinality(T)
    <3> HIDE DEF T, one
    <3> QED BY <1>3, <2>1, FS_Injection
  <2>3. Cardinality(1 .. VoicesMaxGifts) = VoicesMaxGifts
    BY <1>1, FS_Interval
  <2> QED BY <1>1, <1>4, <2>2, <2>3
<1>6. CASE voicesGifts[u] # VoicesMaxGifts
  BY <1>1, <1>6
<1> QED BY <1>5, <1>6
-----------------------------------------------------------------------------
\* Types, action by action.
LEMMA VoicesGiveTypes ==
    ASSUME VoicesTypes, NEW r \in Hand, NEW u \in VoicesDonor, NEW amount \in VoicesAmount,
           Voices!Give(r, u, amount)
    PROVE  VoicesTypes'
<1> PICK new : new = IF voicesRaised + amount > VoicesGoal THEN VoicesGoal ELSE voicesRaised + amount
  OBVIOUS
<1> PICK t : t = [step |-> "record", donor |-> u, prev |-> voicesRaised, new |-> new]
  OBVIOUS
<1>1. voicesRaised \in 0 .. VoicesGoal /\ new \in 0 .. VoicesGoal
  BY VoicesConstants DEF VoicesTypes, Voices!TypeOK
<1>2. t \in VoicesGiving /\ t.step = "record"
  BY <1>1 DEF VoicesGiving
<1>3. Voices!Continue(r, t) /\ t \in VoicesTasks
  BY <1>2 DEF Voices!Give, VoicesTasks
<1> QED BY <1>2, <1>3, VoicesGoesOn DEF VoicesTypes, Voices!TypeOK, Voices!Give

LEMMA VoicesRecordTypes ==
    ASSUME VoicesTypes, NEW r \in Hand, Voices!Record(r)
    PROVE  VoicesTypes'
<1> PICK old : old = voicesTask[r]
  OBVIOUS
<1> PICK t : t = [old EXCEPT !.step = "thank"]
  OBVIOUS
<1>1. old \in VoicesGiving
  BY VoicesStages DEF VoicesTypes, Voices!Record
<1>2. t \in VoicesGiving
  BY <1>1 DEF VoicesGiving
<1>3. /\ Voices!Continue(r, t)
      /\ voicesRaised' = old.new /\ voicesGifts' = [voicesGifts EXCEPT ![old.donor] = @ + 1]
  BY DEF Voices!Record
<1>4. voicesRaised' \in 0 .. VoicesGoal /\ old.donor \in VoicesDonor
  BY <1>1, <1>3 DEF VoicesGiving
<1>5. voicesGifts[old.donor] + 1 \in 0 .. VoicesMaxGifts
  BY <1>4, VoicesRoomForOne DEF Voices!Record, VoicesTypes
<1>6. voicesGifts' \in [VoicesDonor -> 0 .. VoicesMaxGifts]
  BY <1>3, <1>4, <1>5 DEF VoicesTypes, Voices!TypeOK
<1>7. t \in VoicesTasks /\ t.step = "thank"
  BY <1>1, <1>2 DEF VoicesTasks, VoicesGiving
<1> QED BY <1>3, <1>4, <1>6, <1>7, VoicesGoesOn DEF VoicesTypes, Voices!TypeOK, Voices!Record

LEMMA VoicesThankTypes ==
    ASSUME VoicesTypes, NEW r \in Hand, Voices!Thank(r)
    PROVE  VoicesTypes'
<1> PICK old : old = voicesTask[r]
  OBVIOUS
<1> PICK t : t = [old EXCEPT !.step = "announce"]
  OBVIOUS
<1>1. old \in VoicesGiving
  BY VoicesStages DEF VoicesTypes, Voices!Thank
<1>2. t \in VoicesGiving /\ t \in VoicesTasks /\ t.donor = old.donor /\ old.donor \in VoicesDonor
  BY <1>1 DEF VoicesGiving, VoicesTasks
<1>3. /\ Voices!Continue(r, t) /\ voicesSubscribers' = voicesSubscribers \cup {old.donor}
      /\ voicesTold' = [voicesTold EXCEPT ![old.donor][Voices!ThankYou] = @ + 1]
  BY DEF Voices!Thank
<1>4. voicesTold' \in [VoicesDonor -> [Voices!Events -> Nat]]
  <2>1. /\ voicesTold \in [VoicesDonor -> [Voices!Events -> Nat]] /\ Voices!ThankYou \in Voices!Events
        /\ voicesTold[old.donor] \in [Voices!Events -> Nat]
    BY <1>2 DEF VoicesTypes, Voices!TypeOK, Voices!Events
  <2>2. \A f \in [Voices!Events -> Nat], e \in Voices!Events :
           [f EXCEPT ![e] = @ + 1] \in [Voices!Events -> Nat]
    OBVIOUS
  <2> PICK f : f = [voicesTold[old.donor] EXCEPT ![Voices!ThankYou] = @ + 1]
    OBVIOUS
  <2>3. f \in [Voices!Events -> Nat]
    BY <2>1, <2>2
  <2>4. voicesTold' = [voicesTold EXCEPT ![old.donor] = f]
    BY <1>3
  <2> QED BY <1>2, <2>1, <2>3, <2>4
<1>5. \A q \in Hand : voicesTask'[q].step = "announce" => voicesTask'[q].donor \in voicesSubscribers'
  BY <1>2, <1>3, VoicesGoesOn DEF VoicesTypes
<1>6. voicesSubscribers' \subseteq VoicesDonor
  BY <1>2, <1>3 DEF VoicesTypes, Voices!TypeOK
<1> QED BY <1>2, <1>3, <1>4, <1>5, <1>6, VoicesGoesOn DEF VoicesTypes, Voices!TypeOK, Voices!Thank

\* Telling adds to what was told.
LEMMA VoicesDelivers ==
    ASSUME Voices!TypeOK, NEW pairs, Voices!Deliver(pairs)
    PROVE  /\ voicesTold' \in [VoicesDonor -> [Voices!Events -> Nat]]
           /\ \A u \in VoicesDonor, e \in Voices!Events :
                 /\ <<u, e>> \in pairs => voicesTold'[u][e] = voicesTold[u][e] + 1
                 /\ <<u, e>> \notin pairs => voicesTold'[u][e] = voicesTold[u][e]
<1>1. \A u \in VoicesDonor, e \in Voices!Events : voicesTold[u][e] \in Nat
  BY DEF Voices!TypeOK
<1> QED BY <1>1 DEF Voices!Deliver

LEMMA VoicesAnnounceTypes ==
    ASSUME VoicesTypes, NEW r \in Hand, Voices!Announce(r)
    PROVE  VoicesTypes'
<1>1. Voices!Idle \in VoicesTasks /\ Voices!Idle.step = "idle"
  BY DEF VoicesTasks, Voices!Idle
<1>2. voicesTold' \in [VoicesDonor -> [Voices!Events -> Nat]] /\ Voices!Continue(r, Voices!Idle)
  BY VoicesDelivers DEF VoicesTypes, Voices!Announce
<1> QED BY <1>1, <1>2, VoicesGoesOn DEF VoicesTypes, Voices!TypeOK, Voices!Announce

LEMMA VoicesPostUpdateTypes ==
    ASSUME VoicesTypes, NEW r \in Hand, Voices!PostUpdate(r)
    PROVE  VoicesTypes'
BY VoicesDelivers DEF VoicesTypes, Voices!TypeOK, Voices!PostUpdate

LEMMA VoicesStopTypes ==
    ASSUME VoicesTypes, NEW r \in Hand, Voices!Stop(r)
    PROVE  VoicesTypes'
<1>1. Voices!Idle \in VoicesTasks /\ Voices!Idle.step = "idle"
  BY DEF VoicesTasks, Voices!Idle
<1>2. voicesTold' \in [VoicesDonor -> [Voices!Events -> Nat]] /\ Voices!Continue(r, Voices!Idle)
  BY VoicesDelivers DEF VoicesTypes, Voices!TypeOK, Voices!Stop
<1>3. voicesStops' \in 0 .. VoicesMaxStops
  BY VoicesConstants DEF VoicesTypes, Voices!TypeOK, Voices!Stop
<1> QED BY <1>1, <1>2, <1>3, VoicesGoesOn DEF VoicesTypes, Voices!TypeOK, Voices!Stop

LEMMA VoicesSubmitVoiceTypes ==
    ASSUME VoicesTypes, NEW r \in Hand, NEW voice \in Message, Voices!SubmitVoice(r, voice)
    PROVE  VoicesTypes'
<1> PICK t : t = IF Voices!ModerateVoice(voice) = "APPROVED" THEN [step |-> "fan", voice |-> voice]
                 ELSE Voices!Idle
  OBVIOUS
<1>1. t \in VoicesTasks /\ t.step \in {"fan", "idle"} /\ Voices!Continue(r, t)
  BY DEF VoicesTasks, VoicesFanning, Voices!Idle, Voices!SubmitVoice
<1>2. /\ DOMAIN voicesVoices' = DOMAIN voicesVoices \cup {voice}
      /\ voicesVoices' \in [DOMAIN voicesVoices' -> {"APPROVED", "REJECTED"}]
  BY DEF Voices!SubmitVoice, Voices!ModerateVoice, VoicesTypes, Voices!TypeOK
<1> QED BY <1>1, <1>2, VoicesGoesOn DEF VoicesTypes, Voices!TypeOK, Voices!SubmitVoice

LEMMA VoicesFanOutTypes ==
    ASSUME VoicesTypes, NEW r \in Hand, Voices!FanOut(r)
    PROVE  VoicesTypes'
<1> PICK to : to = {x \in (voicesSubscribers \cup Voices!Given) \X Messenger : x[2] \in voicesPrefs[x[1]]}
  OBVIOUS
<1> PICK t : t = [step |-> "send", voice |-> voicesTask[r].voice, to |-> to]
  OBVIOUS
<1>1. voicesTask[r].voice \in Message
  BY VoicesStages DEF VoicesTypes, Voices!FanOut, VoicesFanning
<1>2. to \in SUBSET (VoicesDonor \X Messenger)
  BY DEF VoicesTypes, Voices!TypeOK, Voices!Given
<1>3. t \in VoicesTasks /\ t.step = "send"
  BY <1>1, <1>2 DEF VoicesTasks, VoicesSending
<1>4. Voices!Continue(r, t)
  BY DEF Voices!FanOut
<1> QED BY <1>3, <1>4, VoicesGoesOn DEF VoicesTypes, Voices!TypeOK, Voices!FanOut

LEMMA VoicesSendTypes ==
    ASSUME VoicesTypes, NEW r \in Hand, Voices!Send(r) \/ Voices!MessengerFails(r)
    PROVE  VoicesTypes'
<1> PICK old : old = voicesTask[r]
  OBVIOUS
<1>1. old \in VoicesSending
  BY VoicesStages DEF VoicesTypes, Voices!Send, Voices!MessengerFails
<1>2. Voices!Idle \in VoicesTasks /\ Voices!Idle.step = "idle"
  BY DEF VoicesTasks, Voices!Idle
<1>3. \A x : LET t == [old EXCEPT !.to = @ \ {x}] IN t \in VoicesTasks /\ t.step = "send"
  BY <1>1 DEF VoicesTasks, VoicesSending
<1>4. \E t \in VoicesTasks : t.step \in {"send", "idle"} /\ Voices!Continue(r, t)
  BY <1>2, <1>3 DEF Voices!Send, Voices!MessengerFails
<1>5. voicesSent' \subseteq [to : VoicesDonor, channel : Messenger, voice : Message]
  <2>1. old.voice \in Message /\ \A x \in old.to : x[1] \in VoicesDonor /\ x[2] \in Messenger
    BY <1>1 DEF VoicesSending
  <2>2. CASE voicesSent' = voicesSent
    BY <2>2 DEF VoicesTypes, Voices!TypeOK
  <2>3. CASE voicesSent' # voicesSent
    <3>1. PICK x \in old.to :
             voicesSent' = voicesSent \cup {[to |-> x[1], channel |-> x[2], voice |-> old.voice]}
      BY <2>3 DEF Voices!Send, Voices!MessengerFails
    <3> QED BY <2>1, <3>1 DEF VoicesTypes, Voices!TypeOK
  <2> QED BY <2>2, <2>3
<1>6. UNCHANGED <<voicesRaised, voicesGifts, voicesSubscribers, voicesTold, voicesPrefs, voicesVoices, voicesSeen,
                  voicesProvider, voicesStops>>
  BY DEF Voices!Send, Voices!MessengerFails
<1> QED BY <1>4, <1>5, <1>6, VoicesGoesOn DEF VoicesTypes, Voices!TypeOK

LEMMA VoicesRestTypes ==
    ASSUME VoicesTypes,
           \/ \E r \in Hand, u \in VoicesDonor, ch \in Messenger, in \in BOOLEAN : Voices!SetPref(r, u, ch, in)
           \/ \E u \in VoicesDonor : Voices!MarkRead(u)
           \/ UNCHANGED Voices!vars
    PROVE  VoicesTypes'
BY DEF VoicesTypes, Voices!TypeOK, Voices!SetPref, Voices!MarkRead, Voices!vars
-----------------------------------------------------------------------------
(* What is reached is covered.                                             *)

\* Who announces goes on announcing, what was told stays told.
VoicesGoes ==
    /\ \A r \in Voices!Announcing :
          /\ r \in Voices!Announcing'
          /\ voicesTask'[r].prev = voicesTask[r].prev /\ voicesTask'[r].new = voicesTask[r].new
    /\ \A u \in VoicesDonor, e \in Voices!Events : voicesTold'[u][e] >= voicesTold[u][e]
    /\ voicesStops' >= voicesStops

LEMMA VoicesCoveredStays ==
    ASSUME VoicesTypes, VoicesTypes', VoicesGoes, NEW m \in Voices!Events, VoicesCovered(m)
    PROVE  VoicesCovered(m)'
<1>1. CASE voicesStops > 0
  BY <1>1 DEF VoicesGoes, VoicesCovered, VoicesTypes, Voices!TypeOK
<1>2. CASE \E u \in VoicesDonor : voicesTold[u][m] > 0
  <2>1. \A u \in VoicesDonor : voicesTold[u][m] \in Nat /\ voicesTold'[u][m] \in Nat
    BY DEF VoicesTypes, Voices!TypeOK
  <2> QED BY <1>2, <2>1 DEF VoicesGoes, VoicesCovered
<1>3. CASE \E r \in Voices!Announcing : m \in Voices!Crossed(voicesTask[r].prev, voicesTask[r].new)
  <2>1. PICK r \in Voices!Announcing : m \in Voices!Crossed(voicesTask[r].prev, voicesTask[r].new)
    BY <1>3
  <2>2. m \in Voices!Crossed(voicesTask'[r].prev, voicesTask'[r].new) /\ r \in Voices!Announcing'
    BY <2>1 DEF VoicesGoes
  <2> QED BY <2>2 DEF VoicesCovered, Voices!Crossed
<1> QED BY <1>1, <1>2, <1>3 DEF VoicesCovered

\* Of milestones that were reached, nothing is lost.
LEMMA VoicesAllStaysCovered ==
    ASSUME VoicesTypes, VoicesTypes', VoicesAllCovered, VoicesGoes,
           voicesRaised' = voicesRaised,
           \A r \in Hand : voicesTask'[r] \in VoicesGiving =>
               \/ voicesTask'[r].prev = voicesRaised
               \/ voicesTask[r] \in VoicesGiving /\ voicesTask'[r].prev = voicesTask[r].prev
    PROVE  VoicesAllCovered'
<1>1. \A x \in 0 .. VoicesGoal : VoicesReached(x) \subseteq Voices!Events
  BY VoicesConstants, VoicesCrossedIsNew
<1>2. voicesRaised \in 0 .. VoicesGoal /\ \A r \in Hand : voicesTask[r] \in VoicesGiving => voicesTask[r].prev \in 0 .. VoicesGoal
  BY DEF VoicesTypes, Voices!TypeOK, VoicesGiving
<1>3. \A m \in VoicesReached(voicesRaised) : VoicesCovered(m)'
  BY <1>1, <1>2, VoicesCoveredStays DEF VoicesAllCovered
<1>4. \A r \in Hand : voicesTask[r] \in VoicesGiving =>
         \A m \in VoicesReached(voicesTask[r].prev) : VoicesCovered(m)'
  BY <1>1, <1>2, VoicesCoveredStays DEF VoicesAllCovered
<1> QED BY <1>3, <1>4 DEF VoicesAllCovered, VoicesReached

LEMMA VoicesRecordCovers ==
    ASSUME VoicesTypes, VoicesTypes', VoicesAllCovered, NEW r \in Hand, Voices!Record(r)
    PROVE  VoicesAllCovered'
<1> PICK old : old = voicesTask[r]
  OBVIOUS
<1> PICK t : t = [old EXCEPT !.step = "thank"]
  OBVIOUS
<1>1. old \in VoicesGiving /\ old.step = "record"
  BY VoicesStages DEF VoicesTypes, Voices!Record
<1>2. t \in VoicesGiving /\ t \in VoicesTasks /\ t.step = "thank" /\ t.prev = old.prev /\ t.new = old.new
  BY <1>1 DEF VoicesGiving, VoicesTasks
<1>3. /\ voicesTask'[r] = t /\ \A q \in Hand \ {r} : voicesTask'[q] = voicesTask[q]
  BY <1>2, VoicesGoesOn DEF Voices!Record
<1>4. /\ voicesRaised' = old.new
      /\ UNCHANGED <<voicesTold, voicesStops, voicesSubscribers>>
  BY DEF Voices!Record
<1>5. \A q \in Voices!Announcing : q \in Hand /\ q # r
  BY <1>1 DEF Voices!Announcing
<1>6. VoicesGoes
  <2>1. \A u \in VoicesDonor, e \in Voices!Events : voicesTold[u][e] \in Nat
    BY DEF VoicesTypes, Voices!TypeOK
  <2>2. voicesStops \in Int
    BY VoicesConstants DEF VoicesTypes, Voices!TypeOK
  <2>3. \A q \in Voices!Announcing : q \in Voices!Announcing' /\ voicesTask'[q] = voicesTask[q]
    BY <1>3, <1>5 DEF Voices!Announcing
  <2> QED BY <1>4, <2>1, <2>2, <2>3 DEF VoicesGoes
<1>7. old.prev \in 0 .. VoicesGoal /\ old.new \in 0 .. VoicesGoal
  BY <1>1 DEF VoicesGiving
<1>8. \A x \in 0 .. VoicesGoal : VoicesReached(x) \subseteq Voices!Events
  BY VoicesConstants, VoicesCrossedIsNew
<1>9. \A q \in Hand : voicesTask[q] \in VoicesGiving =>
         \A m \in VoicesReached(voicesTask[q].prev) : VoicesCovered(m)'
  <2>1. \A q \in Hand : voicesTask[q] \in VoicesGiving => voicesTask[q].prev \in 0 .. VoicesGoal
    BY DEF VoicesGiving
  <2> QED BY <1>6, <1>8, <2>1, VoicesCoveredStays DEF VoicesAllCovered
<1>10. \A m \in VoicesReached(old.new) : VoicesCovered(m)'
  <2> SUFFICES ASSUME NEW m \in VoicesReached(old.new), m \notin VoicesReached(old.prev)
               PROVE  VoicesCovered(m)'
    BY <1>1, <1>9
  <2>1. m \in Voices!Crossed(t.prev, t.new)
    BY <1>2, <1>7, VoicesConstants, VoicesCrossedIsNew
  <2>2. r \in Voices!Announcing'
    BY <1>2, <1>3 DEF Voices!Announcing
  <2> QED BY <1>3, <2>1, <2>2 DEF VoicesCovered, Voices!Crossed
<1>11. \A q \in Hand : voicesTask'[q] \in VoicesGiving =>
          voicesTask[q] \in VoicesGiving /\ voicesTask'[q].prev = voicesTask[q].prev
  BY <1>1, <1>2, <1>3
<1> QED BY <1>4, <1>9, <1>10, <1>11 DEF VoicesAllCovered, VoicesReached

LEMMA VoicesThankCovers ==
    ASSUME VoicesTypes, VoicesTypes', VoicesAllCovered, NEW r \in Hand, Voices!Thank(r)
    PROVE  VoicesAllCovered'
<1> PICK old : old = voicesTask[r]
  OBVIOUS
<1> PICK t : t = [old EXCEPT !.step = "announce"]
  OBVIOUS
<1>1. old \in VoicesGiving /\ old.step = "thank"
  BY VoicesStages DEF VoicesTypes, Voices!Thank
<1>2. t \in VoicesGiving /\ t \in VoicesTasks /\ t.step = "announce" /\ t.prev = old.prev /\ t.new = old.new
  BY <1>1 DEF VoicesGiving, VoicesTasks
<1>3. /\ voicesTask'[r] = t /\ \A q \in Hand \ {r} : voicesTask'[q] = voicesTask[q]
  BY <1>2, VoicesGoesOn DEF Voices!Thank
<1>4. /\ UNCHANGED <<voicesRaised, voicesStops>>
      /\ voicesTold' = [voicesTold EXCEPT ![old.donor][Voices!ThankYou] = @ + 1]
  BY DEF Voices!Thank
<1>5. \A u \in VoicesDonor, e \in Voices!Events : voicesTold'[u][e] >= voicesTold[u][e]
  <2>1. \A u \in VoicesDonor, e \in Voices!Events : voicesTold[u][e] \in Nat
    BY DEF VoicesTypes, Voices!TypeOK
  <2>2. voicesTold \in [VoicesDonor -> [Voices!Events -> Nat]]
    BY DEF VoicesTypes, Voices!TypeOK
  <2> QED BY <1>4, <2>1, <2>2
<1>6. voicesStops' >= voicesStops
  BY <1>4, VoicesConstants DEF VoicesTypes, Voices!TypeOK
<1>7. \A q \in Hand : /\ voicesTask'[q] \in VoicesGiving => voicesTask[q] \in VoicesGiving
                                                   /\ voicesTask'[q].prev = voicesTask[q].prev
                      /\ q \in Voices!Announcing => q \in Voices!Announcing'
                                                /\ voicesTask'[q].prev = voicesTask[q].prev
                                                /\ voicesTask'[q].new = voicesTask[q].new
  BY <1>1, <1>2, <1>3 DEF Voices!Announcing
<1> QED BY <1>4, <1>5, <1>6, <1>7, VoicesAllStaysCovered DEF VoicesGoes, Voices!Announcing

\* Who announces tells the donor, at least.
LEMMA VoicesAnnounceCovers ==
    ASSUME VoicesTypes, VoicesTypes', VoicesAllCovered, NEW r \in Hand, Voices!Announce(r)
    PROVE  VoicesAllCovered'
<1> PICK old : old = voicesTask[r]
  OBVIOUS
<1>1. old \in VoicesGiving /\ old.step = "announce" /\ old.donor \in VoicesDonor \cap voicesSubscribers
  BY VoicesStages DEF VoicesTypes, Voices!Announce, VoicesGiving
<1>2. Voices!Idle \in VoicesTasks /\ Voices!Idle \notin VoicesGiving /\ Voices!Idle.step = "idle"
  BY DEF VoicesTasks, Voices!Idle, VoicesGiving
<1>3. voicesTask'[r] = Voices!Idle /\ \A q \in Hand \ {r} : voicesTask'[q] = voicesTask[q]
  BY <1>2, VoicesGoesOn DEF Voices!Announce
<1> PICK pairs : pairs = voicesSubscribers \X Voices!Crossed(old.prev, old.new)
  OBVIOUS
<1>4. UNCHANGED <<voicesRaised, voicesStops>> /\ Voices!Deliver(pairs)
  BY DEF Voices!Announce
<1>5. /\ \A u \in VoicesDonor, e \in Voices!Events : voicesTold[u][e] \in Nat
      /\ voicesStops \in Int
  BY VoicesConstants DEF VoicesTypes, Voices!TypeOK
<1>6. \A u \in VoicesDonor, e \in Voices!Events :
         /\ <<u, e>> \in pairs => voicesTold'[u][e] = voicesTold[u][e] + 1
         /\ <<u, e>> \notin pairs => voicesTold'[u][e] = voicesTold[u][e]
  BY <1>4, VoicesDelivers DEF VoicesTypes
<1>7. ASSUME NEW m \in Voices!Events, VoicesCovered(m)
      PROVE  VoicesCovered(m)'
  <2>1. CASE voicesStops > 0
    BY <1>4, <2>1 DEF VoicesCovered
  <2>2. CASE \E u \in VoicesDonor : voicesTold[u][m] > 0
    <3>1. \A u \in VoicesDonor : voicesTold'[u][m] >= voicesTold[u][m] /\ voicesTold[u][m] \in Nat
      <4> TAKE u \in VoicesDonor
      <4>1. voicesTold[u][m] \in Nat
        BY <1>5
      <4>2. CASE <<u, m>> \in pairs
        BY <1>6, <4>1, <4>2
      <4>3. CASE <<u, m>> \notin pairs
        BY <1>6, <4>1, <4>3
      <4> QED BY <4>1, <4>2, <4>3
    <3>2. \A u \in VoicesDonor : voicesTold'[u][m] \in Nat
      BY DEF VoicesTypes, Voices!TypeOK
    <3>3. PICK u \in VoicesDonor : voicesTold[u][m] > 0
      BY <2>2
    <3>4. voicesTold'[u][m] > 0
      BY <3>1, <3>2, <3>3
    <3> QED BY <3>4 DEF VoicesCovered
  <2>3. CASE \E q \in Voices!Announcing : m \in Voices!Crossed(voicesTask[q].prev, voicesTask[q].new)
    <3>1. PICK q \in Voices!Announcing : m \in Voices!Crossed(voicesTask[q].prev, voicesTask[q].new)
      BY <2>3
    <3>2. CASE q = r
      <4>1. <<old.donor, m>> \in pairs
        BY <1>1, <3>1, <3>2
      <4>2. voicesTold'[old.donor][m] > 0
        BY <1>1, <1>5, <1>6, <4>1
      <4> QED BY <1>1, <4>2 DEF VoicesCovered
    <3>3. CASE q # r
      BY <1>3, <3>1, <3>3 DEF VoicesCovered, Voices!Announcing, Voices!Crossed
    <3> QED BY <3>2, <3>3
  <2> QED BY <1>7, <2>1, <2>2, <2>3 DEF VoicesCovered
<1>8. /\ \A x \in 0 .. VoicesGoal : VoicesReached(x) \subseteq Voices!Events
      /\ voicesRaised \in 0 .. VoicesGoal
      /\ \A q \in Hand : voicesTask[q] \in VoicesGiving => voicesTask[q].prev \in 0 .. VoicesGoal
  BY VoicesConstants, VoicesCrossedIsNew DEF VoicesTypes, Voices!TypeOK, VoicesGiving
<1>9. /\ \A m \in VoicesReached(voicesRaised) : VoicesCovered(m)'
      /\ \A q \in Hand : voicesTask[q] \in VoicesGiving =>
            \A m \in VoicesReached(voicesTask[q].prev) : VoicesCovered(m)'
  BY <1>7, <1>8 DEF VoicesAllCovered
<1>10. \A q \in Hand : voicesTask'[q] \in VoicesGiving => voicesTask'[q] = voicesTask[q]
  BY <1>2, <1>3
<1> QED BY <1>4, <1>9, <1>10 DEF VoicesAllCovered, VoicesReached

\* A request that ended in the middle excuses what is not told.
LEMMA VoicesStopCovers ==
    ASSUME VoicesTypes, VoicesTypes', NEW r \in Hand, Voices!Stop(r)
    PROVE  VoicesAllCovered'
<1>1. voicesStops' > 0
  BY VoicesConstants DEF VoicesTypes, Voices!TypeOK, Voices!Stop
<1> QED BY <1>1 DEF VoicesAllCovered, VoicesCovered

\* All other steps announce nothing.
LEMMA VoicesRestCovers ==
    ASSUME VoicesTypes, VoicesTypes', VoicesAllCovered, 
           UNCHANGED <<voicesRaised, voicesStops>>,
           \A u \in VoicesDonor, e \in Voices!Events : voicesTold'[u][e] >= voicesTold[u][e],
           \A r \in Hand : \/ voicesTask'[r] = voicesTask[r]
                           \/ /\ voicesTask[r] \notin VoicesGiving
                              /\ voicesTask'[r] \in VoicesGiving => /\ voicesTask'[r].step = "record"
                                                            /\ voicesTask'[r].prev = voicesRaised
    PROVE  VoicesAllCovered'
<1>1. \A r \in Voices!Announcing : r \in Hand /\ voicesTask[r] \in VoicesGiving
  BY VoicesStages DEF Voices!Announcing, VoicesTypes
<1>2. \A r \in Voices!Announcing : r \in Voices!Announcing' /\ voicesTask'[r] = voicesTask[r]
  BY <1>1 DEF Voices!Announcing
<1>3. voicesStops' >= voicesStops
  BY VoicesConstants DEF VoicesTypes, Voices!TypeOK
<1>4. VoicesGoes
  BY <1>2, <1>3 DEF VoicesGoes
<1> QED BY <1>4, VoicesAllStaysCovered

\* What the environment may ask for is a provider of messengers.
LEMMA VoicesWanted == WantedMessengers \subseteq {"mock", "whatsapp", "telegram"}
BY CommunityAssumption DEF Voices!ImpactFeedAssumption
-----------------------------------------------------------------------------
(* Voice messages that moderation rejects.                                 *)

\* Only what has no reason to be rejected is approved, on its way, or out.
VoicesHidden ==
    /\ \A v \in DOMAIN voicesVoices : voicesVoices[v] = "APPROVED" => v = {}
    /\ \A r \in Hand : voicesTask[r].step \in {"fan", "send"} => voicesTask[r].voice = {}
    /\ \A s \in voicesSent : s.voice = {}

VoicesInv == VoicesTypes /\ VoicesAllCovered /\ VoicesHidden

\* A request that is not about a voice message.
LEMMA VoicesOtherHidden ==
    ASSUME VoicesTypes, VoicesHidden, NEW r \in Hand, NEW t \in VoicesTasks, Voices!Continue(r, t),
           t.step \notin {"fan", "send"}, UNCHANGED <<voicesVoices, voicesSent>>
    PROVE  VoicesHidden'
<1>1. voicesTask'[r] = t /\ \A q \in Hand \ {r} : voicesTask'[q] = voicesTask[q]
  BY VoicesGoesOn
<1> QED BY <1>1 DEF VoicesHidden

\* Steps of the donors keep the invariant.
LEMMA VoicesDonorStep ==
    ASSUME VoicesInv, NEW r \in Hand, Voices!DonorStep(r)
    PROVE  VoicesInv'
<1>1. VoicesTypes /\ VoicesAllCovered /\ VoicesHidden
  BY DEF VoicesInv
<1>2. ASSUME NEW u \in VoicesDonor, NEW amount \in VoicesAmount, Voices!Give(r, u, amount)
      PROVE  VoicesInv'
  <2>1. VoicesTypes'
    BY <1>1, <1>2, VoicesGiveTypes
  <2>2. \A q \in Hand : \/ voicesTask'[q] = voicesTask[q]
                        \/ /\ voicesTask[q] \notin VoicesGiving
                           /\ voicesTask'[q].step = "record" /\ voicesTask'[q].prev = voicesRaised
    BY <1>1, <1>2 DEF Voices!Give, Voices!Continue, VoicesTypes, VoicesGiving, Voices!Idle
  <2>3. UNCHANGED <<voicesRaised, voicesStops, voicesTold, voicesVoices, voicesSent>>
        /\ \A u1 \in VoicesDonor, e \in Voices!Events : voicesTold[u1][e] \in Nat
    BY <1>1, <1>2 DEF Voices!Give, VoicesTypes, Voices!TypeOK
  <2>4. VoicesAllCovered'
    BY <1>1, <2>1, <2>2, <2>3, VoicesRestCovers
  <2>5. VoicesHidden'
    BY <1>1, <2>2, <2>3 DEF VoicesHidden
  <2> QED BY <2>1, <2>4, <2>5 DEF VoicesInv
<1>3. CASE Voices!Record(r) \/ Voices!Thank(r)
  <2> PICK old : old = voicesTask[r]
    OBVIOUS
  <2>1. old \in VoicesGiving
    BY <1>1, <1>3, VoicesStages DEF VoicesTypes, Voices!Record, Voices!Thank
  <2>2. \A s \in {"thank", "announce"} : LET t == [old EXCEPT !.step = s]
                                         IN  t \in VoicesTasks /\ t.step \notin {"fan", "send"}
    BY <2>1 DEF VoicesGiving, VoicesTasks
  <2>3. UNCHANGED <<voicesVoices, voicesSent>>
    BY <1>3 DEF Voices!Record, Voices!Thank
  <2>4. \E s \in {"thank", "announce"} : Voices!Continue(r, [old EXCEPT !.step = s])
    BY <1>3 DEF Voices!Record, Voices!Thank
  <2>5. VoicesHidden'
    BY <1>1, <2>2, <2>3, <2>4, VoicesOtherHidden
  <2>6. VoicesTypes' /\ VoicesAllCovered'
    BY <1>1, <1>3, VoicesRecordTypes, VoicesRecordCovers, VoicesThankTypes, VoicesThankCovers
  <2> QED BY <2>5, <2>6 DEF VoicesInv
<1>4. CASE Voices!Announce(r)
  <2>1. VoicesTypes' /\ VoicesAllCovered'
    BY <1>1, <1>4, VoicesAnnounceTypes, VoicesAnnounceCovers
  <2>2. /\ Voices!Idle \in VoicesTasks /\ Voices!Idle.step = "idle"
        /\ Voices!Continue(r, Voices!Idle) /\ UNCHANGED <<voicesVoices, voicesSent>>
    BY <1>4 DEF VoicesTasks, Voices!Idle, Voices!Announce
  <2>3. VoicesHidden'
    BY <1>1, <2>2, VoicesOtherHidden
  <2> QED BY <2>1, <2>3 DEF VoicesInv
<1>5. ASSUME NEW u \in VoicesDonor, NEW ch \in Messenger, NEW in \in BOOLEAN,
             Voices!SetPref(r, u, ch, in)
      PROVE  VoicesInv'
  <2>1. UNCHANGED <<voicesRaised, voicesStops, voicesTask, voicesTold, voicesVoices, voicesSent>>
    BY <1>5 DEF Voices!SetPref
  <2>2. VoicesTypes' /\ \A w \in VoicesDonor, e \in Voices!Events : voicesTold[w][e] \in Nat
    BY <1>1, <1>5, VoicesRestTypes DEF VoicesTypes, Voices!TypeOK
  <2>3. VoicesAllCovered'
    BY <1>1, <2>1, <2>2, VoicesRestCovers
  <2> QED BY <1>1, <2>1, <2>2, <2>3 DEF VoicesInv, VoicesHidden
<1> QED BY <1>2, <1>3, <1>4, <1>5 DEF Voices!DonorStep

\* Telling, or not telling, does not take back what was told.
LEMMA VoicesToldGrows ==
    ASSUME VoicesTypes, (\E pairs : Voices!Deliver(pairs)) \/ UNCHANGED voicesTold
    PROVE  \A u \in VoicesDonor, e \in Voices!Events : voicesTold'[u][e] >= voicesTold[u][e]
<1> TAKE u \in VoicesDonor, e \in Voices!Events
<1>1. voicesTold[u][e] \in Nat
  BY DEF VoicesTypes, Voices!TypeOK
<1>2. ASSUME NEW pairs, Voices!Deliver(pairs)
      PROVE  voicesTold'[u][e] >= voicesTold[u][e]
  <2>1. CASE <<u, e>> \in pairs
    BY <1>1, <1>2, <2>1, VoicesDelivers DEF VoicesTypes
  <2>2. CASE <<u, e>> \notin pairs
    BY <1>1, <1>2, <2>2, VoicesDelivers DEF VoicesTypes
  <2> QED BY <2>1, <2>2
<1> QED BY <1>1, <1>2

\* Steps of the student: a message goes on only if it was approved.
LEMMA VoicesStudentHidden ==
    ASSUME VoicesTypes, VoicesHidden, NEW r \in Hand, Voices!StudentStep(r)
    PROVE  VoicesHidden'
<1>1. voicesTask \in [Hand -> VoicesTasks]
  BY DEF VoicesTypes
<1>2. CASE Voices!PostUpdate(r)
  BY <1>2 DEF Voices!PostUpdate, VoicesHidden
<1>3. ASSUME NEW voice \in Message, Voices!SubmitVoice(r, voice)
      PROVE  VoicesHidden'
  <2> PICK t : t = IF Voices!ModerateVoice(voice) = "APPROVED" THEN [step |-> "fan", voice |-> voice]
                   ELSE Voices!Idle
    OBVIOUS
  <2>1. t.step = "fan" => t.voice = {} /\ t.step \in {"fan", "idle"}
    BY DEF Voices!ModerateVoice, Voices!Idle
  <2>2. t.step \in {"fan", "idle"}
    BY DEF Voices!ModerateVoice, Voices!Idle
  <2>3. voicesTask' = [voicesTask EXCEPT ![r] = t] /\ UNCHANGED voicesSent
    BY <1>3 DEF Voices!SubmitVoice, Voices!Continue
  <2>4. \A v \in DOMAIN voicesVoices' : voicesVoices'[v] = "APPROVED" => v = {}
    BY <1>3 DEF Voices!SubmitVoice, Voices!ModerateVoice, VoicesHidden
  <2>5. \A q \in Hand : voicesTask'[q].step \in {"fan", "send"} => voicesTask'[q].voice = {}
    BY <1>1, <2>1, <2>2, <2>3 DEF VoicesHidden
  <2> QED BY <2>3, <2>4, <2>5 DEF VoicesHidden
<1>4. CASE Voices!FanOut(r)
  BY <1>1, <1>4 DEF Voices!FanOut, Voices!Continue, VoicesHidden
<1>5. CASE Voices!Send(r) \/ Voices!MessengerFails(r)
  <2> PICK old : old = voicesTask[r]
    OBVIOUS
  <2>1. old \in VoicesSending /\ old.voice = {}
    BY <1>1, <1>5, VoicesStages DEF Voices!Send, Voices!MessengerFails, VoicesHidden
  <2>2. \A x : LET t == [old EXCEPT !.to = @ \ {x}] IN t.voice = {}
    BY <2>1 DEF VoicesSending
  <2>3. \E t : voicesTask' = [voicesTask EXCEPT ![r] = t] /\ (t.step \in {"fan", "send"} => t.voice = {})
    BY <1>5, <2>2 DEF Voices!Send, Voices!MessengerFails, Voices!Continue, Voices!Idle
  <2>4. \A s \in voicesSent' : s.voice = {}
    <3>1. \/ voicesSent' = voicesSent
          \/ \E x \in old.to :
                voicesSent' = voicesSent \cup {[to |-> x[1], channel |-> x[2], voice |-> old.voice]}
      BY <1>5 DEF Voices!Send, Voices!MessengerFails
    <3> QED BY <2>1, <3>1 DEF VoicesHidden
  <2>5. UNCHANGED voicesVoices
    BY <1>5 DEF Voices!Send, Voices!MessengerFails
  <2> QED BY <1>1, <2>3, <2>4, <2>5 DEF VoicesHidden
<1> QED BY <1>2, <1>3, <1>4, <1>5 DEF Voices!StudentStep

LEMMA VoicesStudentStep ==
    ASSUME VoicesInv, NEW r \in Hand, Voices!StudentStep(r)
    PROVE  VoicesInv'
<1>1. VoicesTypes /\ VoicesAllCovered /\ VoicesHidden
  BY DEF VoicesInv
<1>2. VoicesTypes'
  BY <1>1, VoicesPostUpdateTypes, VoicesSubmitVoiceTypes, VoicesFanOutTypes, VoicesSendTypes
  DEF Voices!StudentStep
<1>3. UNCHANGED <<voicesRaised, voicesStops>>
  BY DEF Voices!StudentStep, Voices!PostUpdate, Voices!SubmitVoice, Voices!FanOut, Voices!Send,
         Voices!MessengerFails
<1>4. (\E pairs : Voices!Deliver(pairs)) \/ UNCHANGED voicesTold
  BY DEF Voices!StudentStep, Voices!PostUpdate, Voices!SubmitVoice, Voices!FanOut, Voices!Send,
         Voices!MessengerFails
<1>5. \A u \in VoicesDonor, e \in Voices!Events : voicesTold'[u][e] >= voicesTold[u][e]
  BY <1>1, <1>4, VoicesToldGrows
<1>6. \A q \in Hand : \/ voicesTask'[q] = voicesTask[q]
                      \/ voicesTask[q] \notin VoicesGiving /\ voicesTask'[q] \notin VoicesGiving
  <2>1. CASE voicesTask' = voicesTask
    BY <2>1
  <2>2. CASE voicesTask' # voicesTask
    <3>1. voicesTask[r].step \in {"idle", "fan", "send"}
      <4>1. voicesTask[r] = Voices!Idle \/ voicesTask[r].step \in {"fan", "send"}
        BY DEF Voices!StudentStep, Voices!PostUpdate, Voices!SubmitVoice, Voices!FanOut,
               Voices!Send, Voices!MessengerFails
      <4> QED BY <4>1 DEF Voices!Idle
    <3>2. \E t : voicesTask' = [voicesTask EXCEPT ![r] = t] /\ t.step \in {"idle", "fan", "send"}
      <4>1. CASE \E voice \in Message : Voices!SubmitVoice(r, voice)
        <5>1. PICK voice \in Message : Voices!SubmitVoice(r, voice)
          BY <4>1
        <5> PICK t : t = IF Voices!ModerateVoice(voice) = "APPROVED"
                         THEN [step |-> "fan", voice |-> voice] ELSE Voices!Idle
          OBVIOUS
        <5>2. t.step \in {"idle", "fan"}
          BY DEF Voices!Idle
        <5>3. voicesTask' = [voicesTask EXCEPT ![r] = t]
          BY <5>1 DEF Voices!SubmitVoice, Voices!Continue
        <5> QED BY <5>2, <5>3
      <4>2. CASE Voices!FanOut(r)
        <5> PICK to : to = {x \in (voicesSubscribers \cup Voices!Given) \X Messenger :
                               x[2] \in voicesPrefs[x[1]]}
          OBVIOUS
        <5> PICK t : t = [step |-> "send", voice |-> voicesTask[r].voice, to |-> to]
          OBVIOUS
        <5>1. voicesTask' = [voicesTask EXCEPT ![r] = t] /\ t.step = "send"
          BY <4>2 DEF Voices!FanOut, Voices!Continue
        <5> QED BY <5>1
      <4>3. CASE Voices!Send(r) \/ Voices!MessengerFails(r)
        <5> PICK old : old = voicesTask[r]
          OBVIOUS
        <5>1. old \in VoicesSending
          BY <1>1, <4>3, VoicesStages DEF VoicesTypes, Voices!Send, Voices!MessengerFails
        <5>2. \A x : LET t == [old EXCEPT !.to = @ \ {x}] IN t.step = "send"
          BY <5>1 DEF VoicesSending
        <5> QED BY <4>3, <5>2 DEF Voices!Send, Voices!MessengerFails, Voices!Continue, Voices!Idle
      <4> QED BY <2>2, <4>1, <4>2, <4>3 DEF Voices!StudentStep, Voices!PostUpdate
    <3>3. voicesTask \in [Hand -> VoicesTasks]
      BY <1>1 DEF VoicesTypes
    <3> QED BY <3>1, <3>2, <3>3 DEF VoicesGiving
  <2> QED BY <2>1, <2>2
<1>7. VoicesAllCovered'
  BY <1>1, <1>2, <1>3, <1>5, <1>6, VoicesRestCovers
<1>8. VoicesHidden'
  BY <1>1, VoicesStudentHidden
<1> QED BY <1>2, <1>7, <1>8 DEF VoicesInv

LEMMA VoicesRestStep ==
    ASSUME VoicesInv,
           \/ \E r \in Hand : Voices!Stop(r)
           \/ \E u \in VoicesDonor : Voices!MarkRead(u)
           \/ UNCHANGED Voices!vars
    PROVE  VoicesInv'
<1>1. VoicesTypes /\ VoicesAllCovered /\ VoicesHidden
  BY DEF VoicesInv
<1>2. ASSUME NEW r \in Hand, Voices!Stop(r)
      PROVE  VoicesInv'
  <2>1. VoicesTypes' /\ VoicesAllCovered'
    BY <1>1, <1>2, VoicesStopTypes, VoicesStopCovers
  <2>2. /\ Voices!Idle \in VoicesTasks /\ Voices!Idle.step = "idle"
        /\ Voices!Continue(r, Voices!Idle) /\ UNCHANGED <<voicesVoices, voicesSent>>
    BY <1>2 DEF VoicesTasks, Voices!Idle, Voices!Stop
  <2>3. VoicesHidden'
    BY <1>1, <2>2, VoicesOtherHidden
  <2> QED BY <2>1, <2>3 DEF VoicesInv
<1>3. CASE (\E u \in VoicesDonor : Voices!MarkRead(u)) \/ UNCHANGED Voices!vars
  <2>1. UNCHANGED <<voicesRaised, voicesTold, voicesTask, voicesStops, voicesVoices, voicesSent>>
    BY <1>3 DEF Voices!MarkRead, Voices!vars
  <2>2. VoicesTypes'
    BY <1>1, <1>3, VoicesRestTypes
  <2>3. VoicesAllCovered'
    BY <1>1, <2>1, <2>2, VoicesToldGrows, VoicesRestCovers
  <2> QED BY <1>1, <2>1, <2>2, <2>3 DEF VoicesInv, VoicesHidden
<1> QED BY <1>2, <1>3

LEMMA VoicesInitially == ASSUME AllInit PROVE VoicesInv
<1>1. Voices!Init
  BY DEF AllInit
<1>2. /\ voicesTask \in [Hand -> VoicesTasks] /\ voicesRaised = 0
      /\ \A r \in Hand : voicesTask[r].step = "idle" /\ voicesTask[r] \notin VoicesGiving
      /\ voicesTold \in [VoicesDonor -> [Voices!Events -> Nat]]
  BY <1>1 DEF Voices!Init, VoicesTasks, Voices!Idle, VoicesGiving
<1>3. VoicesReached(0) = {}
  <2>1. \A m \in Voices!Milestones : m * VoicesGoal \in Nat \ {0}
    BY VoicesConstants DEF Voices!Milestones
  <2> QED BY <2>1 DEF VoicesReached, Voices!Milestones
<1>4. voicesProvider \in {"mock", "whatsapp", "telegram"}
  BY <1>1, VoicesWanted DEF Voices!Init, Voices!SelectProvider
<1>5. VoicesTypes
  BY <1>1, <1>2, <1>4, VoicesConstants DEF VoicesTypes, Voices!TypeOK, Voices!Init
<1>6. VoicesAllCovered
  BY <1>2, <1>3 DEF VoicesAllCovered
<1>7. VoicesHidden
  BY <1>1, <1>2 DEF VoicesHidden, Voices!Init
<1> QED BY <1>5, <1>6, <1>7 DEF VoicesInv

LEMMA VoicesNext == ASSUME VoicesInv, [AllNext]_allVars PROVE VoicesInv'
<1>1. [Voices!Next]_(Voices!vars)
  BY VoicesSteps
<1>2. CASE Voices!Next
  BY <1>2, VoicesDonorStep, VoicesStudentStep, VoicesRestStep DEF Voices!Next
<1>3. CASE UNCHANGED Voices!vars
  BY <1>3, VoicesRestStep
<1> QED BY <1>1, <1>2, <1>3

\* The invariant says that no milestone is missed, and that feeds show only what is
\* approved.
LEMMA VoicesSuffices ==
    ASSUME VoicesInv
    PROVE  Voices!TypeOK /\ Voices!NoMilestoneIsMissed /\ Voices!RejectedStaysHidden
<1>1. Voices!TypeOK /\ Voices!NoMilestoneIsMissed
  BY DEF VoicesInv, VoicesTypes, VoicesAllCovered, VoicesReached, VoicesCovered,
         Voices!NoMilestoneIsMissed
<1>2. \A v \in Message : <<"VOICE", v>> \in Voices!Items =>
                            v \in DOMAIN voicesVoices /\ voicesVoices[v] = "APPROVED"
  BY DEF Voices!Items
<1>3. Voices!RejectedStaysHidden
  BY <1>2 DEF VoicesInv, VoicesHidden, Voices!RejectedStaysHidden, Voices!Feed
<1> QED BY <1>1, <1>3
-----------------------------------------------------------------------------
\* Whatever the donors, amounts, goals, messages and messengers: no milestone is
\* missed unless a request ended in the middle, none is told twice as long as requests
\* do not overlap, and what moderation rejects reaches nobody (onDonation,
\* moderateVoice, feedSources).
THEOREM NewsIsAlwaysComplete == AllSpec => []NewsIsComplete
<1>1. AllInit => FeedInv /\ VoicesInv
  BY FeedInitially, VoicesInitially
<1>2. FeedInv /\ VoicesInv /\ [AllNext]_allVars => (FeedInv /\ VoicesInv)'
  BY FeedNext, VoicesNext
<1>3. FeedInv /\ VoicesInv => NewsIsComplete
  BY FeedSuffices, VoicesSuffices DEF NewsIsComplete
<1> QED BY <1>1, <1>2, <1>3, PTL DEF AllSpec
-----------------------------------------------------------------------------
(* WebCheckout: while a visit is quiet at most one gift is in flight, what *)
(* it was said to cost is what the server computes, and the page knows     *)
(* what is raised, or will when the answer comes.                          *)

\* A step of the whole is one of the page, or leaves it alone.
LEMMA CheckoutSteps == [AllNext]_allVars => [Checkout!Next]_(Checkout!vars)
BY DEF AllNext, OtherParts, allVars, checkout, Checkout!vars

LEMMA CheckoutConstants ==
    /\ CheckoutGoal \in Nat \ {0} /\ CheckoutAmount \subseteq Nat \ {0}
    /\ CheckoutMaxGifts \in Nat /\ CheckoutMaxCalls \in Nat
BY WebAssumption DEF Checkout!CheckoutAssumption

CheckoutCallKinds == {"donate", "monthly", "sponsor", "offer", "claim"}
CheckoutCall ==
    [kind : CheckoutCallKinds, nr : Nat, amount : CheckoutAmount \cup {0},
     tier : Checkout!Tier \cup {"NONE"}, said : 0 .. CheckoutGoal, at : {"sent", "done"},
     total : 0 .. CheckoutGoal]

CheckoutTypes ==
    /\ Checkout!TypeOK
    /\ IsFiniteSet(checkoutCalls) /\ checkoutCalls \subseteq CheckoutCall
    /\ \A c \in checkoutCalls : /\ c.kind = "sponsor" => c.tier \in Checkout!Tier
                                /\ Checkout!IsGift(c) => checkoutDetail.loaded = TRUE
                                /\ c.at = "done" => Checkout!IsGift(c)

\* While nobody else gives, gifts do not overlap and no answer is lost.
QuietVisit ==
    /\ \A c, d \in checkoutCalls : Checkout!IsGift(c) /\ Checkout!IsGift(d) => c = d
    /\ \A c \in checkoutCalls : Checkout!IsGift(c) /\ c.at = "done" => c.total = checkoutRaised
    /\ checkoutDetail.loaded = TRUE
       /\ (\A c \in checkoutCalls : Checkout!IsGift(c) => c.at = "sent")
       => checkoutDetail.raised = checkoutRaised
    /\ \A c \in checkoutCalls : c.kind = "sponsor" /\ c.at = "sent" =>
          c.said = Checkout!TierAmount(c.tier, checkoutDetail.raised)

CheckoutInv ==
    /\ CheckoutTypes
    /\ checkoutQuiet = TRUE => QuietVisit
    /\ Checkout!ButtonTellsTheCharge

\* What a tier costs is part of the goal.
LEMMA TierIsPartOfGoal ==
    ASSUME NEW tier \in Checkout!Tier, NEW x \in 0 .. CheckoutGoal
    PROVE  Checkout!TierAmount(tier, x) \in 0 .. CheckoutGoal
<1>1. Checkout!Gap(x) \in 0 .. CheckoutGoal
  BY CheckoutConstants DEF Checkout!Gap
<1>2. \A n \in {2, 4} : Checkout!Rounded(CheckoutGoal, n) \in Nat
  BY CheckoutConstants DEF Checkout!Rounded
<1>3. \A y \in Nat : Checkout!Least(Checkout!Gap(x), y) \in 0 .. CheckoutGoal
  BY <1>1, CheckoutConstants DEF Checkout!Least
<1> QED BY <1>1, <1>2, <1>3 DEF Checkout!TierAmount, Checkout!Tier

\* What is given never takes more than the gap.
LEMMA GiftFillsTheGap ==
    ASSUME NEW x \in Nat, NEW y \in 0 .. CheckoutGoal
    PROVE  y + Checkout!Least(x, Checkout!Gap(y)) \in 0 .. CheckoutGoal
BY CheckoutConstants DEF Checkout!Least, Checkout!Gap

\* There are no more calls than were sent.
LEMMA CallsAreCounted ==
    ASSUME CheckoutTypes
    PROVE  /\ checkoutSent \in Nat /\ IsFiniteSet(checkoutCalls)
           /\ Cardinality(checkoutCalls) \in Nat /\ Cardinality(checkoutCalls) <= checkoutSent
<1>1. checkoutSent \in 0 .. CheckoutMaxCalls /\ IsFiniteSet(checkoutCalls)
      /\ Checkout!Cardinality(checkoutCalls) <= checkoutSent
  BY DEF CheckoutTypes, Checkout!TypeOK
<1>2. Cardinality(checkoutCalls) <= checkoutSent
  BY <1>1 DEF Checkout!Cardinality, Cardinality
<1>3. Cardinality(checkoutCalls) \in Nat
  BY <1>1, FS_CardinalityType
<1> QED BY <1>1, <1>2, <1>3, CheckoutConstants

\* One call more.
OneCallMore(kind, amount, tier, said) ==
    \E c \in CheckoutCall :
        /\ checkoutCalls' = checkoutCalls \cup {c}
        /\ c.kind = kind /\ c.amount = amount /\ c.tier = tier /\ c.said = said
        /\ c.at = "sent"
        /\ IsFiniteSet(checkoutCalls')
        /\ Checkout!Cardinality(checkoutCalls') <= checkoutSent'
        /\ checkoutSent' \in 0 .. CheckoutMaxCalls

LEMMA SendTypes ==
    ASSUME CheckoutTypes, NEW kind \in CheckoutCallKinds, NEW amount \in CheckoutAmount \cup {0},
           NEW tier \in Checkout!Tier \cup {"NONE"}, NEW said \in 0 .. CheckoutGoal,
           Checkout!Send(kind, amount, tier, said)
    PROVE  OneCallMore(kind, amount, tier, said)
<1> PICK c : c = [kind |-> kind, nr |-> checkoutSent + 1, amount |-> amount, tier |-> tier,
                  said |-> said, at |-> "sent", total |-> 0]
  OBVIOUS
<1> PICK old : old = checkoutCalls
  OBVIOUS
<1>1. /\ checkoutSent \in Nat /\ checkoutSent < CheckoutMaxCalls
      /\ Cardinality(old) <= checkoutSent /\ IsFiniteSet(old) /\ Cardinality(old) \in Nat
      /\ checkoutSent' = checkoutSent + 1 /\ checkoutCalls' = old \cup {c}
  BY CallsAreCounted DEF Checkout!Send
<1>2. c \in CheckoutCall
  BY <1>1, CheckoutConstants DEF CheckoutCall
<1>3. /\ IsFiniteSet(old \cup {c})
      /\ Cardinality(old \cup {c}) = IF c \in old THEN Cardinality(old) ELSE Cardinality(old) + 1
  BY <1>1, FS_AddElement
<1>4. Checkout!Cardinality(checkoutCalls') <= checkoutSent'
  <2>1. Cardinality(old \cup {c}) <= checkoutSent + 1
    BY <1>1, <1>3
  <2> QED BY <1>1, <2>1 DEF Checkout!Cardinality, Cardinality
<1>5. checkoutSent' \in 0 .. CheckoutMaxCalls
  BY <1>1, CheckoutConstants
<1> QED BY <1>1, <1>2, <1>3, <1>4, <1>5 DEF OneCallMore

\* One call less, or none; and perhaps one in place of it.
LEMMA AnswerTypes ==
    ASSUME CheckoutTypes, UNCHANGED checkoutSent,
           \/ checkoutCalls' \subseteq checkoutCalls
           \/ \E c \in checkoutCalls : \E d : checkoutCalls' = (checkoutCalls \ {c}) \cup {d}
    PROVE  IsFiniteSet(checkoutCalls') /\ Checkout!Cardinality(checkoutCalls') <= checkoutSent'
<1> PICK old : old = checkoutCalls
  OBVIOUS
<1>1. /\ Cardinality(old) <= checkoutSent /\ IsFiniteSet(old) /\ checkoutSent \in Nat
      /\ Cardinality(old) \in Nat
  BY CallsAreCounted
<1>2. ASSUME NEW new, new \subseteq old
      PROVE  IsFiniteSet(new) /\ Cardinality(new) \in Nat /\ Cardinality(new) <= Cardinality(old)
  <2>1. IsFiniteSet(new) /\ Cardinality(new) <= Cardinality(old)
    BY <1>1, <1>2, FS_Subset
  <2> QED BY <2>1, FS_CardinalityType
<1>3. ASSUME NEW c \in old, NEW d
      PROVE  /\ IsFiniteSet((old \ {c}) \cup {d})
             /\ Cardinality((old \ {c}) \cup {d}) <= Cardinality(old)
  <2> PICK rest : rest = old \ {c}
    OBVIOUS
  <2>1. IsFiniteSet(rest) /\ Cardinality(rest) = Cardinality(old) - 1
    BY <1>1, FS_RemoveElement
  <2>2. /\ IsFiniteSet(rest \cup {d})
        /\ Cardinality(rest \cup {d}) = IF d \in rest THEN Cardinality(rest)
                                        ELSE Cardinality(rest) + 1
    BY <2>1, FS_AddElement
  <2> QED BY <1>1, <2>1, <2>2
<1>4. IsFiniteSet(checkoutCalls') /\ Cardinality(checkoutCalls') <= Cardinality(old)
  <2>1. CASE checkoutCalls' \subseteq checkoutCalls
    BY <1>2, <2>1
  <2>2. CASE \E c \in checkoutCalls : \E d : checkoutCalls' = (checkoutCalls \ {c}) \cup {d}
    BY <1>3, <2>2
  <2> QED BY <2>1, <2>2
<1>5. Cardinality(checkoutCalls') <= checkoutSent
  <2>1. Cardinality(checkoutCalls') \in Nat
    BY <1>4, FS_CardinalityType
  <2> QED BY <1>1, <1>4, <2>1
<1> QED BY <1>4, <1>5 DEF Checkout!Cardinality, Cardinality

\* Cards and boxes with a field changed.
CardType == [amount : CheckoutAmount, monthly : BOOLEAN, submitting : BOOLEAN, success : BOOLEAN,
             monthlyStarted : BOOLEAN, gift : CheckoutAmount \cup {0}]
BoxType == [tier : Checkout!Tier, submitting : BOOLEAN, result : 0 .. CheckoutGoal]
DetailType == [loaded : BOOLEAN, raised : 0 .. CheckoutGoal, donors : Nat]

LEMMA FieldsKeepTypes ==
    /\ \A x \in CheckoutAmount : Checkout!FreshCard(x) \in CardType
    /\ \A card \in CardType, x \in CheckoutAmount, m \in BOOLEAN :
          /\ [card EXCEPT !.amount = x, !.monthly = m] \in CardType
          /\ [card EXCEPT !.submitting = m] \in CardType
          /\ [card EXCEPT !.submitting = FALSE, !.success = TRUE, !.gift = x] \in CardType
          /\ [card EXCEPT !.submitting = FALSE, !.success = TRUE, !.monthlyStarted = TRUE]
                \in CardType
    /\ \A box \in BoxType, t \in Checkout!Tier, m \in BOOLEAN, x \in 0 .. CheckoutGoal :
          /\ [box EXCEPT !.tier = t] \in BoxType
          /\ [box EXCEPT !.submitting = m] \in BoxType
          /\ [box EXCEPT !.submitting = FALSE, !.result = x] \in BoxType
<1>1. \A x \in CheckoutAmount : Checkout!FreshCard(x) \in CardType
  BY DEF Checkout!FreshCard, CardType
<1>2. \A card \in CardType, x \in CheckoutAmount, m \in BOOLEAN :
          /\ [card EXCEPT !.amount = x, !.monthly = m] \in CardType
          /\ [card EXCEPT !.submitting = m] \in CardType
          /\ [card EXCEPT !.submitting = FALSE, !.success = TRUE, !.gift = x] \in CardType
          /\ [card EXCEPT !.submitting = FALSE, !.success = TRUE, !.monthlyStarted = TRUE]
                \in CardType
  BY DEF CardType
<1>3. \A box \in BoxType, t \in Checkout!Tier, m \in BOOLEAN, x \in 0 .. CheckoutGoal :
          /\ [box EXCEPT !.tier = t] \in BoxType
          /\ [box EXCEPT !.submitting = m] \in BoxType
          /\ [box EXCEPT !.submitting = FALSE, !.result = x] \in BoxType
  BY DEF BoxType
<1> QED BY <1>1, <1>2, <1>3

LEMMA CheckoutFacts ==
    CheckoutTypes =>
        /\ checkoutCard \in CardType /\ checkoutBox \in BoxType /\ checkoutDetail \in DetailType
        /\ checkoutRaised \in 0 .. CheckoutGoal
        /\ checkoutGifts \in 0 .. CheckoutMaxGifts /\ checkoutSent \in 0 .. CheckoutMaxCalls
        /\ checkoutQuiet \in BOOLEAN /\ checkoutRole \in {"DONOR", "SPONSOR"}
BY DEF CheckoutTypes, Checkout!TypeOK, CardType, BoxType, DetailType
-----------------------------------------------------------------------------
\* Types come together from those of what changes.
LEMMA CheckoutTypesOf ==
    ASSUME CheckoutTypes,
           checkoutRole' = checkoutRole, checkoutRaised' \in 0 .. CheckoutGoal,
           checkoutGifts' \in 0 .. CheckoutMaxGifts, checkoutDetail' \in DetailType,
           checkoutCard' \in CardType, checkoutBox' \in BoxType,
           checkoutOffer' \in {"ask", "checking", "not found", "offered", "claiming", "claimed"},
           checkoutSent' \in 0 .. CheckoutMaxCalls, IsFiniteSet(checkoutCalls'),
           Checkout!Cardinality(checkoutCalls') <= checkoutSent',
           checkoutCalls' \subseteq CheckoutCall,
           \A c \in checkoutCalls' : /\ c.kind = "sponsor" => c.tier \in Checkout!Tier
                                     /\ Checkout!IsGift(c) => checkoutDetail'.loaded = TRUE
                                     /\ c.at = "done" => Checkout!IsGift(c),
           checkoutQuiet' \in BOOLEAN
    PROVE  CheckoutTypes'
BY CheckoutFacts DEF CheckoutTypes, Checkout!TypeOK, DetailType, CardType, BoxType, Checkout!IsGift

\* A gift of somebody else, a page that comes up.
LEMMA ElsewhereStep ==
    ASSUME CheckoutInv, NEW x \in CheckoutAmount, Checkout!Elsewhere(x)
    PROVE  CheckoutInv'
<1>1. CheckoutTypes /\ CheckoutTypes
  BY DEF CheckoutInv
<1>2. /\ checkoutRaised' = checkoutRaised + Checkout!Least(x, Checkout!Gap(checkoutRaised))
      /\ checkoutGifts' = checkoutGifts + 1 /\ checkoutGifts < CheckoutMaxGifts
      /\ UNCHANGED <<checkoutRole, checkoutDetail, checkoutCard, checkoutBox, checkoutOffer,
                     checkoutCalls, checkoutSent, checkoutCharges>>
      /\ checkoutQuiet' = (checkoutQuiet /\ ~checkoutDetail.loaded)
  BY DEF Checkout!Elsewhere
<1>3. checkoutRaised' \in 0 .. CheckoutGoal /\ checkoutGifts' \in 0 .. CheckoutMaxGifts
  <2>1. x \in Nat /\ checkoutRaised \in 0 .. CheckoutGoal
    BY <1>1, CheckoutFacts, CheckoutConstants
  <2>2. checkoutRaised' \in 0 .. CheckoutGoal
    BY <1>2, <2>1, GiftFillsTheGap
  <2>3. checkoutGifts' \in 0 .. CheckoutMaxGifts
    BY <1>1, <1>2, CheckoutFacts, CheckoutConstants
  <2> QED BY <2>2, <2>3
<1>4. checkoutQuiet' \in BOOLEAN
  BY <1>2
<1>5. CheckoutTypes'
  BY <1>1, <1>2, <1>3, <1>4 DEF CheckoutTypes, Checkout!TypeOK, Checkout!IsGift
<1>6. checkoutQuiet' = TRUE => checkoutQuiet = TRUE /\ checkoutDetail.loaded # TRUE
  BY <1>1, <1>2, CheckoutFacts DEF DetailType
<1>7. checkoutQuiet' = TRUE => QuietVisit'
  BY <1>1, <1>2, <1>6 DEF CheckoutInv, CheckoutTypes, QuietVisit, Checkout!IsGift
<1> QED BY <1>2, <1>5, <1>7 DEF CheckoutInv, Checkout!ButtonTellsTheCharge

LEMMA PageLoadedStep ==
    ASSUME CheckoutInv, Checkout!PageLoaded
    PROVE  CheckoutInv'
<1>1. CheckoutTypes
  BY DEF CheckoutInv
<1>2. /\ checkoutDetail' = [loaded |-> TRUE, raised |-> checkoutRaised, donors |-> checkoutGifts]
      /\ UNCHANGED <<checkoutRole, checkoutRaised, checkoutGifts, checkoutCard, checkoutBox,
                     checkoutOffer, checkoutCalls, checkoutSent, checkoutCharges, checkoutQuiet>>
      /\ checkoutDetail.loaded # TRUE
  BY DEF Checkout!PageLoaded
<1>3. checkoutDetail' \in DetailType /\ checkoutDetail'.loaded = TRUE
      /\ checkoutDetail'.raised = checkoutRaised
  BY <1>1, <1>2, CheckoutFacts, CheckoutConstants DEF DetailType
<1>4. CheckoutTypes'
  BY <1>1, <1>2, <1>3 DEF CheckoutTypes, Checkout!TypeOK, Checkout!IsGift, DetailType
<1>5. \A c \in checkoutCalls : ~Checkout!IsGift(c) /\ c.kind # "sponsor"
  BY <1>1, <1>2 DEF CheckoutTypes, Checkout!IsGift
<1>6. QuietVisit'
  BY <1>2, <1>3, <1>5 DEF QuietVisit, Checkout!IsGift
<1> QED BY <1>2, <1>4, <1>6 DEF CheckoutInv, Checkout!ButtonTellsTheCharge

\* What the visitor does to a form alone, or to the calls about a match.
LEMMA FormStep ==
    ASSUME CheckoutInv, checkoutCard' \in CardType, checkoutBox' \in BoxType,
           checkoutOffer' \in {"ask", "checking", "not found", "offered", "claiming", "claimed"},
           checkoutCalls' \subseteq checkoutCalls,
           \A c \in checkoutCalls \ checkoutCalls' : ~Checkout!IsGift(c),
           UNCHANGED <<checkoutRole, checkoutRaised, checkoutGifts, checkoutDetail, checkoutSent,
                       checkoutCharges, checkoutQuiet>>
    PROVE  CheckoutInv'
<1>1. CheckoutTypes
  BY DEF CheckoutInv
<1>2. IsFiniteSet(checkoutCalls') /\ Checkout!Cardinality(checkoutCalls') <= checkoutSent'
  BY <1>1, AnswerTypes
<1>3. /\ checkoutCalls' \subseteq CheckoutCall
      /\ \A c \in checkoutCalls' : /\ c.kind = "sponsor" => c.tier \in Checkout!Tier
                                   /\ Checkout!IsGift(c) => checkoutDetail'.loaded = TRUE
                                   /\ c.at = "done" => Checkout!IsGift(c)
  BY <1>1 DEF CheckoutTypes
<1>4. CheckoutTypes'
  BY <1>1, <1>2, <1>3, CheckoutFacts, CheckoutTypesOf
<1>5. checkoutQuiet' = TRUE => QuietVisit'
  BY DEF CheckoutInv, QuietVisit, Checkout!IsGift
<1> QED BY <1>4, <1>5 DEF CheckoutInv, Checkout!ButtonTellsTheCharge

\* Nothing is part of the goal.
LEMMA NothingIsPartOfGoal == 0 \in 0 .. CheckoutGoal
BY CheckoutConstants

\* A call that is no gift.
LEMMA OtherCallStep ==
    ASSUME CheckoutInv, NEW kind \in {"monthly", "offer", "claim"},
           NEW amount \in CheckoutAmount \cup {0}, Checkout!Send(kind, amount, "NONE", 0),
           checkoutCard' \in CardType,
           checkoutOffer' \in {"ask", "checking", "not found", "offered", "claiming", "claimed"},
           UNCHANGED <<checkoutRole, checkoutRaised, checkoutGifts, checkoutDetail, checkoutBox,
                       checkoutCharges, checkoutQuiet>>
    PROVE  CheckoutInv'
<1>1. CheckoutTypes
  BY DEF CheckoutInv
<1>2. kind \in CheckoutCallKinds /\ "NONE" \in Checkout!Tier \cup {"NONE"} /\ 0 \in 0 .. CheckoutGoal
  <2>1. kind \in CheckoutCallKinds
    BY DEF CheckoutCallKinds
  <2> QED BY <2>1, NothingIsPartOfGoal
<1>3. PICK c \in CheckoutCall :
        /\ checkoutCalls' = checkoutCalls \cup {c} /\ c.kind = kind /\ c.at = "sent"
        /\ IsFiniteSet(checkoutCalls')
        /\ Checkout!Cardinality(checkoutCalls') <= checkoutSent'
        /\ checkoutSent' \in 0 .. CheckoutMaxCalls
  <2>1. OneCallMore(kind, amount, "NONE", 0)
    BY <1>1, <1>2, SendTypes
  <2> QED BY <2>1 DEF OneCallMore
<1>4. ~Checkout!IsGift(c) /\ c.kind # "sponsor"
  BY <1>3 DEF Checkout!IsGift
<1>5. /\ checkoutCalls' \subseteq CheckoutCall
      /\ \A d \in checkoutCalls' : /\ d.kind = "sponsor" => d.tier \in Checkout!Tier
                                   /\ Checkout!IsGift(d) => checkoutDetail'.loaded = TRUE
                                   /\ d.at = "done" => Checkout!IsGift(d)
  BY <1>1, <1>3, <1>4 DEF CheckoutTypes
<1>6. CheckoutTypes'
  BY <1>1, <1>3, <1>5, CheckoutFacts, CheckoutTypesOf
<1>7. checkoutQuiet' = TRUE => QuietVisit'
  BY <1>3, <1>4 DEF CheckoutInv, QuietVisit, Checkout!IsGift
<1> QED BY <1>6, <1>7 DEF CheckoutInv, Checkout!ButtonTellsTheCharge

\* A gift, with what the box said if it is of the box.
LEMMA GiftCallStep ==
    ASSUME CheckoutInv, NEW kind \in {"donate", "sponsor"},
           NEW amount \in CheckoutAmount \cup {0}, NEW tier \in Checkout!Tier \cup {"NONE"},
           NEW said \in 0 .. CheckoutGoal, Checkout!Send(kind, amount, tier, said),
           kind = "sponsor" =>
               tier \in Checkout!Tier /\ said = Checkout!TierAmount(tier, checkoutDetail.raised),
           checkoutDetail.loaded = TRUE,
           checkoutCard' \in CardType, checkoutBox' \in BoxType,
           checkoutQuiet' = (checkoutQuiet /\ ~Checkout!GiftInFlight),
           UNCHANGED <<checkoutRole, checkoutRaised, checkoutGifts, checkoutDetail, checkoutOffer,
                       checkoutCharges>>
    PROVE  CheckoutInv'
<1>1. CheckoutTypes
  BY DEF CheckoutInv
<1>2. PICK c \in CheckoutCall :
        /\ checkoutCalls' = checkoutCalls \cup {c} /\ c.kind = kind /\ c.tier = tier
        /\ c.said = said /\ c.at = "sent"
        /\ IsFiniteSet(checkoutCalls')
        /\ Checkout!Cardinality(checkoutCalls') <= checkoutSent'
        /\ checkoutSent' \in 0 .. CheckoutMaxCalls
  <2>1. kind \in CheckoutCallKinds
    BY DEF CheckoutCallKinds
  <2>2. OneCallMore(kind, amount, tier, said)
    BY <1>1, <2>1, SendTypes
  <2> QED BY <2>2 DEF OneCallMore
<1>3. /\ checkoutCalls' \subseteq CheckoutCall
      /\ \A d \in checkoutCalls' : /\ d.kind = "sponsor" => d.tier \in Checkout!Tier
                                   /\ Checkout!IsGift(d) => checkoutDetail'.loaded = TRUE
                                   /\ d.at = "done" => Checkout!IsGift(d)
  BY <1>1, <1>2 DEF CheckoutTypes
<1>4. checkoutQuiet' \in BOOLEAN
  OBVIOUS
<1>5. checkoutOffer' \in {"ask", "checking", "not found", "offered", "claiming", "claimed"}
  BY <1>1 DEF CheckoutTypes, Checkout!TypeOK
<1>6. CheckoutTypes'
  BY <1>1, <1>2, <1>3, <1>4, <1>5, CheckoutFacts, CheckoutTypesOf
<1>7. checkoutQuiet' = TRUE => /\ checkoutQuiet = TRUE
                               /\ \A d \in checkoutCalls : ~Checkout!IsGift(d) /\ d.kind # "sponsor"
  <2>1. checkoutQuiet \in BOOLEAN
    BY <1>1, CheckoutFacts
  <2>2. checkoutQuiet' = TRUE => checkoutQuiet = TRUE /\ ~Checkout!GiftInFlight
    BY <2>1
  <2> QED BY <2>2 DEF Checkout!GiftInFlight, Checkout!IsGift
<1>8. checkoutQuiet' = TRUE => QuietVisit'
  <2> SUFFICES ASSUME checkoutQuiet' = TRUE PROVE QuietVisit'
    OBVIOUS
  <2>1. QuietVisit /\ \A d \in checkoutCalls : ~Checkout!IsGift(d) /\ d.kind # "sponsor"
    BY <1>7 DEF CheckoutInv
  <2>2. checkoutDetail.raised = checkoutRaised
    BY <2>1 DEF QuietVisit
  <2>3. \A d \in checkoutCalls' : Checkout!IsGift(d) \/ d.kind = "sponsor" => d = c
    BY <1>2, <2>1
  <2> QED BY <1>2, <2>2, <2>3 DEF QuietVisit, Checkout!IsGift
<1> QED BY <1>6, <1>8 DEF CheckoutInv, Checkout!ButtonTellsTheCharge

LEMMA SubmitGiftStep ==
    ASSUME CheckoutInv, Checkout!Submit
    PROVE  CheckoutInv'
<1>1. CheckoutTypes /\ checkoutCard \in CardType /\ checkoutBox \in BoxType
  BY CheckoutFacts DEF CheckoutInv
<1>2. checkoutCard' \in CardType /\ checkoutCard.amount \in CheckoutAmount
  <2>1. checkoutCard' = [checkoutCard EXCEPT !.submitting = TRUE]
    BY DEF Checkout!Submit
  <2> QED BY <1>1, <2>1, FieldsKeepTypes DEF CardType
<1>3. /\ checkoutDetail.loaded = TRUE
      /\ UNCHANGED <<checkoutRole, checkoutRaised, checkoutGifts, checkoutDetail, checkoutBox,
                     checkoutOffer, checkoutCharges>>
  BY <1>1, CheckoutFacts DEF Checkout!Submit, DetailType
<1>4. checkoutOffer \in {"ask", "checking", "not found", "offered", "claiming", "claimed"}
  BY <1>1 DEF CheckoutTypes, Checkout!TypeOK
<1>5. CASE checkoutCard.monthly /\ checkoutRole = "DONOR"
  <2>1. Checkout!Send("monthly", checkoutCard.amount, "NONE", 0) /\ UNCHANGED checkoutQuiet
    BY <1>5 DEF Checkout!Submit
  <2> QED BY <1>2, <1>3, <1>4, <2>1, OtherCallStep
<1>6. CASE ~(checkoutCard.monthly /\ checkoutRole = "DONOR")
  <2>1. /\ Checkout!Send("donate", checkoutCard.amount, "NONE", 0)
        /\ checkoutQuiet' = (checkoutQuiet /\ ~Checkout!GiftInFlight)
    BY <1>6 DEF Checkout!Submit
  <2>2. 0 \in 0 .. CheckoutGoal /\ "NONE" \in Checkout!Tier \cup {"NONE"}
    BY CheckoutConstants
  <2> QED BY <1>1, <1>2, <1>3, <2>1, <2>2, GiftCallStep
<1> QED BY <1>5, <1>6

LEMMA SponsorCallStep ==
    ASSUME CheckoutInv, Checkout!Sponsor
    PROVE  CheckoutInv'
<1>1. CheckoutTypes /\ checkoutCard \in CardType /\ checkoutBox \in BoxType
      /\ checkoutDetail \in DetailType
  BY CheckoutFacts DEF CheckoutInv
<1>2. checkoutBox' \in BoxType /\ checkoutBox.tier \in Checkout!Tier
  <2>1. checkoutBox' = [checkoutBox EXCEPT !.submitting = TRUE]
    BY DEF Checkout!Sponsor
  <2>2. \A b \in BoxType : [b EXCEPT !.submitting = TRUE] \in BoxType /\ b.tier \in Checkout!Tier
    BY DEF BoxType
  <2> QED BY <1>1, <2>1, <2>2
<1>3. Checkout!Said \in 0 .. CheckoutGoal
  BY <1>1, <1>2, TierIsPartOfGoal DEF Checkout!Said, DetailType
<1>4. /\ checkoutDetail.loaded = TRUE
      /\ Checkout!Send("sponsor", 0, checkoutBox.tier, Checkout!Said)
      /\ checkoutQuiet' = (checkoutQuiet /\ ~Checkout!GiftInFlight)
      /\ UNCHANGED <<checkoutRole, checkoutRaised, checkoutGifts, checkoutDetail, checkoutCard,
                     checkoutOffer, checkoutCharges>>
  BY <1>1 DEF Checkout!Sponsor, DetailType
<1>5. Checkout!Said = Checkout!TierAmount(checkoutBox.tier, checkoutDetail.raised)
  BY DEF Checkout!Said
<1> QED BY <1>1, <1>2, <1>3, <1>4, <1>5, GiftCallStep

\* The other buttons.
LEMMA ButtonsStep ==
    ASSUME CheckoutInv,
           \/ \E x \in CheckoutAmount, m \in BOOLEAN : Checkout!FillIn(x, m)
           \/ Checkout!Reset \/ Checkout!CheckEmployer \/ Checkout!Claim
           \/ \E tier \in Checkout!Tier : Checkout!ChooseTier(tier)
           \/ Checkout!ResetBox \/ UNCHANGED Checkout!vars
    PROVE  CheckoutInv'
<1>1. CheckoutTypes /\ checkoutCard \in CardType /\ checkoutBox \in BoxType
  BY CheckoutFacts DEF CheckoutInv
<1>2. checkoutOffer \in {"ask", "checking", "not found", "offered", "claiming", "claimed"}
  BY <1>1 DEF CheckoutTypes, Checkout!TypeOK
<1>3. ASSUME NEW x \in CheckoutAmount, NEW m \in BOOLEAN, Checkout!FillIn(x, m)
      PROVE  CheckoutInv'
  <2>1. checkoutCard' \in CardType
    BY <1>1, <1>3, FieldsKeepTypes DEF Checkout!FillIn
  <2> QED BY <1>1, <1>2, <1>3, <2>1, FormStep DEF Checkout!FillIn
<1>4. CASE Checkout!Reset
  <2>1. checkoutCard' \in CardType
    BY <1>4, FieldsKeepTypes DEF Checkout!Reset
  <2>2. /\ checkoutCalls' \subseteq checkoutCalls
        /\ \A c \in checkoutCalls \ checkoutCalls' : ~Checkout!IsGift(c)
    BY <1>4 DEF Checkout!Reset, Checkout!IsGift
  <2> QED BY <1>1, <1>4, <2>1, <2>2, FormStep DEF Checkout!Reset
<1>5. CASE Checkout!CheckEmployer \/ Checkout!Claim
  <2>1. checkoutCard.gift \in CheckoutAmount \cup {0}
    BY <1>1 DEF CardType
  <2>2. \E kind \in {"offer", "claim"} : Checkout!Send(kind, checkoutCard.gift, "NONE", 0)
    BY <1>5 DEF Checkout!CheckEmployer, Checkout!Claim
  <2>3. /\ checkoutOffer' \in {"checking", "claiming"}
        /\ UNCHANGED <<checkoutRole, checkoutRaised, checkoutGifts, checkoutDetail, checkoutCard,
                       checkoutBox, checkoutCharges, checkoutQuiet>>
    BY <1>5 DEF Checkout!CheckEmployer, Checkout!Claim
  <2> QED BY <1>1, <2>1, <2>2, <2>3, OtherCallStep
<1>6. ASSUME NEW tier \in Checkout!Tier, Checkout!ChooseTier(tier)
      PROVE  CheckoutInv'
  <2>1. \A b \in BoxType : [b EXCEPT !.tier = tier] \in BoxType
    BY DEF BoxType
  <2>2. checkoutBox' \in BoxType
    BY <1>1, <1>6, <2>1 DEF Checkout!ChooseTier
  <2> QED BY <1>1, <1>2, <1>6, <2>2, FormStep DEF Checkout!ChooseTier
<1>7. CASE Checkout!ResetBox
  <2>1. checkoutBox' \in BoxType
    BY <1>7, CheckoutConstants DEF Checkout!ResetBox, BoxType, Checkout!Tier
  <2> QED BY <1>1, <1>2, <1>7, <2>1, FormStep DEF Checkout!ResetBox
<1>8. CASE UNCHANGED Checkout!vars
  BY <1>1, <1>2, <1>8, FormStep DEF Checkout!vars
<1> QED BY <1>3, <1>4, <1>5, <1>6, <1>7, <1>8
-----------------------------------------------------------------------------
\* The server books a gift; a quiet visit is charged what the box said.
LEMMA BookedStep ==
    ASSUME CheckoutInv, NEW c \in checkoutCalls, Checkout!Booked(c)
    PROVE  CheckoutInv'
<1> PICK cost : cost = Checkout!Cost(c)
  OBVIOUS
<1> PICK total : total = checkoutRaised'
  OBVIOUS
<1> PICK d : d = [c EXCEPT !.at = "done", !.total = total]
  OBVIOUS
<1>1. /\ CheckoutTypes /\ c \in CheckoutCall
      /\ c.kind = "sponsor" => c.tier \in Checkout!Tier
      /\ checkoutRaised \in 0 .. CheckoutGoal
  BY CheckoutFacts DEF CheckoutInv, CheckoutTypes
<1>2. /\ c.at = "sent" /\ Checkout!IsGift(c) /\ checkoutGifts < CheckoutMaxGifts
      /\ checkoutRaised' = checkoutRaised + Checkout!Least(cost, Checkout!Gap(checkoutRaised))
      /\ checkoutGifts' = checkoutGifts + 1
      /\ checkoutCalls' = (checkoutCalls \ {c}) \cup {d}
      /\ checkoutCharges' = IF c.kind = "sponsor"
           THEN checkoutCharges \cup {[said |-> c.said, cost |-> cost, fair |-> checkoutQuiet]}
           ELSE checkoutCharges
      /\ UNCHANGED <<checkoutRole, checkoutDetail, checkoutCard, checkoutBox, checkoutOffer,
                     checkoutSent, checkoutQuiet>>
  BY DEF Checkout!Booked
<1>3. cost \in Nat
  <2>1. CASE c.kind = "sponsor"
    BY <1>1, <2>1, TierIsPartOfGoal, CheckoutConstants DEF Checkout!Cost
  <2>2. CASE c.kind # "sponsor"
    BY <1>1, <2>2, CheckoutConstants DEF Checkout!Cost, CheckoutCall
  <2> QED BY <2>1, <2>2
<1>4. checkoutRaised' \in 0 .. CheckoutGoal /\ checkoutGifts' \in 0 .. CheckoutMaxGifts
  BY <1>1, <1>2, <1>3, CheckoutFacts, CheckoutConstants, GiftFillsTheGap
<1>5. /\ d \in CheckoutCall /\ d.kind = c.kind /\ d.tier = c.tier /\ d.at = "done"
      /\ d.total = total
  BY <1>1, <1>4 DEF CheckoutCall
<1>6. IsFiniteSet(checkoutCalls') /\ Checkout!Cardinality(checkoutCalls') <= checkoutSent'
  BY <1>1, <1>2, AnswerTypes
<1>7. /\ checkoutCalls' \subseteq CheckoutCall
      /\ \A e \in checkoutCalls' : /\ e.kind = "sponsor" => e.tier \in Checkout!Tier
                                   /\ Checkout!IsGift(e) => checkoutDetail'.loaded = TRUE
                                   /\ e.at = "done" => Checkout!IsGift(e)
  BY <1>1, <1>2, <1>5 DEF CheckoutTypes, Checkout!IsGift
<1>8. checkoutOffer' \in {"ask", "checking", "not found", "offered", "claiming", "claimed"}
  BY <1>1, <1>2 DEF CheckoutTypes, Checkout!TypeOK
<1>9. CheckoutTypes'
  <2>1. /\ checkoutDetail' \in DetailType /\ checkoutCard' \in CardType /\ checkoutBox' \in BoxType
        /\ checkoutSent' \in 0 .. CheckoutMaxCalls /\ checkoutQuiet' \in BOOLEAN
    BY <1>1, <1>2, CheckoutFacts
  <2> QED BY <1>1, <1>2, <1>4, <1>6, <1>7, <1>8, <2>1, CheckoutTypesOf
<1>10. ASSUME checkoutQuiet = TRUE
       PROVE  QuietVisit' /\ (c.kind = "sponsor" => c.said = cost)
  <2>1. QuietVisit
    BY <1>10 DEF CheckoutInv
  <2>2. \A e \in checkoutCalls : Checkout!IsGift(e) => e = c
    BY <1>2, <2>1 DEF QuietVisit
  <2>3. \A e \in checkoutCalls' : Checkout!IsGift(e) \/ e.kind = "sponsor" => e = d
    BY <1>2, <2>2 DEF Checkout!IsGift
  <2>4. Checkout!IsGift(d)
    BY <1>2, <1>5 DEF Checkout!IsGift
  <2>5. QuietVisit'
    BY <1>2, <1>5, <2>3, <2>4 DEF QuietVisit, Checkout!IsGift
  <2>6. checkoutDetail.raised = checkoutRaised
    BY <1>1, <1>2, <2>1, <2>2 DEF QuietVisit, CheckoutTypes
  <2>7. c.kind = "sponsor" => c.said = cost
    BY <1>2, <2>1, <2>6 DEF QuietVisit, Checkout!Cost
  <2> QED BY <2>5, <2>7
<1>11. Checkout!ButtonTellsTheCharge'
  <2> SUFFICES ASSUME NEW x \in checkoutCharges', x.fair
               PROVE  x.said = x.cost
    BY DEF Checkout!ButtonTellsTheCharge
  <2>1. CASE x \in checkoutCharges
    BY <2>1 DEF CheckoutInv, Checkout!ButtonTellsTheCharge
  <2>2. CASE x \notin checkoutCharges
    <3>1. c.kind = "sponsor" /\ x = [said |-> c.said, cost |-> cost, fair |-> checkoutQuiet]
      BY <1>2, <2>2
    <3>2. checkoutQuiet = TRUE
      BY <1>1, <3>1, CheckoutFacts
    <3> QED BY <1>10, <3>1, <3>2
  <2> QED BY <2>1, <2>2
<1> QED BY <1>2, <1>9, <1>10, <1>11 DEF CheckoutInv

\* The page hears of its gift.
LEMMA GiftAnsweredStep ==
    ASSUME CheckoutInv, NEW c \in checkoutCalls, Checkout!GiftAnswered(c),
           Checkout!IsGift(c)
    PROVE  CheckoutInv'
<1>1. /\ CheckoutTypes /\ c \in CheckoutCall /\ checkoutDetail.loaded = TRUE
      /\ checkoutDetail \in DetailType /\ checkoutCard \in CardType /\ checkoutBox \in BoxType
  BY CheckoutFacts DEF CheckoutInv, CheckoutTypes
<1>2. /\ c.at = "done" /\ checkoutCalls' = checkoutCalls \ {c}
      /\ checkoutDetail' = [checkoutDetail EXCEPT !.raised = c.total, !.donors = @ + 1]
      /\ UNCHANGED <<checkoutRole, checkoutRaised, checkoutGifts, checkoutSent, checkoutCharges,
                     checkoutQuiet>>
  BY DEF Checkout!GiftAnswered, Checkout!ApplyResult
<1>3. /\ checkoutDetail' \in DetailType /\ checkoutDetail'.loaded = TRUE
      /\ checkoutDetail'.raised = c.total
  <2>1. c.total \in 0 .. CheckoutGoal
    BY <1>1 DEF CheckoutCall
  <2>2. /\ checkoutDetail'.loaded = TRUE /\ checkoutDetail'.raised = c.total
        /\ checkoutDetail'.donors = checkoutDetail.donors + 1
    BY <1>1, <1>2 DEF DetailType
  <2>3. checkoutDetail'.donors \in Nat
    BY <1>1, <2>2 DEF DetailType
  <2>4. checkoutDetail' = [loaded |-> checkoutDetail'.loaded, raised |-> checkoutDetail'.raised,
                           donors |-> checkoutDetail'.donors]
    BY <1>1, <1>2 DEF DetailType
  <2>5. checkoutDetail' \in DetailType
    BY <2>1, <2>2, <2>3, <2>4 DEF DetailType
  <2> QED BY <2>2, <2>5
<1>4. checkoutCard' \in CardType /\ checkoutBox' \in BoxType
      /\ checkoutOffer' \in {"ask", "checking", "not found", "offered", "claiming", "claimed"}
  <2>1. checkoutOffer \in {"ask", "checking", "not found", "offered", "claiming", "claimed"}
    BY <1>1 DEF CheckoutTypes, Checkout!TypeOK
  <2>2. CASE c.kind = "donate"
    <3>1. /\ checkoutCard' = [checkoutCard EXCEPT !.submitting = FALSE, !.success = TRUE,
                                                   !.gift = c.amount]
          /\ checkoutOffer' = "ask" /\ UNCHANGED checkoutBox
      BY <2>2 DEF Checkout!GiftAnswered
    <3>2. c.amount \in CheckoutAmount \cup {0}
      BY <1>1 DEF CheckoutCall
    <3>3. checkoutCard' \in CardType
      BY <1>1, <3>1, <3>2 DEF CardType
    <3> QED BY <1>1, <3>1, <3>3
  <2>3. CASE c.kind # "donate"
    <3>1. /\ checkoutBox' = [checkoutBox EXCEPT !.submitting = FALSE, !.result = c.said]
          /\ UNCHANGED <<checkoutCard, checkoutOffer>>
      BY <2>3 DEF Checkout!GiftAnswered
    <3>2. c.said \in 0 .. CheckoutGoal
      BY <1>1 DEF CheckoutCall
    <3>3. checkoutBox' \in BoxType
      BY <1>1, <3>1, <3>2 DEF BoxType
    <3> QED BY <1>1, <2>1, <3>1, <3>3
  <2> QED BY <2>2, <2>3
<1>5. IsFiniteSet(checkoutCalls') /\ Checkout!Cardinality(checkoutCalls') <= checkoutSent'
  <2>1. checkoutCalls' \subseteq checkoutCalls
    BY <1>2
  <2> QED BY <1>1, <1>2, <2>1, AnswerTypes
<1>6. /\ checkoutCalls' \subseteq CheckoutCall
      /\ \A e \in checkoutCalls' : /\ e.kind = "sponsor" => e.tier \in Checkout!Tier
                                   /\ Checkout!IsGift(e) => checkoutDetail'.loaded = TRUE
                                   /\ e.at = "done" => Checkout!IsGift(e)
  BY <1>1, <1>2, <1>3 DEF CheckoutTypes
<1>7. CheckoutTypes'
  <2>1. /\ checkoutRaised' \in 0 .. CheckoutGoal /\ checkoutGifts' \in 0 .. CheckoutMaxGifts
        /\ checkoutSent' \in 0 .. CheckoutMaxCalls /\ checkoutQuiet' \in BOOLEAN
    BY <1>1, <1>2, CheckoutFacts
  <2> QED BY <1>1, <1>2, <1>3, <1>4, <1>5, <1>6, <2>1, CheckoutTypesOf
<1>8. checkoutQuiet' = TRUE => QuietVisit'
  <2> SUFFICES ASSUME QuietVisit PROVE QuietVisit'
    BY <1>2 DEF CheckoutInv
  <2>1. c.total = checkoutRaised
    BY <1>2 DEF QuietVisit
  <2>2. \A e \in checkoutCalls' : ~Checkout!IsGift(e) /\ e.kind # "sponsor"
    BY <1>2 DEF QuietVisit, Checkout!IsGift
  <2> QED BY <1>2, <1>3, <2>1, <2>2 DEF QuietVisit, Checkout!IsGift
<1> QED BY <1>2, <1>7, <1>8 DEF CheckoutInv, Checkout!ButtonTellsTheCharge

LEMMA OtherAnsweredStep ==
    ASSUME CheckoutInv, NEW c \in checkoutCalls, Checkout!OtherAnswered(c)
    PROVE  CheckoutInv'
<1>1. CheckoutTypes /\ checkoutCard \in CardType /\ checkoutBox \in BoxType
  BY CheckoutFacts DEF CheckoutInv
<1>2. checkoutOffer \in {"ask", "checking", "not found", "offered", "claiming", "claimed"}
  BY <1>1 DEF CheckoutTypes, Checkout!TypeOK
<1>3. checkoutOffer' \in {"ask", "checking", "not found", "offered", "claiming", "claimed"}
  BY <1>2 DEF Checkout!OtherAnswered
<1>4. checkoutCard' \in CardType
  <2>1. \/ UNCHANGED checkoutCard
        \/ checkoutCard' = [checkoutCard EXCEPT !.submitting = FALSE, !.success = TRUE,
                                                 !.monthlyStarted = TRUE]
    BY DEF Checkout!OtherAnswered
  <2>2. \A k \in CardType : [k EXCEPT !.submitting = FALSE, !.success = TRUE,
                                      !.monthlyStarted = TRUE] \in CardType
    BY DEF CardType
  <2> QED BY <1>1, <2>1, <2>2
<1>5. /\ checkoutCalls' = checkoutCalls \ {c} /\ ~Checkout!IsGift(c)
      /\ UNCHANGED <<checkoutRole, checkoutRaised, checkoutGifts, checkoutDetail, checkoutBox,
                     checkoutSent, checkoutCharges, checkoutQuiet>>
  BY DEF Checkout!OtherAnswered
<1>6. /\ checkoutCalls' \subseteq checkoutCalls
      /\ \A d \in checkoutCalls \ checkoutCalls' : ~Checkout!IsGift(d)
  BY <1>5
<1> QED BY <1>1, <1>3, <1>4, <1>5, <1>6, FormStep

\* A gift that was not booked leaves things as they were.
LEMMA CallFailedStep ==
    ASSUME CheckoutInv, NEW c \in checkoutCalls, Checkout!CallFailed(c)
    PROVE  CheckoutInv'
<1>1. /\ CheckoutTypes /\ checkoutCard \in CardType /\ checkoutBox \in BoxType
      /\ checkoutDetail \in DetailType /\ checkoutQuiet \in BOOLEAN
  BY CheckoutFacts DEF CheckoutInv
<1>2. checkoutOffer \in {"ask", "checking", "not found", "offered", "claiming", "claimed"}
  BY <1>1 DEF CheckoutTypes, Checkout!TypeOK
<1>3. checkoutOffer' \in {"ask", "checking", "not found", "offered", "claiming", "claimed"}
  BY <1>2 DEF Checkout!CallFailed
<1>4. checkoutCard' \in CardType /\ checkoutBox' \in BoxType
  <2>1. /\ checkoutCard' = checkoutCard \/ checkoutCard' = [checkoutCard EXCEPT !.submitting = FALSE]
        /\ checkoutBox' = checkoutBox \/ checkoutBox' = [checkoutBox EXCEPT !.submitting = FALSE]
    BY DEF Checkout!CallFailed
  <2>2. \A k \in CardType : [k EXCEPT !.submitting = FALSE] \in CardType
    BY DEF CardType
  <2>3. \A k \in BoxType : [k EXCEPT !.submitting = FALSE] \in BoxType
    BY DEF BoxType
  <2> QED BY <1>1, <2>1, <2>2, <2>3
<1>5. /\ checkoutCalls' = checkoutCalls \ {c}
      /\ checkoutQuiet' = (checkoutQuiet /\ c.at = "sent")
      /\ UNCHANGED <<checkoutRole, checkoutRaised, checkoutGifts, checkoutDetail, checkoutSent,
                     checkoutCharges>>
  BY DEF Checkout!CallFailed
<1>6. IsFiniteSet(checkoutCalls') /\ Checkout!Cardinality(checkoutCalls') <= checkoutSent'
  <2>1. checkoutCalls' \subseteq checkoutCalls
    BY <1>5
  <2> QED BY <1>1, <1>5, <2>1, AnswerTypes
<1>7. /\ checkoutCalls' \subseteq CheckoutCall
      /\ \A e \in checkoutCalls' : /\ e.kind = "sponsor" => e.tier \in Checkout!Tier
                                   /\ Checkout!IsGift(e) => checkoutDetail'.loaded = TRUE
                                   /\ e.at = "done" => Checkout!IsGift(e)
  BY <1>1, <1>5 DEF CheckoutTypes
<1>8. CheckoutTypes'
  <2>1. checkoutQuiet' \in BOOLEAN
    BY <1>5
  <2>2. /\ checkoutRaised' \in 0 .. CheckoutGoal /\ checkoutGifts' \in 0 .. CheckoutMaxGifts
        /\ checkoutSent' \in 0 .. CheckoutMaxCalls /\ checkoutDetail' \in DetailType
    BY <1>1, <1>5, CheckoutFacts
  <2> QED BY <1>1, <1>3, <1>4, <1>5, <1>6, <1>7, <2>1, <2>2, CheckoutTypesOf
<1>9. checkoutQuiet' = TRUE => QuietVisit'
  <2> SUFFICES ASSUME QuietVisit, c.at = "sent" PROVE QuietVisit'
    BY <1>1, <1>5 DEF CheckoutInv
  <2> QED BY <1>5 DEF QuietVisit, Checkout!IsGift
<1> QED BY <1>5, <1>8, <1>9 DEF CheckoutInv, Checkout!ButtonTellsTheCharge

LEMMA CheckoutInitially == ASSUME AllInit PROVE CheckoutInv
<1>1. Checkout!Init
  BY DEF AllInit
<1>2. /\ checkoutCalls = {} /\ checkoutCharges = {} /\ checkoutSent = 0 /\ checkoutRaised = 0
      /\ checkoutGifts = 0 /\ checkoutQuiet = TRUE /\ checkoutOffer = "ask"
      /\ checkoutRole \in {"DONOR", "SPONSOR"}
      /\ checkoutDetail = [loaded |-> FALSE, raised |-> 0, donors |-> 0]
      /\ \E x \in CheckoutAmount : checkoutCard = Checkout!FreshCard(x)
      /\ checkoutBox = [tier |-> "FULL", submitting |-> FALSE, result |-> 0]
  BY <1>1 DEF Checkout!Init
<1>3. checkoutDetail \in DetailType /\ checkoutCard \in CardType /\ checkoutBox \in BoxType
  <2>1. checkoutDetail \in DetailType
    BY <1>2, CheckoutConstants DEF DetailType
  <2>2. checkoutCard \in CardType
    BY <1>2, FieldsKeepTypes
  <2>3. 0 \in 0 .. CheckoutGoal
    BY CheckoutConstants
  <2>4. checkoutBox \in BoxType
    BY <1>2, <2>3 DEF BoxType, Checkout!Tier
  <2> QED BY <2>1, <2>2, <2>4
<1>4. IsFiniteSet(checkoutCalls) /\ Checkout!Cardinality(checkoutCalls) <= checkoutSent
  <2>1. IsFiniteSet(checkoutCalls) /\ Cardinality(checkoutCalls) = 0
    BY <1>2, FS_EmptySet
  <2> QED BY <1>2, <2>1 DEF Checkout!Cardinality, Cardinality
<1>5. CheckoutTypes
  <2>1. checkoutQuiet \in BOOLEAN
    BY <1>2
  <2>2. checkoutSent \in 0 .. CheckoutMaxCalls /\ checkoutGifts \in 0 .. CheckoutMaxGifts
        /\ checkoutRaised \in 0 .. CheckoutGoal
    BY <1>2, CheckoutConstants
  <2> QED BY <1>2, <1>3, <1>4, <2>1, <2>2
      DEF CheckoutTypes, Checkout!TypeOK, DetailType, CardType, BoxType
<1>6. QuietVisit
  BY <1>2 DEF QuietVisit
<1> QED BY <1>2, <1>5, <1>6 DEF CheckoutInv, Checkout!ButtonTellsTheCharge

LEMMA CheckoutNext == ASSUME CheckoutInv, [AllNext]_allVars PROVE CheckoutInv'
<1>1. [Checkout!Next]_(Checkout!vars)
  BY CheckoutSteps
<1>2. ASSUME NEW c \in checkoutCalls, Checkout!GiftAnswered(c)
      PROVE  CheckoutInv'
  BY <1>2, GiftAnsweredStep DEF CheckoutInv, CheckoutTypes, Checkout!GiftAnswered
<1>3. CASE Checkout!Next
  BY <1>2, <1>3, ElsewhereStep, PageLoadedStep, SubmitGiftStep, SponsorCallStep, ButtonsStep,
     BookedStep, OtherAnsweredStep, CallFailedStep DEF Checkout!Next
<1>4. CASE UNCHANGED Checkout!vars
  BY <1>4, ButtonsStep
<1> QED BY <1>1, <1>3, <1>4

LEMMA CheckoutSuffices ==
    CheckoutInv =>
        Checkout!TypeOK /\ Checkout!ButtonTellsTheCharge /\ Checkout!QuietPageIsCurrent
BY DEF CheckoutInv, CheckoutTypes, QuietVisit, Checkout!QuietPageIsCurrent, Checkout!GiftInFlight
-----------------------------------------------------------------------------
(* WebDeposit: as long as nothing is changed while an answer is            *)
(* outstanding, the questions in flight are about the pair on the screen,  *)
(* and the ways to pay are those of its country or asked for.              *)

\* A step of the whole is one of the page, or leaves it alone.
LEMMA DepositSteps == [AllNext]_allVars => [Deposit!Next]_(Deposit!vars)
BY DEF AllNext, OtherParts, allVars, deposit, Deposit!vars

LEMMA DepositConstants ==
    /\ CurrencyOf \in [Country -> Currency]
    /\ First.country \in Country /\ First.currency \in Currency
    /\ \A c \in Country : 1 \in DOMAIN MethodsOf[c]
    /\ MaxAsked \in Nat /\ MaxAsked >= 3 /\ MaxDeposits \in Nat
BY WebAssumption DEF Deposit!DepositPageAssumption

IsQuestion(q, last) ==
    /\ q.nr \in 1 .. last /\ q.about \in {"methods", "quote"}
    /\ q.about = "methods" => q.from \in Country
    /\ q.about = "quote" => q.from \in Currency /\ q.to \in Currency

DepositTypes ==
    /\ Deposit!TypeOK
    /\ IsFiniteSet(depositDeposits)
    /\ \A q \in depositAsked : IsQuestion(q, depositNr)

PaysThere(c, m) == \E i \in DOMAIN MethodsOf[c] : MethodsOf[c][i] = m

\* What is asked is about what is on the screen.
AskedFits ==
    /\ \A q \in depositAsked :
          /\ q.about = "quote" => q.from = depositDepositCurrency /\ q.to = depositPayoutCurrency
          /\ q.about = "methods" => q.from = depositCountry
    /\ depositQuote # NoQuote =>
          depositQuote.rate = RateOf[<<depositQuote.from, depositQuote.to>>]
    /\ \/ \E q \in depositAsked : q.about = "methods"
       \/ depositMethods = MethodsOf[depositCountry] /\ PaysThere(depositCountry, depositMethod)

DepositInv ==
    /\ DepositTypes
    /\ depositSteady => AskedFits
    /\ \A d \in depositDeposits : d.settled => PaysThere(d.country, d.method)

\* A question more, or one less, changes no type.
LEMMA QuestionsKeepTypes ==
    ASSUME DepositTypes,
           depositNr' \in Nat, depositNr' >= depositNr, depositNr' <= MaxAsked,
           \A q \in depositAsked' : q \in depositAsked \/ IsQuestion(q, depositNr'),
           {depositCountry', depositDepositCurrency', depositPayoutCurrency'} \subseteq
               Country \cup Currency,
           depositCountry' \in Country, depositDepositCurrency' \in Currency,
           depositPayoutCurrency' \in Currency,
           UNCHANGED <<depositDeposits, depositDone>>, depositSteady' \in BOOLEAN,
           \/ depositQuote' = depositQuote \/ depositQuote' = NoQuote
           \/ depositQuote'.rate \in {RateOf[<<x, y>>] : x \in Currency, y \in Currency}
    PROVE  DepositTypes'
<1>1. depositNr \in 3 .. MaxAsked /\ MaxAsked \in Nat
  BY DepositConstants DEF DepositTypes, Deposit!TypeOK
<1>2. \A q \in depositAsked' : IsQuestion(q, depositNr')
  BY <1>1 DEF DepositTypes, IsQuestion
<1>3. \A q \in depositAsked' : q.nr \in 1 .. depositNr' /\ q.about \in {"methods", "quote"}
  BY <1>2 DEF IsQuestion
<1>4. depositNr' \in 3 .. MaxAsked
  BY <1>1
<1>5. Deposit!TypeOK
  BY DEF DepositTypes
<1>6. Deposit!TypeOK'
  BY <1>3, <1>4, <1>5 DEF Deposit!TypeOK
<1>7. IsFiniteSet(depositDeposits')
  BY DEF DepositTypes
<1> QED BY <1>2, <1>6, <1>7 DEF DepositTypes

LEMMA CountryStep ==
    ASSUME DepositInv, NEW c \in Country, Deposit!OnCountryChange(c)
    PROVE  DepositInv'
<1> PICK q1 : q1 = Deposit!Question(depositNr + 1, "methods", c, c)
  OBVIOUS
<1> PICK q2 : q2 = Deposit!Question(depositNr + 2, "quote", depositDepositCurrency, CurrencyOf[c])
  OBVIOUS
<1>1. /\ depositNr \in Nat /\ depositNr' = depositNr + 2 /\ depositNr' <= MaxAsked
      /\ depositCountry' = c /\ depositPayoutCurrency' = CurrencyOf[c]
      /\ depositAsked' = depositAsked \cup {q1, q2}
      /\ depositSteady' = (depositSteady /\ depositAsked = {})
      /\ UNCHANGED <<depositDepositCurrency, depositMethods, depositMethod, depositQuote,
                     depositDeposits, depositDone>>
  BY DepositConstants DEF DepositInv, DepositTypes, Deposit!TypeOK, Deposit!OnCountryChange
<1>2. /\ q1.nr = depositNr + 1 /\ q1.about = "methods" /\ q1.from = c
      /\ q2.nr = depositNr + 2 /\ q2.about = "quote" /\ q2.from = depositDepositCurrency
      /\ q2.to = CurrencyOf[c]
  BY DEF Deposit!Question
<1>3. /\ depositDepositCurrency \in Currency /\ CurrencyOf[c] \in Currency
      /\ depositSteady \in BOOLEAN
  BY DepositConstants DEF DepositInv, DepositTypes, Deposit!TypeOK
<1>4. IsQuestion(q1, depositNr') /\ IsQuestion(q2, depositNr')
  BY <1>1, <1>2, <1>3 DEF IsQuestion
<1>5. DepositTypes'
  <2>1. \A q \in depositAsked' : q \in depositAsked \/ IsQuestion(q, depositNr')
    BY <1>1, <1>4
  <2> QED BY <1>1, <1>3, <2>1, QuestionsKeepTypes DEF DepositInv
<1>6. depositSteady' => AskedFits'
  BY <1>1, <1>2 DEF DepositInv, AskedFits
<1> QED BY <1>1, <1>5, <1>6 DEF DepositInv

LEMMA CurrencyStep ==
    ASSUME DepositInv, NEW x \in Currency, Deposit!OnCurrencyChange(x)
    PROVE  DepositInv'
<1> PICK q1 : q1 = Deposit!Question(depositNr + 1, "quote", x, depositPayoutCurrency)
  OBVIOUS
<1>1. /\ depositNr \in Nat /\ depositNr' = depositNr + 1 /\ depositNr' <= MaxAsked
      /\ depositDepositCurrency' = x
      /\ depositAsked' = depositAsked \cup {q1}
      /\ depositSteady' = (depositSteady /\ depositAsked = {})
      /\ UNCHANGED <<depositCountry, depositPayoutCurrency, depositMethods, depositMethod,
                     depositQuote, depositDeposits, depositDone>>
  BY DepositConstants DEF DepositInv, DepositTypes, Deposit!TypeOK, Deposit!OnCurrencyChange
<1>2. /\ q1.nr = depositNr + 1 /\ q1.about = "quote" /\ q1.from = x
      /\ q1.to = depositPayoutCurrency
  BY DEF Deposit!Question
<1>3. /\ depositPayoutCurrency \in Currency /\ depositCountry \in Country
      /\ depositSteady \in BOOLEAN
  BY DEF DepositInv, DepositTypes, Deposit!TypeOK
<1>4. IsQuestion(q1, depositNr')
  BY <1>1, <1>2, <1>3 DEF IsQuestion
<1>5. DepositTypes'
  <2>1. \A q \in depositAsked' : q \in depositAsked \/ IsQuestion(q, depositNr')
    BY <1>1, <1>4
  <2> QED BY <1>1, <1>3, <2>1, QuestionsKeepTypes DEF DepositInv
<1>6. depositSteady' => AskedFits'
  BY <1>1, <1>2 DEF DepositInv, AskedFits
<1> QED BY <1>1, <1>5, <1>6 DEF DepositInv

LEMMA AnswerStep ==
    ASSUME DepositInv, NEW q \in depositAsked,
           Deposit!MethodsKnown(q) \/ Deposit!QuoteKnown(q) \/ Deposit!QuestionFailed(q)
    PROVE  DepositInv'
<1>1. /\ depositAsked' = depositAsked \ {q} /\ IsQuestion(q, depositNr)
      /\ UNCHANGED <<depositCountry, depositDepositCurrency, depositPayoutCurrency, depositNr,
                     depositDeposits, depositDone>>
  BY DEF DepositInv, DepositTypes, Deposit!MethodsKnown, Deposit!QuoteKnown, Deposit!QuestionFailed
<1>2. /\ depositNr \in Nat /\ depositNr <= MaxAsked /\ depositCountry \in Country
      /\ depositDepositCurrency \in Currency /\ depositPayoutCurrency \in Currency
      /\ depositSteady \in BOOLEAN
  BY DepositConstants DEF DepositInv, DepositTypes, Deposit!TypeOK
<1>3. CASE Deposit!MethodsKnown(q)
  <2>1. /\ q.from \in Country /\ 1 \in DOMAIN MethodsOf[q.from]
        /\ depositMethods' = MethodsOf[q.from] /\ depositMethod' = MethodsOf[q.from][1]
        /\ UNCHANGED <<depositQuote, depositSteady>>
    BY <1>1, <1>3, DepositConstants DEF IsQuestion, Deposit!MethodsKnown
  <2>2. DepositTypes'
    BY <1>1, <1>2, <2>1, QuestionsKeepTypes DEF DepositInv
  <2>3. PaysThere(q.from, depositMethod')
    BY <2>1 DEF PaysThere
  <2>4. depositSteady => AskedFits'
    BY <1>1, <1>3, <2>1, <2>3 DEF DepositInv, AskedFits, Deposit!MethodsKnown
  <2> QED BY <1>1, <2>1, <2>2, <2>4 DEF DepositInv
<1>4. CASE Deposit!QuoteKnown(q)
  <2>1. /\ q.about = "quote" /\ q.from \in Currency /\ q.to \in Currency
        /\ depositQuote'.rate = RateOf[<<q.from, q.to>>]
        /\ depositQuote'.from = depositDepositCurrency /\ depositQuote'.to = depositPayoutCurrency
        /\ UNCHANGED <<depositMethods, depositMethod, depositSteady>>
    BY <1>1, <1>4 DEF IsQuestion, Deposit!QuoteKnown
  <2>2. DepositTypes'
    BY <1>1, <1>2, <2>1, QuestionsKeepTypes DEF DepositInv
  <2>3. depositSteady => AskedFits'
    BY <1>1, <2>1 DEF DepositInv, AskedFits
  <2> QED BY <1>1, <2>1, <2>2, <2>3 DEF DepositInv
<1>5. CASE Deposit!QuestionFailed(q)
  <2>1. depositSteady' = FALSE /\ depositSteady' \in BOOLEAN
        /\ (depositQuote' = depositQuote \/ depositQuote' = NoQuote)
    BY <1>5 DEF Deposit!QuestionFailed
  <2>2. DepositTypes'
    BY <1>1, <1>2, <2>1, QuestionsKeepTypes DEF DepositInv
  <2> QED BY <1>1, <2>1, <2>2 DEF DepositInv
<1> QED BY <1>3, <1>4, <1>5

\* A deposit that is sent once all is answered names a way to pay of its country.
LEMMA SubmitStep ==
    ASSUME DepositInv, Deposit!Submit
    PROVE  DepositInv'
<1> PICK d : d = [nr |-> Cardinality(depositDeposits), method |-> depositMethod,
                  country |-> depositCountry, settled |-> depositAsked = {} /\ depositSteady]
  OBVIOUS
<1> PICK old : old = depositDeposits
  OBVIOUS
<1>1. /\ Cardinality(old) < MaxDeposits /\ depositDeposits' = old \cup {d} /\ IsFiniteSet(old)
      /\ UNCHANGED <<depositCountry, depositDepositCurrency, depositPayoutCurrency,
                     depositMethods, depositMethod, depositQuote, depositAsked, depositNr,
                     depositDone, depositSteady>>
  BY DEF Deposit!Submit, DepositInv, DepositTypes, Deposit!Cardinality, Cardinality
<1>2. IsFiniteSet(old \cup {d}) /\ Cardinality(old) \in Nat
      /\ Cardinality(old \cup {d}) <= Cardinality(old) + 1
  <2>1. Cardinality(old) \in Nat
    BY <1>1, FS_CardinalityType
  <2> QED BY <1>1, <2>1, FS_AddElement
<1>3. Cardinality(old \cup {d}) <= MaxDeposits
  <2>1. /\ Cardinality(old \cup {d}) \in Nat /\ MaxDeposits \in Nat
        /\ Cardinality(old) < MaxDeposits
    BY <1>1, <1>2, FS_CardinalityType, DepositConstants
  <2> QED BY <1>2, <2>1
<1>4. Deposit!Cardinality(depositDeposits') <= MaxDeposits
  BY <1>1, <1>3 DEF Deposit!Cardinality, Cardinality
<1>5. DepositTypes'
  BY <1>1, <1>2, <1>4 DEF DepositInv, DepositTypes, Deposit!TypeOK
<1>6. d.settled => PaysThere(d.country, d.method)
  BY DEF DepositInv, AskedFits
<1> QED BY <1>1, <1>5, <1>6 DEF DepositInv, AskedFits

LEMMA DepositRestStep ==
    ASSUME DepositInv,
           \/ \E c \in Country, i \in 1 .. 2 :
                 i \in DOMAIN MethodsOf[c] /\ Deposit!ChooseMethod(MethodsOf[c][i])
           \/ Deposit!Started \/ UNCHANGED Deposit!vars
    PROVE  DepositInv'
<1>1. UNCHANGED <<depositCountry, depositDepositCurrency, depositPayoutCurrency, depositMethods,
                  depositQuote, depositAsked, depositNr, depositDeposits, depositSteady>>
  BY DEF Deposit!ChooseMethod, Deposit!Started, Deposit!vars
<1>2. depositDone' \in BOOLEAN
  <2>1. depositDone' = TRUE \/ UNCHANGED depositDone
    BY DEF Deposit!ChooseMethod, Deposit!Started, Deposit!vars
  <2>2. depositDone \in BOOLEAN
    BY DEF DepositInv, DepositTypes, Deposit!TypeOK
  <2> QED BY <2>1, <2>2
<1>3. DepositTypes'
  BY <1>1, <1>2 DEF DepositInv, DepositTypes, Deposit!TypeOK
<1>4. depositMethod' = depositMethod
      \/ \E i \in DOMAIN depositMethods : depositMethods[i] = depositMethod'
  BY DEF Deposit!ChooseMethod, Deposit!Started, Deposit!vars
<1>5. depositSteady => AskedFits'
  BY <1>1, <1>4 DEF DepositInv, AskedFits, PaysThere
<1> QED BY <1>1, <1>3, <1>5 DEF DepositInv

LEMMA DepositInitially == ASSUME AllInit PROVE DepositInv
<1>1. Deposit!Init
  BY DEF AllInit
<1> PICK q1 : q1 = Deposit!Question(1, "methods", depositCountry, depositCountry)
  OBVIOUS
<1> PICK q2 : q2 = Deposit!Question(2, "quote", depositDepositCurrency, depositPayoutCurrency)
  OBVIOUS
<1> PICK q3 : q3 = Deposit!Question(3, "quote", depositDepositCurrency, depositPayoutCurrency)
  OBVIOUS
<1>2. /\ depositAsked = {q1, q2, q3} /\ depositNr = 3 /\ depositDeposits = {}
      /\ depositQuote = NoQuote /\ depositDone = FALSE /\ depositSteady = TRUE
      /\ depositCountry \in Country /\ depositDepositCurrency \in Currency
      /\ depositPayoutCurrency \in Currency
  BY <1>1, DepositConstants DEF Deposit!Init
<1>3. /\ q1.nr = 1 /\ q1.about = "methods" /\ q1.from = depositCountry
      /\ \A q \in {q2, q3} : /\ q.nr \in {2, 3} /\ q.about = "quote"
                             /\ q.from = depositDepositCurrency /\ q.to = depositPayoutCurrency
  BY DEF Deposit!Question
<1>4. \A q \in depositAsked : IsQuestion(q, depositNr)
  BY <1>2, <1>3 DEF IsQuestion
<1>5. IsFiniteSet(depositDeposits) /\ Cardinality(depositDeposits) = 0
  BY <1>2, FS_EmptySet
<1>6. Deposit!Cardinality(depositDeposits) <= MaxDeposits
  BY <1>5, DepositConstants DEF Deposit!Cardinality, Cardinality
<1>7. DepositTypes
  <2>1. \A q \in depositAsked : q.nr \in 1 .. depositNr /\ q.about \in {"methods", "quote"}
    BY <1>4 DEF IsQuestion
  <2>2. depositNr \in 3 .. MaxAsked
    BY <1>2, DepositConstants
  <2>3. depositDone \in BOOLEAN /\ depositSteady \in BOOLEAN
    BY <1>2
  <2> QED BY <1>2, <1>4, <1>5, <1>6, <2>1, <2>2, <2>3 DEF DepositTypes, Deposit!TypeOK
<1> QED BY <1>2, <1>3, <1>7 DEF DepositInv, AskedFits

LEMMA DepositNext == ASSUME DepositInv, [AllNext]_allVars PROVE DepositInv'
<1>1. [Deposit!Next]_(Deposit!vars)
  BY DepositSteps
<1>2. CASE Deposit!Next
  BY <1>2, CountryStep, CurrencyStep, AnswerStep, SubmitStep, DepositRestStep DEF Deposit!Next
<1>3. CASE UNCHANGED Deposit!vars
  BY <1>3, DepositRestStep
<1> QED BY <1>1, <1>2, <1>3

LEMMA DepositSuffices == DepositInv => Deposit!TypeOK /\ Deposit!QuoteIsForItsPair
BY DEF DepositInv, DepositTypes, AskedFits, PaysThere, Deposit!QuoteIsForItsPair
-----------------------------------------------------------------------------
(* WebPages: a user who waits for the answers, and gets them, sees in each *)
(* pane what the server has, or it is under way.                           *)

\* A step of the whole is one of the pages, or leaves them alone.
LEMMA PagesSteps == [AllNext]_allVars => [Pages!Next]_(Pages!vars)
BY DEF AllNext, OtherParts, allVars, pages, Pages!vars

LEMMA PagesConstants ==
    ListPage \subseteq DOMAIN Pages!Panes /\ Pages!None \notin Item /\ MaxPageActs \in Nat
BY WebAssumption DEF Pages!PagesAssumption

\* What an operation changes is loaded again, and is of the page.
LEMMA OperationsFitThePage ==
    \A p \in ListPage : \A op \in Pages!Ops[p] :
        op.changes \subseteq op.reloads /\ op.reloads \subseteq Pages!Panes[p]
<1> SUFFICES ASSUME NEW p \in ListPage, NEW op \in Pages!Ops[p]
             PROVE  op.changes \subseteq op.reloads /\ op.reloads \subseteq Pages!Panes[p]
  OBVIOUS
<1>1. p \in {"groups", "programs", "donor", "sponsor", "gallery", "payroll"}
  BY PagesConstants DEF Pages!Panes
<1>2. CASE p = "groups"
  BY <1>2 DEF Pages!Ops, Pages!Panes, Pages!GroupOps, Pages!GroupPanes, Pages!Op
<1>3. CASE p = "programs"
  BY <1>3 DEF Pages!Ops, Pages!Panes, Pages!ProgramOps, Pages!ProgramPanes, Pages!Op
<1>4. CASE p = "donor"
  BY <1>4 DEF Pages!Ops, Pages!Panes, Pages!DonorOps, Pages!DonorPanes, Pages!Op
<1>5. CASE p \in {"sponsor", "gallery", "payroll"}
  BY <1>5 DEF Pages!Ops
<1> QED BY <1>1, <1>2, <1>3, <1>4, <1>5

\* A page that does not select at once has a pane that selects.
LEMMA EachPageSelects ==
    \A p \in ListPage : p \notin Pages!SelectsAtOnce =>
        \E x \in Pages!Panes[p] : Pages!Selecting(x)
<1> SUFFICES ASSUME NEW p \in ListPage, p \notin Pages!SelectsAtOnce
             PROVE  \E x \in Pages!Panes[p] : Pages!Selecting(x)
  OBVIOUS
<1>1. p \in {"groups", "sponsor"}
  BY PagesConstants DEF Pages!Panes, Pages!SelectsAtOnce
<1>2. CASE p = "groups"
  <2>1. "detail" \in Pages!Panes[p]
    BY <1>2 DEF Pages!Panes, Pages!GroupPanes
  <2> QED BY <2>1 DEF Pages!Selecting
<1>3. CASE p = "sponsor"
  <2>1. "receipt" \in Pages!Panes[p]
    BY <1>3 DEF Pages!Panes, Pages!SponsorPanes
  <2> QED BY <2>1 DEF Pages!Selecting
<1> QED BY <1>1, <1>2, <1>3

IsPageCall(q, p) ==
    /\ q = [load |-> q.load, no |-> q.no, of |-> q.of, what |-> q.what,
            served |-> q.served, shows |-> q.shows]
    /\ q.load \in BOOLEAN /\ q.served \in BOOLEAN /\ q.of \in Item
    /\ q.no \in 0 .. MaxPageActs /\ q.shows \in 0 .. MaxPageActs
    /\ q.load = TRUE => q.what \in Pages!Panes[p]
    /\ q.load = FALSE => q.what \in Pages!Ops[p]

\* What was asked of the server and not done yet.
Unserved(set) == {q \in set : q.load = FALSE /\ q.served = FALSE}

\* Each act changes a pane once, when it is served.
VersionsFit(version, unserved, acts) ==
    /\ IsFiniteSet(unserved)
    /\ \A i \in Item : \A x \in Pages!AllPanes :
          version[i][x] + Cardinality(unserved) <= acts

PagesTypes ==
    /\ Pages!TypeOK
    /\ \A q \in pagesCalls : IsPageCall(q, pagesPage)
    /\ VersionsFit(pagesVersion, Unserved(pagesCalls), pagesActs)

\* A call brings pane x, or will have it loaded.
Brings(q, x) == IF q.load = TRUE THEN q.what = x ELSE x \in q.what.reloads

\* The calls of a user who waits are loads of one item that is shown, or will
\* be, or one request about the item shown.
CallsFit ==
    /\ \A q, r \in pagesCalls : q.of = r.of
    /\ \A q \in pagesCalls : q.load = FALSE => pagesCalls = {q} /\ q.of = pagesSelected
    /\ \A q \in pagesCalls : q.load = TRUE /\ q.served = TRUE =>
          q.shows = pagesVersion[q.of][q.what]
    /\ \A q \in pagesCalls : \/ q.of = pagesSelected
                             \/ \E r \in pagesCalls : r.load = TRUE /\ Pages!Selecting(r.what)

PanesFit ==
    /\ pagesCalls = {} /\ pagesSelected # Pages!None =>
          \A x \in Pages!Panes[pagesPage] :
              pagesPane[x] = <<pagesSelected, pagesVersion[pagesSelected][x]>>
    /\ \A q \in pagesCalls : \A x \in Pages!Panes[pagesPage] :
          \/ pagesPane[x] = <<q.of, pagesVersion[q.of][x]>>
          \/ \E r \in pagesCalls : Brings(r, x)

PagesInv == PagesTypes /\ (pagesSingle = TRUE => CallsFit /\ PanesFit)

LEMMA PagesFacts ==
    PagesTypes =>
        /\ pagesPage \in ListPage /\ pagesSelected \in Item \cup {Pages!None}
        /\ pagesActs \in 0 .. MaxPageActs /\ pagesSingle \in BOOLEAN
        /\ Pages!Panes[pagesPage] \subseteq Pages!AllPanes
        /\ \A i \in Item : pagesVersion[i] \in [Pages!AllPanes -> 0 .. MaxPageActs]
        /\ \A i \in Item : \A x \in Pages!AllPanes : pagesVersion[i][x] \in 0 .. MaxPageActs
<1> SUFFICES ASSUME PagesTypes
             PROVE  /\ pagesPage \in ListPage /\ pagesSelected \in Item \cup {Pages!None}
                    /\ pagesActs \in 0 .. MaxPageActs /\ pagesSingle \in BOOLEAN
                    /\ Pages!Panes[pagesPage] \subseteq Pages!AllPanes
                    /\ \A i \in Item : pagesVersion[i] \in [Pages!AllPanes -> 0 .. MaxPageActs]
                    /\ \A i \in Item : \A x \in Pages!AllPanes :
                          pagesVersion[i][x] \in 0 .. MaxPageActs
  OBVIOUS
<1>1. /\ pagesPage \in ListPage /\ pagesSelected \in Item \cup {Pages!None}
      /\ pagesActs \in 0 .. MaxPageActs /\ pagesSingle \in BOOLEAN
      /\ pagesVersion \in [Item -> [Pages!AllPanes -> 0 .. MaxPageActs]]
  BY DEF PagesTypes, Pages!TypeOK
<1>2. Pages!Panes[pagesPage] \subseteq Pages!AllPanes
  BY <1>1 DEF Pages!AllPanes
<1>3. \A i \in Item : pagesVersion[i] \in [Pages!AllPanes -> 0 .. MaxPageActs]
  BY <1>1
<1>4. \A f \in [Pages!AllPanes -> 0 .. MaxPageActs] : \A x \in Pages!AllPanes :
         f[x] \in 0 .. MaxPageActs
  OBVIOUS
<1> QED BY <1>1, <1>2, <1>3, <1>4

\* A load that is new.
IsLoad(q, i, x, n) ==
    q = [load |-> TRUE, no |-> n, of |-> i, what |-> x, served |-> FALSE, shows |-> 0]

IsNewLoad(q, i, x, p) ==
    IsPageCall(q, p) /\ q.load = TRUE /\ q.of = i /\ q.what = x /\ q.served = FALSE

LEMMA LoadsAreCalls ==
    ASSUME NEW p, NEW i \in Item, NEW x \in Pages!Panes[p], NEW n \in 0 .. MaxPageActs,
           NEW q, IsLoad(q, i, x, n)
    PROVE  IsNewLoad(q, i, x, p)
<1>1. /\ q.load = TRUE /\ q.no = n /\ q.of = i /\ q.what = x /\ q.served = FALSE
      /\ q.shows = 0
  BY DEF IsLoad
<1>2. 0 \in 0 .. MaxPageActs
  BY PagesConstants
<1>3. q.load \in BOOLEAN /\ q.served \in BOOLEAN
  BY <1>1, Zenon
<1>4. q = [load |-> q.load, no |-> q.no, of |-> q.of, what |-> q.what,
           served |-> q.served, shows |-> q.shows]
  BY DEF IsLoad
<1>5. q.load # FALSE
  BY <1>1
<1> QED BY <1>1, <1>2, <1>3, <1>4, <1>5 DEF IsPageCall, IsNewLoad

\* Types, if the server's data and what it has still to do stay, or it has less to do.
LEMMA PagesTypesKept ==
    ASSUME PagesTypes, pagesPage' = pagesPage, pagesSelected' \in Item \cup {Pages!None},
           pagesPane' \in [Pages!AllPanes -> (Item \cup {Pages!None}) \X (0 .. MaxPageActs)],
           pagesVersion' = pagesVersion, Unserved(pagesCalls') \subseteq Unserved(pagesCalls),
           \A q \in pagesCalls' : IsPageCall(q, pagesPage),
           pagesActs' \in {pagesActs, pagesActs + 1}, pagesActs' <= MaxPageActs,
           pagesSingle' \in BOOLEAN
    PROVE  PagesTypes'
<1> PICK old : old = Unserved(pagesCalls)
  OBVIOUS
<1> PICK new : new = Unserved(pagesCalls')
  OBVIOUS
<1>1. /\ IsFiniteSet(old) /\ new \subseteq old
      /\ \A i \in Item : \A x \in Pages!AllPanes :
            pagesVersion[i][x] + Cardinality(old) <= pagesActs
  BY DEF PagesTypes, VersionsFit
<1>2. IsFiniteSet(new) /\ Cardinality(new) <= Cardinality(old)
  BY <1>1, FS_Subset
<1>3. Cardinality(old) \in Nat /\ Cardinality(new) \in Nat
  BY <1>1, <1>2, FS_CardinalityType
<1>4. pagesActs \in Nat /\ pagesActs' \in Nat /\ pagesActs' >= pagesActs
  BY PagesFacts, PagesConstants
<1>5. VersionsFit(pagesVersion, new, pagesActs')
  <2> SUFFICES ASSUME NEW i \in Item, NEW x \in Pages!AllPanes
               PROVE  pagesVersion[i][x] + Cardinality(new) <= pagesActs'
    BY <1>2 DEF VersionsFit
  <2>1. pagesVersion[i][x] \in Nat
    BY PagesFacts, PagesConstants
  <2> QED BY <1>1, <1>2, <1>3, <1>4, <2>1
<1>6. Pages!TypeOK'
  <2>1. \A q \in pagesCalls' : q.of \in Item /\ q.no \in 0 .. MaxPageActs /\ q.served \in BOOLEAN
    BY DEF IsPageCall
  <2>2. pagesActs' \in 0 .. MaxPageActs
    BY <1>4, PagesConstants
  <2> QED BY <2>1, <2>2 DEF PagesTypes, Pages!TypeOK, Pages!AllPanes
<1> QED BY <1>5, <1>6 DEF PagesTypes
-----------------------------------------------------------------------------
\* An item is opened.
LEMMA OpenStep ==
    ASSUME PagesInv, NEW item \in Item, Pages!Open(item)
    PROVE  PagesInv'
<1>1. PagesTypes
  BY DEF PagesInv
<1>2. /\ pagesActs < MaxPageActs /\ pagesActs' = pagesActs + 1
      /\ pagesSingle' = (pagesSingle /\ pagesCalls = {})
      /\ pagesSelected' = IF pagesPage \in Pages!SelectsAtOnce THEN item ELSE pagesSelected
      /\ pagesCalls' = pagesCalls \cup {Pages!Load(item, x) : x \in Pages!Panes[pagesPage]}
      /\ UNCHANGED <<pagesPage, pagesPane, pagesVersion>>
  BY DEF Pages!Open, Pages!Acts, Pages!Loads
<1>3. ASSUME NEW x \in Pages!Panes[pagesPage], NEW q, q = Pages!Load(item, x)
      PROVE  IsNewLoad(q, item, x, pagesPage)
  <2>1. IsLoad(q, item, x, pagesActs)
    BY <1>3 DEF Pages!Load, IsLoad
  <2>2. pagesActs \in 0 .. MaxPageActs
    BY <1>1, PagesFacts
  <2> QED BY <2>1, <2>2, LoadsAreCalls
<1>4. \A q \in pagesCalls' : q \in pagesCalls \/
         /\ IsPageCall(q, pagesPage) /\ q.load = TRUE /\ q.of = item
         /\ q.served = FALSE /\ q.what \in Pages!Panes[pagesPage]
  BY <1>2, <1>3 DEF IsNewLoad
<1>5. PagesTypes'
  <2>1. \A q \in pagesCalls' : IsPageCall(q, pagesPage)
    BY <1>1, <1>4 DEF PagesTypes
  <2>2. Unserved(pagesCalls') \subseteq Unserved(pagesCalls)
    BY <1>4 DEF Unserved
  <2>3. pagesActs \in Nat /\ pagesActs' <= MaxPageActs
    BY <1>1, <1>2, PagesFacts, PagesConstants
  <2>4. pagesSingle' \in BOOLEAN
    BY <1>2
  <2>5. pagesSelected' \in Item \cup {Pages!None}
    BY <1>1, <1>2, PagesFacts
  <2>6. pagesPane' \in [Pages!AllPanes -> (Item \cup {Pages!None}) \X (0 .. MaxPageActs)]
    BY <1>1, <1>2 DEF PagesTypes, Pages!TypeOK
  <2> QED BY <1>1, <1>2, <2>1, <2>2, <2>3, <2>4, <2>5, <2>6, PagesTypesKept
<1>6. ASSUME pagesSingle' = TRUE
      PROVE  CallsFit' /\ PanesFit'
  <2>1. pagesCalls = {}
    BY <1>2, <1>6
  <2>2. \A q \in pagesCalls' : q.load = TRUE /\ q.of = item /\ q.served = FALSE
    BY <1>4, <2>1
  <2>3. ASSUME NEW x \in Pages!Panes[pagesPage]
        PROVE  \E r \in pagesCalls' : r.load = TRUE /\ r.what = x
    <3> PICK r : r = Pages!Load(item, x)
      OBVIOUS
    <3> QED BY <1>2, <1>3 DEF IsNewLoad
  <2>4. \/ pagesSelected' = item
        \/ \E r \in pagesCalls' : r.load = TRUE /\ Pages!Selecting(r.what)
    <3>1. CASE pagesPage \in Pages!SelectsAtOnce
      BY <1>2, <3>1
    <3>2. CASE pagesPage \notin Pages!SelectsAtOnce
      <4>1. PICK x \in Pages!Panes[pagesPage] : Pages!Selecting(x)
        BY <1>1, <3>2, PagesFacts, EachPageSelects
      <4> QED BY <2>3, <4>1
    <3> QED BY <3>1, <3>2
  <2>5. CallsFit'
    BY <2>2, <2>4 DEF CallsFit
  <2>6. \A x \in Pages!Panes[pagesPage] : \E r \in pagesCalls' : Brings(r, x)
    BY <2>3 DEF Brings
  <2>7. ASSUME pagesCalls' = {}, NEW x \in Pages!Panes[pagesPage]
        PROVE  FALSE
    BY <2>3, <2>7
  <2> QED BY <1>2, <2>5, <2>6, <2>7 DEF PanesFit
<1> QED BY <1>5, <1>6 DEF PagesInv

LEMMA BackStep ==
    ASSUME PagesInv, Pages!Back
    PROVE  PagesInv'
<1>1. PagesTypes
  BY DEF PagesInv
<1>2. /\ pagesSelected' = Pages!None /\ pagesSingle' = (pagesSingle /\ pagesCalls = {})
      /\ UNCHANGED <<pagesPage, pagesPane, pagesVersion, pagesCalls, pagesActs>>
  BY DEF Pages!Back
<1>3. PagesTypes'
  <2>1. pagesSingle' \in BOOLEAN
    BY <1>2
  <2>2. pagesActs <= MaxPageActs
    BY <1>1, PagesFacts, PagesConstants
  <2>3. pagesPane' \in [Pages!AllPanes -> (Item \cup {Pages!None}) \X (0 .. MaxPageActs)]
    BY <1>1, <1>2 DEF PagesTypes, Pages!TypeOK
  <2>4. \A q \in pagesCalls' : IsPageCall(q, pagesPage)
    BY <1>1, <1>2 DEF PagesTypes
  <2> QED BY <1>1, <1>2, <2>1, <2>2, <2>3, <2>4, PagesTypesKept
<1>4. pagesSingle' = TRUE => CallsFit' /\ PanesFit'
  BY <1>2 DEF CallsFit, PanesFit
<1> QED BY <1>3, <1>4 DEF PagesInv

\* The user does something with the item shown.
LEMMA DoStep ==
    ASSUME PagesInv, NEW op \in Pages!Ops[pagesPage], Pages!Do(op)
    PROVE  PagesInv'
<1> PICK q : q = [load |-> FALSE, no |-> pagesActs, of |-> pagesSelected, what |-> op,
                  served |-> FALSE, shows |-> 0]
  OBVIOUS
<1>1. PagesTypes
  BY DEF PagesInv
<1>2. /\ pagesActs < MaxPageActs /\ pagesActs' = pagesActs + 1 /\ pagesSelected # Pages!None
      /\ pagesSingle' = (pagesSingle /\ pagesCalls = {})
      /\ pagesCalls' = pagesCalls \cup {q}
      /\ UNCHANGED <<pagesPage, pagesPane, pagesVersion, pagesSelected>>
  BY DEF Pages!Do, Pages!Acts, Pages!Request
<1>3. pagesSelected \in Item /\ pagesActs \in 0 .. MaxPageActs
  BY <1>1, <1>2, PagesFacts
<1>4. IsPageCall(q, pagesPage)
  <2>1. 0 \in 0 .. MaxPageActs
    BY PagesConstants
  <2>2. q.load \in BOOLEAN /\ q.served \in BOOLEAN
    OBVIOUS
  <2> QED BY <1>3, <2>1, <2>2 DEF IsPageCall
<1>5. PagesTypes'
  <2> PICK old : old = Unserved(pagesCalls)
    OBVIOUS
  <2>1. Unserved(pagesCalls') = old \cup {q}
    BY <1>2 DEF Unserved
  <2>2. /\ IsFiniteSet(old)
        /\ \A i \in Item : \A x \in Pages!AllPanes :
              pagesVersion[i][x] + Cardinality(old) <= pagesActs
    BY <1>1 DEF PagesTypes, VersionsFit
  <2>3. /\ IsFiniteSet(old \cup {q})
        /\ Cardinality(old \cup {q}) =
               IF q \in old THEN Cardinality(old) ELSE Cardinality(old) + 1
    BY <2>2, FS_AddElement
  <2>4. Cardinality(old) \in Nat
    BY <2>2, FS_CardinalityType
  <2>5. VersionsFit(pagesVersion, old \cup {q}, pagesActs')
    <3> SUFFICES ASSUME NEW i \in Item, NEW x \in Pages!AllPanes
                 PROVE  pagesVersion[i][x] + Cardinality(old \cup {q}) <= pagesActs'
      BY <2>3 DEF VersionsFit
    <3>1. pagesVersion[i][x] \in Nat /\ pagesActs \in Nat
      BY <1>1, PagesFacts, PagesConstants
    <3> QED BY <1>2, <2>2, <2>3, <2>4, <3>1
  <2>6. \A r \in pagesCalls' : IsPageCall(r, pagesPage)
    BY <1>1, <1>2, <1>4 DEF PagesTypes
  <2>7. \A r \in pagesCalls' : r.of \in Item /\ r.no \in 0 .. MaxPageActs /\ r.served \in BOOLEAN
    BY <2>6 DEF IsPageCall
  <2>8. pagesActs' \in 0 .. MaxPageActs
    BY <1>2, <1>3, PagesConstants
  <2>9. pagesSingle' \in BOOLEAN
    BY <1>2
  <2>10. Pages!TypeOK'
    BY <1>1, <1>2, <2>7, <2>8, <2>9 DEF PagesTypes, Pages!TypeOK, Pages!AllPanes
  <2> QED BY <1>2, <2>1, <2>5, <2>6, <2>10 DEF PagesTypes
<1>6. ASSUME pagesSingle' = TRUE
      PROVE  CallsFit' /\ PanesFit'
  <2>1. pagesCalls = {} /\ pagesSingle = TRUE
    <3>1. pagesSingle \in BOOLEAN
      BY <1>1, PagesFacts
    <3> QED BY <1>2, <1>6, <3>1
  <2>2. \A x \in Pages!Panes[pagesPage] :
           pagesPane[x] = <<pagesSelected, pagesVersion[pagesSelected][x]>>
    BY <1>2, <2>1 DEF PagesInv, PanesFit
  <2>3. pagesCalls' = {q}
    BY <1>2, <2>1
  <2>4. CallsFit'
    <3>1. q.load = FALSE /\ q.of = pagesSelected
      OBVIOUS
    <3>2. q.load # TRUE
      BY <3>1
    <3> QED BY <1>2, <2>3, <3>1, <3>2 DEF CallsFit
  <2> QED BY <1>2, <2>2, <2>3, <2>4 DEF PanesFit
<1> QED BY <1>5, <1>6 DEF PagesInv
-----------------------------------------------------------------------------
\* The server answers.
LEMMA ServeStep ==
    ASSUME PagesInv, NEW q \in pagesCalls, Pages!Serve(q)
    PROVE  PagesInv'
<1> PICK d : d = [q EXCEPT !.served = TRUE,
                  !.shows = IF q.load THEN pagesVersion[q.of][q.what] ELSE 0]
  OBVIOUS
<1>1. PagesTypes /\ IsPageCall(q, pagesPage)
  BY DEF PagesInv, PagesTypes
<1>2. /\ q.served = FALSE /\ q.served # TRUE
      /\ pagesCalls' = (pagesCalls \ {q}) \cup {d}
      /\ UNCHANGED <<pagesPage, pagesSelected, pagesPane, pagesActs, pagesSingle>>
  <2>1. q.served \in BOOLEAN
    BY <1>1 DEF IsPageCall
  <2> QED BY <2>1 DEF Pages!Serve
<1>3. /\ d = [load |-> d.load, no |-> d.no, of |-> d.of, what |-> d.what,
              served |-> d.served, shows |-> d.shows]
      /\ d.load = q.load /\ d.no = q.no /\ d.of = q.of /\ d.what = q.what
      /\ d.served = TRUE
      /\ d.shows = IF q.load THEN pagesVersion[q.of][q.what] ELSE 0
  BY <1>1 DEF IsPageCall
<1>4. d.served # FALSE
  BY <1>3
<1>5. \A x : Brings(d, x) <=> Brings(q, x)
  BY <1>3 DEF Brings
<1>6. q.of \in Item /\ q.load \in BOOLEAN
  BY <1>1 DEF IsPageCall
<1>7. d.shows \in 0 .. MaxPageActs
  <2>1. CASE q.load = TRUE
    <3>1. q.what \in Pages!AllPanes
      BY <1>1, <2>1, PagesFacts DEF IsPageCall
    <3>2. d.shows = pagesVersion[q.of][q.what]
      BY <1>3, <2>1
    <3> QED BY <1>1, <1>6, <3>1, <3>2, PagesFacts
  <2>2. CASE q.load = FALSE
    <3>1. d.shows = 0
      BY <1>3, <2>2
    <3> QED BY <3>1, PagesConstants
  <2> QED BY <1>6, <2>1, <2>2
<1>8. IsPageCall(d, pagesPage)
  <2>1. d.load \in BOOLEAN /\ d.served \in BOOLEAN
    BY <1>3, <1>6, Zenon
  <2> QED BY <1>1, <1>3, <1>7, <2>1 DEF IsPageCall
<1>9. \A r \in pagesCalls' : IsPageCall(r, pagesPage)
  BY <1>1, <1>2, <1>8 DEF PagesTypes
<1>10. pagesPane' \in [Pages!AllPanes -> (Item \cup {Pages!None}) \X (0 .. MaxPageActs)]
  BY <1>1, <1>2 DEF PagesTypes, Pages!TypeOK
<1>11. CASE q.load = TRUE
  <2>1. pagesVersion' = pagesVersion
    BY <1>11 DEF Pages!Serve
  <2>2. Unserved(pagesCalls') \subseteq Unserved(pagesCalls)
    BY <1>2, <1>4 DEF Unserved
  <2>3. PagesTypes'
    <3>1. pagesActs <= MaxPageActs
      BY <1>1, PagesFacts, PagesConstants
    <3> QED BY <1>1, <1>2, <1>9, <1>10, <2>1, <2>2, <3>1, PagesFacts, PagesTypesKept
  <2>4. ASSUME CallsFit, PanesFit
        PROVE  CallsFit' /\ PanesFit'
    <3>1. d.shows = pagesVersion[d.of][d.what] /\ d.load = TRUE /\ d.load # FALSE
      BY <1>3, <1>11
    <3>2. \A r \in pagesCalls' : r.of = q.of
      BY <1>2, <1>3, <2>4 DEF CallsFit
    <3>3. \A r \in pagesCalls' : r.load = TRUE
      <4>1. \A r \in pagesCalls : r.load \in BOOLEAN
        BY <1>1 DEF PagesTypes, IsPageCall
      <4>2. ASSUME NEW r \in pagesCalls, r.load = FALSE
            PROVE  FALSE
        <5>1. r = q
          BY <2>4, <4>2 DEF CallsFit
        <5> QED BY <1>11, <4>2, <5>1
      <4> QED BY <1>2, <3>1, <4>1, <4>2
    <3>4. \/ q.of = pagesSelected
          \/ \E r \in pagesCalls' : r.load = TRUE /\ Pages!Selecting(r.what)
      <4>1. CASE q.of = pagesSelected
        BY <4>1
      <4>2. CASE q.of # pagesSelected
        <5>1. PICK r \in pagesCalls : r.load = TRUE /\ Pages!Selecting(r.what)
          BY <2>4, <4>2 DEF CallsFit
        <5> QED BY <1>2, <1>3, <3>1, <5>1
      <4> QED BY <4>1, <4>2
    <3>5. \A r \in pagesCalls' : r.served = TRUE => r.shows = pagesVersion[r.of][r.what]
      BY <1>2, <2>4, <3>1, <3>3 DEF CallsFit
    <3>6. CallsFit'
      <4>1. \A r \in pagesCalls' : r.load # FALSE
        BY <3>3
      <4> QED BY <1>2, <2>1, <3>2, <3>4, <3>5, <4>1 DEF CallsFit
    <3>7. ASSUME NEW x \in Pages!Panes[pagesPage]
          PROVE  \/ pagesPane[x] = <<q.of, pagesVersion[q.of][x]>>
                 \/ \E r \in pagesCalls' : Brings(r, x)
      <4>1. \/ pagesPane[x] = <<q.of, pagesVersion[q.of][x]>>
            \/ \E r \in pagesCalls : Brings(r, x)
        BY <2>4 DEF PanesFit
      <4>2. ASSUME NEW r \in pagesCalls, Brings(r, x)
            PROVE  \E s \in pagesCalls' : Brings(s, x)
        BY <1>2, <1>5, <4>2
      <4> QED BY <4>1, <4>2
    <3>8. pagesCalls' # {}
      BY <1>2
    <3>9. PanesFit'
      BY <1>2, <2>1, <3>2, <3>7, <3>8 DEF PanesFit
    <3> QED BY <3>6, <3>9
  <2> QED BY <1>2, <2>3, <2>4 DEF PagesInv
<1>12. CASE q.load = FALSE
  <2> PICK old : old = Unserved(pagesCalls)
    OBVIOUS
  <2>1. /\ q.what \in Pages!Ops[pagesPage] /\ q.what.changes \subseteq q.what.reloads
        /\ pagesVersion' = [pagesVersion EXCEPT ![q.of] = [x \in Pages!AllPanes |->
               pagesVersion[q.of][x] + (IF x \in q.what.changes THEN 1 ELSE 0)]]
    <3>1. q.what \in Pages!Ops[pagesPage]
      BY <1>1, <1>12 DEF IsPageCall
    <3>2. q.what.changes \subseteq q.what.reloads
      BY <1>1, <3>1, PagesFacts, OperationsFitThePage
    <3> QED BY <1>12, <3>1, <3>2 DEF Pages!Serve
  <2>2. pagesVersion \in [Item -> [Pages!AllPanes -> 0 .. MaxPageActs]]
    BY <1>1 DEF PagesTypes, Pages!TypeOK
  <2>3. Unserved(pagesCalls') = old \ {q} /\ q \in old
    BY <1>2, <1>4, <1>12 DEF Unserved
  <2>4. /\ IsFiniteSet(old)
        /\ \A i \in Item : \A x \in Pages!AllPanes :
              pagesVersion[i][x] + Cardinality(old) <= pagesActs
    BY <1>1 DEF PagesTypes, VersionsFit
  <2>5. IsFiniteSet(old \ {q}) /\ Cardinality(old \ {q}) = Cardinality(old) - 1
    BY <2>3, <2>4, FS_RemoveElement
  <2>6. Cardinality(old) \in Nat /\ Cardinality(old \ {q}) \in Nat
    BY <2>4, <2>5, FS_CardinalityType
  <2>7. \A i \in Item : \A x \in Pages!AllPanes :
           /\ pagesVersion'[i][x] \in {pagesVersion[i][x], pagesVersion[i][x] + 1}
           /\ i # q.of \/ x \notin q.what.changes => pagesVersion'[i][x] = pagesVersion[i][x]
    <3> SUFFICES ASSUME NEW i \in Item, NEW x \in Pages!AllPanes
                 PROVE  /\ pagesVersion'[i][x] \in {pagesVersion[i][x], pagesVersion[i][x] + 1}
                        /\ i # q.of \/ x \notin q.what.changes =>
                              pagesVersion'[i][x] = pagesVersion[i][x]
      OBVIOUS
    <3>1. pagesVersion[i][x] \in Nat
      BY <1>1, PagesFacts, PagesConstants
    <3>2. CASE i = q.of
      <4>1. pagesVersion'[i] = [y \in Pages!AllPanes |->
               pagesVersion[i][y] + (IF y \in q.what.changes THEN 1 ELSE 0)]
        BY <2>1, <2>2, <3>2
      <4> QED BY <3>1, <3>2, <4>1
    <3>3. CASE i # q.of
      <4>1. pagesVersion'[i] = pagesVersion[i]
        BY <2>1, <2>2, <3>3
      <4> QED BY <3>1, <3>3, <4>1
    <3> QED BY <3>2, <3>3
  <2>8. \A i \in Item : \A x \in Pages!AllPanes :
           /\ pagesVersion'[i][x] \in Nat
           /\ pagesVersion'[i][x] + Cardinality(old \ {q}) <= pagesActs
    <3> SUFFICES ASSUME NEW i \in Item, NEW x \in Pages!AllPanes
                 PROVE  /\ pagesVersion'[i][x] \in Nat
                        /\ pagesVersion'[i][x] + Cardinality(old \ {q}) <= pagesActs
      OBVIOUS
    <3> PICK v : v = pagesVersion[i][x]
      OBVIOUS
    <3> PICK w : w = pagesVersion'[i][x]
      OBVIOUS
    <3> PICK n : n = Cardinality(old)
      OBVIOUS
    <3> PICK m : m = Cardinality(old \ {q})
      OBVIOUS
    <3>1. v \in Nat /\ pagesActs \in Nat
      BY <1>1, PagesFacts, PagesConstants
    <3>2. w \in {v, v + 1} /\ v + n <= pagesActs /\ m = n - 1 /\ n \in Nat
      BY <2>4, <2>5, <2>6, <2>7
    <3>3. w \in Nat /\ w + m <= pagesActs
      BY <3>1, <3>2
    <3> QED BY <3>3
  <2>9. VersionsFit(pagesVersion', Unserved(pagesCalls'), pagesActs')
    BY <1>2, <2>3, <2>5, <2>8 DEF VersionsFit
  <2>10. pagesVersion' \in [Item -> [Pages!AllPanes -> 0 .. MaxPageActs]]
    <3>1. /\ DOMAIN pagesVersion' = Item /\ pagesVersion' = [i \in Item |-> pagesVersion'[i]]
          /\ \A i \in Item : pagesVersion'[i] = [x \in Pages!AllPanes |-> pagesVersion'[i][x]]
      BY <2>1, <2>2
    <3>2. \A i \in Item : \A x \in Pages!AllPanes : pagesVersion'[i][x] \in 0 .. MaxPageActs
      <4> SUFFICES ASSUME NEW i \in Item, NEW x \in Pages!AllPanes
                   PROVE  pagesVersion'[i][x] \in 0 .. MaxPageActs
        OBVIOUS
      <4> PICK w : w = pagesVersion'[i][x]
        OBVIOUS
      <4> PICK m : m = Cardinality(old \ {q})
        OBVIOUS
      <4>1. pagesActs \in Nat /\ pagesActs <= MaxPageActs
        BY <1>1, PagesFacts, PagesConstants
      <4>2. w \in Nat /\ w + m <= pagesActs /\ m \in Nat
        BY <2>6, <2>8
      <4>3. w \in 0 .. MaxPageActs
        BY <4>1, <4>2, PagesConstants
      <4> QED BY <4>3
    <3>3. \A i \in Item : pagesVersion'[i] \in [Pages!AllPanes -> 0 .. MaxPageActs]
      BY <3>1, <3>2
    <3> QED BY <3>1, <3>3
  <2>11. PagesTypes'
    <3>1. \A r \in pagesCalls' : r.of \in Item /\ r.no \in 0 .. MaxPageActs /\ r.served \in BOOLEAN
      BY <1>9 DEF IsPageCall
    <3>2. Pages!TypeOK'
      BY <1>1, <1>2, <2>10, <3>1 DEF PagesTypes, Pages!TypeOK, Pages!AllPanes
    <3> QED BY <1>2, <1>9, <2>9, <3>2 DEF PagesTypes
  <2>12. ASSUME CallsFit, PanesFit
         PROVE  CallsFit' /\ PanesFit'
    <3>1. pagesCalls = {q} /\ q.of = pagesSelected /\ pagesCalls' = {d}
      BY <1>2, <1>12, <2>12 DEF CallsFit
    <3>2. d.load = FALSE /\ d.load # TRUE /\ d.of = pagesSelected
      BY <1>3, <1>12, <3>1
    <3>3. CallsFit'
      BY <1>2, <3>1, <3>2 DEF CallsFit
    <3>4. ASSUME NEW x \in Pages!Panes[pagesPage]
          PROVE  pagesPane[x] = <<d.of, pagesVersion'[d.of][x]>> \/ Brings(d, x)
      <4>1. pagesPane[x] = <<q.of, pagesVersion[q.of][x]>> \/ Brings(q, x)
        BY <2>12, <3>1 DEF PanesFit
      <4>2. x \in q.what.changes => Brings(q, x)
        BY <1>3, <2>1, <3>2 DEF Brings
      <4>3. x \notin q.what.changes => pagesVersion'[q.of][x] = pagesVersion[q.of][x]
        BY <1>1, <1>6, <2>7, PagesFacts
      <4> QED BY <1>3, <1>5, <4>1, <4>2, <4>3
    <3>5. PanesFit'
      BY <1>2, <3>1, <3>4 DEF PanesFit
    <3> QED BY <3>3, <3>5
  <2> QED BY <1>2, <2>11, <2>12 DEF PagesInv
<1> QED BY <1>6, <1>11, <1>12
-----------------------------------------------------------------------------
\* Data arrive.
LEMMA LoadedStep ==
    ASSUME PagesInv, NEW q \in pagesCalls, Pages!Loaded(q)
    PROVE  PagesInv'
<1>1. PagesTypes /\ IsPageCall(q, pagesPage)
  BY DEF PagesInv, PagesTypes
<1>2. /\ q.load = TRUE /\ q.served = TRUE /\ q.what \in Pages!Panes[pagesPage]
      /\ q.of \in Item /\ q.shows \in 0 .. MaxPageActs
  <2>1. q.served \in BOOLEAN /\ q.load \in BOOLEAN
    BY <1>1 DEF IsPageCall
  <2>2. q.load = TRUE /\ q.served = TRUE
    BY <2>1 DEF Pages!Loaded
  <2> QED BY <1>1, <2>2 DEF IsPageCall
<1>3. /\ pagesPane' = [pagesPane EXCEPT ![q.what] = <<q.of, q.shows>>]
      /\ pagesSelected' = IF Pages!Selecting(q.what) THEN q.of ELSE pagesSelected
      /\ pagesCalls' = pagesCalls \ {q}
      /\ UNCHANGED <<pagesPage, pagesVersion, pagesActs, pagesSingle>>
  BY DEF Pages!Loaded
<1>4. pagesPane \in [Pages!AllPanes -> (Item \cup {Pages!None}) \X (0 .. MaxPageActs)]
      /\ Pages!Panes[pagesPage] \subseteq Pages!AllPanes
  BY <1>1, PagesFacts DEF PagesTypes, Pages!TypeOK
<1>5. /\ pagesPane'[q.what] = <<q.of, q.shows>>
      /\ \A x \in Pages!Panes[pagesPage] : x # q.what => pagesPane'[x] = pagesPane[x]
  BY <1>2, <1>3, <1>4
<1>6. PagesTypes'
  <2>1. <<q.of, q.shows>> \in (Item \cup {Pages!None}) \X (0 .. MaxPageActs)
    BY <1>2
  <2>2. pagesPane' \in [Pages!AllPanes -> (Item \cup {Pages!None}) \X (0 .. MaxPageActs)]
    BY <1>3, <1>4, <2>1
  <2>3. pagesSelected' \in Item \cup {Pages!None}
    BY <1>1, <1>2, <1>3, PagesFacts
  <2>4. Unserved(pagesCalls') \subseteq Unserved(pagesCalls)
    BY <1>3 DEF Unserved
  <2>5. \A r \in pagesCalls' : IsPageCall(r, pagesPage)
    BY <1>1, <1>3 DEF PagesTypes
  <2>6. pagesActs <= MaxPageActs
    BY <1>1, PagesFacts, PagesConstants
  <2> QED BY <1>1, <1>3, <2>2, <2>3, <2>4, <2>5, <2>6, PagesFacts, PagesTypesKept
<1>7. ASSUME CallsFit, PanesFit
      PROVE  CallsFit' /\ PanesFit'
  <2>1. q.shows = pagesVersion[q.of][q.what] /\ \A r \in pagesCalls : r.of = q.of
    BY <1>2, <1>7 DEF CallsFit
  <2>2. \A r \in pagesCalls' : r.load # FALSE
    <3> SUFFICES ASSUME NEW r \in pagesCalls', r.load = FALSE
                 PROVE  FALSE
      OBVIOUS
    <3>1. r \in pagesCalls /\ r # q
      BY <1>3
    <3> QED BY <1>7, <3>1 DEF CallsFit
  <2>3. pagesSelected' = q.of \/ \E r \in pagesCalls' : r.load = TRUE /\ Pages!Selecting(r.what)
    <3>1. CASE Pages!Selecting(q.what)
      BY <1>3, <3>1
    <3>2. CASE ~Pages!Selecting(q.what)
      <4>1. \/ q.of = pagesSelected
            \/ \E r \in pagesCalls : r.load = TRUE /\ Pages!Selecting(r.what)
        BY <1>7 DEF CallsFit
      <4> QED BY <1>3, <3>2, <4>1
    <3> QED BY <3>1, <3>2
  <2>4. CallsFit'
    BY <1>3, <1>7, <2>1, <2>2, <2>3 DEF CallsFit
  <2>5. ASSUME NEW x \in Pages!Panes[pagesPage]
        PROVE  \/ pagesPane'[x] = <<q.of, pagesVersion[q.of][x]>>
               \/ \E r \in pagesCalls' : Brings(r, x)
    <3>1. CASE x = q.what
      BY <1>5, <2>1, <3>1
    <3>2. CASE x # q.what
      <4>1. \/ pagesPane[x] = <<q.of, pagesVersion[q.of][x]>>
            \/ \E r \in pagesCalls : Brings(r, x)
        BY <1>7 DEF PanesFit
      <4>2. ~Brings(q, x)
        BY <1>2, <3>2 DEF Brings
      <4> QED BY <1>3, <1>5, <3>2, <4>1, <4>2
    <3> QED BY <3>1, <3>2
  <2>6. pagesCalls' = {} => pagesSelected' = q.of
    BY <2>3
  <2>7. PanesFit'
    <3>1. \A r \in pagesCalls' : r.of = q.of
      BY <1>3, <2>1
    <3> QED BY <1>3, <2>5, <2>6, <3>1 DEF PanesFit
  <2> QED BY <2>4, <2>7
<1> QED BY <1>3, <1>6, <1>7 DEF PagesInv

\* What was asked is done, and the panes are loaded again.
LEMMA DoneStep ==
    ASSUME PagesInv, NEW q \in pagesCalls, Pages!Done(q)
    PROVE  PagesInv'
<1> PICK item : item = IF pagesPage \in Pages!RefreshesSelected THEN pagesSelected ELSE q.of
  OBVIOUS
<1>1. PagesTypes /\ IsPageCall(q, pagesPage)
  BY DEF PagesInv, PagesTypes
<1>2. /\ q.load = FALSE /\ q.what \in Pages!Ops[pagesPage]
      /\ q.of \in Item /\ q.no \in 0 .. MaxPageActs
      /\ q.what.reloads \subseteq Pages!Panes[pagesPage]
  <2>1. q.load \in BOOLEAN
    BY <1>1 DEF IsPageCall
  <2>2. q.load = FALSE
    BY <2>1 DEF Pages!Done
  <2>3. q.what \in Pages!Ops[pagesPage]
    BY <1>1, <2>2 DEF IsPageCall
  <2> QED BY <1>1, <2>2, <2>3, PagesFacts, OperationsFitThePage DEF IsPageCall
<1>3. /\ pagesCalls' = (pagesCalls \ {q}) \cup
            (IF item = Pages!None THEN {}
             ELSE {[Pages!Load(item, x) EXCEPT !.no = q.no] : x \in q.what.reloads})
      /\ UNCHANGED <<pagesPage, pagesSelected, pagesPane, pagesVersion, pagesActs, pagesSingle>>
  BY DEF Pages!Done
<1>4. ASSUME NEW x \in q.what.reloads, item # Pages!None,
             NEW r, r = [Pages!Load(item, x) EXCEPT !.no = q.no]
      PROVE  IsNewLoad(r, item, x, pagesPage)
  <2>1. IsLoad(r, item, x, q.no)
    BY <1>4 DEF Pages!Load, IsLoad
  <2>2. item \in Item
    BY <1>1, <1>2, <1>4, PagesFacts
  <2>3. x \in Pages!Panes[pagesPage]
    BY <1>2
  <2> QED BY <1>2, <2>1, <2>2, <2>3, LoadsAreCalls
<1>5. \A r \in pagesCalls' : r \in pagesCalls \ {q} \/
         /\ IsPageCall(r, pagesPage) /\ r.load = TRUE /\ r.of = item
         /\ r.served = FALSE /\ r.what \in Pages!Panes[pagesPage]
  <2> SUFFICES ASSUME NEW r \in pagesCalls', r \notin pagesCalls \ {q}
               PROVE  /\ IsPageCall(r, pagesPage) /\ r.load = TRUE /\ r.of = item
                      /\ r.served = FALSE /\ r.what \in Pages!Panes[pagesPage]
    OBVIOUS
  <2>1. item # Pages!None
    BY <1>3
  <2>2. PICK x \in q.what.reloads : r = [Pages!Load(item, x) EXCEPT !.no = q.no]
    BY <1>3, <2>1
  <2>3. x \in Pages!Panes[pagesPage]
    BY <1>2
  <2>4. IsNewLoad(r, item, x, pagesPage)
    BY <1>4, <2>1, <2>2
  <2> QED BY <2>3, <2>4 DEF IsNewLoad
<1>6. PagesTypes'
  <2>1. \A r \in pagesCalls' : IsPageCall(r, pagesPage)
    BY <1>1, <1>5 DEF PagesTypes
  <2>2. Unserved(pagesCalls') \subseteq Unserved(pagesCalls)
    BY <1>5 DEF Unserved
  <2>3. pagesActs <= MaxPageActs
    BY <1>1, PagesFacts, PagesConstants
  <2>4. pagesPane' \in [Pages!AllPanes -> (Item \cup {Pages!None}) \X (0 .. MaxPageActs)]
    BY <1>1, <1>3 DEF PagesTypes, Pages!TypeOK
  <2> QED BY <1>1, <1>3, <2>1, <2>2, <2>3, <2>4, PagesFacts, PagesTypesKept
<1>7. ASSUME CallsFit, PanesFit
      PROVE  CallsFit' /\ PanesFit'
  <2>1. pagesCalls = {q} /\ q.of = pagesSelected /\ item = pagesSelected
        /\ item # Pages!None
    BY <1>2, <1>7, PagesConstants DEF CallsFit
  <2>2. \A r \in pagesCalls' : r.load = TRUE /\ r.of = pagesSelected /\ r.served = FALSE
    BY <1>5, <2>1
  <2>3. CallsFit'
    <3>1. \A r \in pagesCalls' : r.load # FALSE /\ r.served # TRUE
      BY <2>2
    <3> QED BY <1>3, <2>2, <3>1 DEF CallsFit
  <2>4. ASSUME NEW x \in Pages!Panes[pagesPage]
        PROVE  \/ pagesPane[x] = <<pagesSelected, pagesVersion[pagesSelected][x]>>
               \/ \E r \in pagesCalls' : Brings(r, x)
    <3>1. pagesPane[x] = <<pagesSelected, pagesVersion[pagesSelected][x]>> \/ Brings(q, x)
      BY <1>7, <2>1 DEF PanesFit
    <3>2. ASSUME Brings(q, x)
          PROVE  \E r \in pagesCalls' : Brings(r, x)
      <4>1. x \in q.what.reloads
        BY <1>2, <3>2 DEF Brings
      <4> PICK r : r = [Pages!Load(item, x) EXCEPT !.no = q.no]
        OBVIOUS
      <4>2. r \in pagesCalls' /\ r.load = TRUE /\ r.what = x
        BY <1>3, <1>4, <2>1, <4>1 DEF IsNewLoad
      <4> QED BY <4>2 DEF Brings
    <3> QED BY <3>1, <3>2
  <2>5. PanesFit'
    BY <1>3, <2>2, <2>4 DEF PanesFit
  <2> QED BY <2>3, <2>5
<1> QED BY <1>3, <1>6, <1>7 DEF PagesInv

LEMMA LostStep ==
    ASSUME PagesInv, NEW q \in pagesCalls, Pages!Lost(q)
    PROVE  PagesInv'
<1>1. PagesTypes
  BY DEF PagesInv
<1>2. /\ pagesCalls' = pagesCalls \ {q} /\ pagesSingle' = FALSE
      /\ UNCHANGED <<pagesPage, pagesSelected, pagesPane, pagesVersion, pagesActs>>
  BY DEF Pages!Lost
<1>3. PagesTypes'
  <2>1. \A r \in pagesCalls' : IsPageCall(r, pagesPage)
    BY <1>1, <1>2 DEF PagesTypes
  <2>2. Unserved(pagesCalls') \subseteq Unserved(pagesCalls)
    BY <1>2 DEF Unserved
  <2>3. pagesActs <= MaxPageActs
    BY <1>1, PagesFacts, PagesConstants
  <2>4. pagesPane' \in [Pages!AllPanes -> (Item \cup {Pages!None}) \X (0 .. MaxPageActs)]
    BY <1>1, <1>2 DEF PagesTypes, Pages!TypeOK
  <2> QED BY <1>1, <1>2, <2>1, <2>2, <2>3, <2>4, PagesFacts, PagesTypesKept
<1>4. pagesSingle' # TRUE
  BY <1>2
<1> QED BY <1>3, <1>4 DEF PagesInv

LEMMA PagesInitially == ASSUME AllInit PROVE PagesInv
<1>1. /\ pagesPage \in ListPage /\ pagesSelected = Pages!None
      /\ pagesPane = [x \in Pages!AllPanes |-> Pages!Empty]
      /\ pagesVersion = [i \in Item |-> [x \in Pages!AllPanes |-> 0]]
      /\ pagesCalls = {} /\ pagesActs = 0 /\ pagesSingle = TRUE
  BY DEF AllInit, Pages!Init
<1>2. Pages!TypeOK
  <2>1. 0 \in 0 .. MaxPageActs
    BY PagesConstants
  <2>2. Pages!Empty \in (Item \cup {Pages!None}) \X (0 .. MaxPageActs)
    BY <2>1 DEF Pages!Empty
  <2>3. pagesPane \in [Pages!AllPanes -> (Item \cup {Pages!None}) \X (0 .. MaxPageActs)]
    BY <1>1, <2>2
  <2>4. pagesVersion \in [Item -> [Pages!AllPanes -> 0 .. MaxPageActs]]
    BY <1>1, <2>1
  <2>5. pagesSingle \in BOOLEAN
    BY <1>1
  <2>6. \A q \in pagesCalls : q.of \in Item /\ q.no \in 0 .. MaxPageActs /\ q.served \in BOOLEAN
    BY <1>1
  <2> QED BY <1>1, <2>1, <2>3, <2>4, <2>5, <2>6 DEF Pages!TypeOK
<1>3. Unserved(pagesCalls) = {}
  BY <1>1 DEF Unserved
<1>4. IsFiniteSet({}) /\ Cardinality({}) = 0
  BY FS_EmptySet
<1>5. VersionsFit(pagesVersion, Unserved(pagesCalls), pagesActs)
  BY <1>1, <1>3, <1>4 DEF VersionsFit
<1>6. CallsFit /\ PanesFit
  BY <1>1 DEF CallsFit, PanesFit
<1> QED BY <1>1, <1>2, <1>5, <1>6 DEF PagesInv, PagesTypes

LEMMA PagesNext == ASSUME PagesInv, [AllNext]_allVars PROVE PagesInv'
<1>1. [Pages!Next]_(Pages!vars)
  BY PagesSteps
<1>2. CASE Pages!Next
  <2>1. ASSUME NEW op \in Pages!Ops[pagesPage], Pages!Do(op)
        PROVE  PagesInv'
    BY <2>1, DoStep
  <2>2. ASSUME NEW q \in pagesCalls,
               Pages!Serve(q) \/ Pages!Loaded(q) \/ Pages!Done(q) \/ Pages!Lost(q)
        PROVE  PagesInv'
    BY <2>2, ServeStep, LoadedStep, DoneStep, LostStep
  <2> QED BY <1>2, <2>1, <2>2, OpenStep, BackStep DEF Pages!Next
<1>3. CASE UNCHANGED Pages!vars
  BY <1>3 DEF Pages!vars, PagesInv, PagesTypes, CallsFit, PanesFit, Pages!TypeOK, Pages!AllPanes
<1> QED BY <1>1, <1>2, <1>3

LEMMA PagesSuffices == PagesInv => Pages!TypeOK /\ Pages!QuietPagesAreCurrent
BY DEF PagesInv, PagesTypes, PanesFit, Pages!QuietPagesAreCurrent
-----------------------------------------------------------------------------
\* Pages that wait for nothing show what the server has, what a button says is
\* charged, and a quote is for its pair, under the conditions the modules name,
\* for any goal, amounts, items and bounds (donate-card, sponsor box, deposit
\* and list pages).
THEOREM PagesAlwaysTellTheTruth == AllSpec => []PagesTellTheTruth
<1> DEFINE Inv == CheckoutInv /\ DepositInv /\ PagesInv
<1>1. AllInit => Inv
  BY CheckoutInitially, DepositInitially, PagesInitially
<1>2. Inv /\ [AllNext]_allVars => Inv'
  BY CheckoutNext, DepositNext, PagesNext
<1>3. Inv => PagesTellTheTruth
  BY CheckoutSuffices, DepositSuffices, PagesSuffices DEF PagesTellTheTruth
<1> QED BY <1>1, <1>2, <1>3, PTL DEF AllSpec
-----------------------------------------------------------------------------
(* Observability: silence is kept by each tab alone; percentiles and       *)
(* alarms are about the samples kept, whatever they are.                   *)
-----------------------------------------------------------------------------
\* A step of the whole is one of Consent, or leaves it alone.
LEMMA ConsentSteps == [AllNext]_allVars => [Consent!Next]_(Consent!vars)
BY DEF AllNext, OtherParts, allVars, consent, Consent!vars

LEMMA ConsentConstants ==
    /\ {3, CriticalWebhooks, 0, ConsentMaxEvents, 0, 0} \subseteq Nat
    /\ 3 > 0 /\ {} \subseteq Nat
    /\ AlertWindow \in [{"fast", "fast_short", "slow", "slow_short"} -> Nat]
BY CommunityAssumption DEF Consent!ObservabilityAssumption

LEMMA ConsentCounts == \A S : Consent!Cardinality(S) = Cardinality(S)
BY DEF Consent!Cardinality, Cardinality

LEMMA ConsentInitialTypes == AllInit => Consent!TypeOK
<1> SUFFICES ASSUME AllInit PROVE Consent!TypeOK
  OBVIOUS
<1>1. Consent!Init
  BY DEF AllInit
<1>2. 0 \in 0 .. 0 /\ 0 \in 0 .. 0 /\ 0 \in Nat
  BY ConsentConstants
<1> QED BY <1>1, <1>2 DEF Consent!Init, Consent!TypeOK, Consent!Consents

LEMMA ConsentTypeStep == ASSUME Consent!TypeOK, [AllNext]_allVars PROVE Consent!TypeOK'
<1> DEFINE Events == [type : ConsentEvent, tab : ConsentTab]
           Samples == [route : {}, status : {200, 400, 500}, ms : {}, at : 0 .. 0]
<1>1. /\ consentStored \in Consent!Consents /\ consentConsent \in [ConsentTab -> Consent!Consents \cup {"closed"}]
      /\ consentEvents \in Seq(Events) /\ consentSamples \in Seq(Samples)
      /\ consentCards \in Seq({"CAPTURED", "FAILED"}) /\ consentTurnedAway \in Nat
      /\ consentRequests \in 0 .. 0 /\ consentNow \in 0 .. 0
  BY DEF Consent!TypeOK
<1>2. ASSUME /\ consentStored' \in Consent!Consents
             /\ consentConsent' \in [ConsentTab -> Consent!Consents \cup {"closed"}]
             /\ consentEvents' \in Seq(Events) /\ consentSamples' \in Seq(Samples)
             /\ consentCards' \in Seq({"CAPTURED", "FAILED"}) /\ consentTurnedAway' \in Nat
             /\ consentRequests' \in 0 .. 0 /\ consentNow' \in 0 .. 0
      PROVE  Consent!TypeOK'
  BY <1>2 DEF Consent!TypeOK
<1>3. [Consent!Next]_(Consent!vars)
  BY ConsentSteps
<1>4. ASSUME NEW t \in ConsentTab, Consent!Open(t)
      PROVE  Consent!TypeOK'
  BY <1>1, <1>2, <1>4 DEF Consent!Open
<1>5. ASSUME NEW t \in ConsentTab, NEW granted \in BOOLEAN, Consent!Decide(t, granted)
      PROVE  Consent!TypeOK'
  <2>1. consentStored' \in Consent!Consents
    BY <1>5 DEF Consent!Decide, Consent!Consents
  <2> QED BY <1>1, <1>2, <1>5, <2>1 DEF Consent!Decide
<1>6. ASSUME NEW t \in ConsentTab, NEW type \in ConsentEvent, Consent!Track(t, type)
      PROVE  Consent!TypeOK'
  <2>1. [type |-> type, tab |-> t] \in Events
    OBVIOUS
  <2>2. Append(consentEvents, [type |-> type, tab |-> t]) \in Seq(Events)
    BY <1>1, <2>1, AppendProperties
  <2>3. consentEvents' \in Seq(Events)
    BY <1>1, <1>6, <2>2 DEF Consent!Track
  <2> QED BY <1>1, <1>2, <1>6, <2>3 DEF Consent!Track
<1>7. ASSUME NEW route \in {}, NEW status \in {200, 400, 500}, NEW ms \in {},
             Consent!Serve(route, status, ms)
      PROVE  Consent!TypeOK'
  <2> DEFINE sample == [route |-> route, status |-> status, ms |-> ms, at |-> consentNow]
  <2>1. sample \in Samples
    BY <1>1
  <2>2. PICK kept : /\ kept = IF Len(consentSamples) >= 3 THEN Tail(consentSamples) ELSE consentSamples
                    /\ consentSamples' = Append(kept, sample)
    BY <1>7 DEF Consent!Serve, Consent!Record
  <2>3. kept \in Seq(Samples)
    <3>1. CASE Len(consentSamples) >= 3
      <4>1. consentSamples # <<>>
        BY <1>1, <3>1, ConsentConstants
      <4>2. Tail(consentSamples) \in Seq(Samples)
        BY <1>1, <4>1, HeadTailProperties
      <4> QED BY <2>2, <3>1, <4>2
    <3>2. CASE ~(Len(consentSamples) >= 3)
      BY <1>1, <2>2, <3>2
    <3> QED BY <3>1, <3>2
  <2>4. consentSamples' \in Seq(Samples)
    BY <2>1, <2>2, <2>3, AppendProperties
  <2>5. consentRequests' \in 0 .. 0
    BY <1>1, <1>7, ConsentConstants DEF Consent!Serve
  <2> QED BY <1>1, <1>2, <1>7, <2>4, <2>5 DEF Consent!Serve
<1>8. ASSUME NEW route \in {}, Consent!TurnAway(route)
      PROVE  Consent!TypeOK'
  <2>1. consentRequests' \in 0 .. 0 /\ consentTurnedAway' \in Nat
    BY <1>1, <1>8, ConsentConstants DEF Consent!TurnAway
  <2> QED BY <1>1, <1>2, <1>8, <2>1 DEF Consent!TurnAway
<1>9. ASSUME NEW status \in {"CAPTURED", "FAILED"}, Consent!CardDonation(status)
      PROVE  Consent!TypeOK'
  <2>1. consentCards' \in Seq({"CAPTURED", "FAILED"})
    BY <1>1, <1>9, AppendProperties DEF Consent!CardDonation
  <2> QED BY <1>1, <1>2, <1>9, <2>1 DEF Consent!CardDonation
<1>10. CASE Consent!Tick
  <2>1. consentNow' \in 0 .. 0
    BY <1>1, <1>10, ConsentConstants DEF Consent!Tick
  <2> QED BY <1>1, <1>2, <1>10, <2>1 DEF Consent!Tick
<1>11. CASE UNCHANGED Consent!vars
  BY <1>1, <1>2, <1>11 DEF Consent!vars
<1> QED BY <1>3, <1>4, <1>5, <1>6, <1>7, <1>8, <1>9, <1>10, <1>11 DEF Consent!Next

\* Burning budget is burnt by errors.
LEMMA ConsentBurnsByErrors ==
    ASSUME Consent!TypeOK, NEW w, NEW tenths \in Nat \ {0}, Consent!Burns(w, tenths)
    PROVE  \E i \in Consent!Since(w) : consentSamples[i].status >= 500
<1> PICK S : S = Consent!Since(w)
  OBVIOUS
<1> PICK E : E = {i \in S : consentSamples[i].status >= 500}
  OBVIOUS
<1>1. Len(consentSamples) \in Nat /\ S \in SUBSET (1 .. Len(consentSamples))
  BY DEF Consent!TypeOK, Consent!Since
<1>2. /\ Cardinality(S) \in Nat /\ Cardinality(E) \in Nat
      /\ Cardinality(S) = 0 <=> S = {}
      /\ Cardinality(E) = 0 <=> E = {}
  <2>1. E \in SUBSET (1 .. Len(consentSamples))
    BY <1>1
  <2> QED BY <1>1, <2>1, PlacesAreCounted
<1>3. S # {} /\ 10000 * Consent!Cardinality(E) >= tenths * Consent!Cardinality(S)
  BY DEF Consent!Burns
<1>4. 10000 * Cardinality(E) >= tenths * Cardinality(S) /\ S # {}
  BY <1>3, ConsentCounts
<1>5. Cardinality(S) \in Nat \ {0}
  BY <1>2, <1>3
<1>6. \A x, y \in Nat \ {0} : x * y > 0
  OBVIOUS
<1>7. tenths * Cardinality(S) > 0
  BY <1>5, <1>6
<1>8. Cardinality(E) # 0
  <2> PICK t : t = tenths * Cardinality(S)
    OBVIOUS
  <2> PICK c : c = Cardinality(E)
    OBVIOUS
  <2>1. 10000 * c >= t /\ t > 0 /\ t \in Int /\ c \in Nat
    BY <1>2, <1>4, <1>7
  <2> QED BY <2>1
<1> QED BY <1>2, <1>8

\* The greater of two.
LEMMA ConsentGreater == \A x, y \in Int : Consent!Max({x, y}) = IF x >= y THEN x ELSE y
BY DEF Consent!Max

LEMMA ConsentShares ==
    \A part, whole \in Int :
        /\ Consent!Pct(part, whole) \in Int
        /\ part <= whole => Consent!Pct(part, whole) <= 1000
        /\ part = 0 => Consent!Pct(part, whole) = 0
<1> TAKE part, whole \in Int
<1>1. CASE whole <= 0
  BY <1>1 DEF Consent!Pct
<1>2. CASE whole > 0
  <2>1. whole \in Nat \ {0}
    BY <1>2
  <2>2. Consent!Pct(part, whole) = (2000 * part + whole) \div (2 * whole)
    BY <1>2 DEF Consent!Pct
  <2> QED BY <2>1, <2>2, RoundedShares
<1> QED BY <1>1, <1>2

\* What is counted is a number.
LEMMA ConsentStepsAreCounted == Consent!TypeOK => \A type : Consent!Count(type) \in Nat
<1> SUFFICES ASSUME Consent!TypeOK, NEW type PROVE Consent!Count(type) \in Nat
  OBVIOUS
<1> PICK S : S = {i \in DOMAIN consentEvents : consentEvents[i].type = type}
  OBVIOUS
<1>1. Len(consentEvents) \in Nat /\ S \in SUBSET (1 .. Len(consentEvents))
  BY DEF Consent!TypeOK
<1>2. Cardinality(S) \in Nat
  BY <1>1, PlacesAreCounted
<1> QED BY <1>2, ConsentCounts DEF Consent!Count

\* What is left of a step is at most a whole.
LEMMA ConsentLosses ==
    \A m, n \in Nat : Consent!Max({0, Consent!Pct(m - n, m)}) \in 0 .. 1000
<1> TAKE m, n \in Nat
<1> PICK p : p = Consent!Pct(m - n, m)
  OBVIOUS
<1>1. m - n \in Int /\ m - n <= m /\ m \in Int
  OBVIOUS
<1>2. p \in Int /\ p <= 1000
  BY <1>1, ConsentShares
<1>3. Consent!Max({0, p}) = IF 0 >= p THEN 0 ELSE p
  BY <1>2, ConsentGreater
<1> QED BY <1>2, <1>3

LEMMA ConsentFunnelNarrows ==
    ASSUME Consent!TypeOK, NEW steps, NEW i \in DOMAIN Consent!BuildFunnel(steps)
    PROVE  Consent!BuildFunnel(steps)[i].dropOff \in 0 .. 1000
<1>1. Consent!BuildFunnel(steps)[i].dropOff =
        IF i = 1 THEN 0
        ELSE Consent!Max({0, Consent!Pct(Consent!Count(steps[i - 1]) - Consent!Count(steps[i]),
                                 Consent!Count(steps[i - 1]))})
  BY DEF Consent!BuildFunnel
<1>2. Consent!Count(steps[i - 1]) \in Nat /\ Consent!Count(steps[i]) \in Nat
  BY ConsentStepsAreCounted
<1>3. Consent!Max({0, Consent!Pct(Consent!Count(steps[i - 1]) - Consent!Count(steps[i]),
                                 Consent!Count(steps[i - 1]))}) \in 0 .. 1000
  BY <1>2, ConsentLosses
<1> QED BY <1>1, <1>3

LEMMA ConsentAlarms == Consent!TypeOK => Consent!AlarmsHaveACause
<1> SUFFICES ASSUME Consent!TypeOK PROVE Consent!AlarmsHaveACause
  OBVIOUS
<1>1. /\ Consent!Dashboard.slo = Consent!SloAlert
      /\ Consent!Dashboard.alerts.webhooks = Consent!WebhookAlert
      /\ Consent!Dashboard.alerts.cards = Consent!CardAlert
      /\ Consent!Dashboard.metrics.total = Len(consentSamples)
      /\ Consent!Dashboard.funnel = Consent!BuildFunnel(Consent!DonationFunnel)
  BY DEF Consent!Dashboard, Consent!Snapshot
<1>2. Consent!SloAlert = "page" => \E i \in Consent!Since("fast_short") : consentSamples[i].status >= 500
  <2>1. Consent!SloAlert = "page" => Consent!Burns("fast_short", 144)
    BY DEF Consent!SloAlert
  <2> QED BY <2>1, ConsentBurnsByErrors
<1>3. Consent!SloAlert = "ticket" => \E i \in Consent!Since("slow_short") : consentSamples[i].status >= 500
  <2>1. Consent!SloAlert = "ticket" => Consent!Burns("slow_short", 60)
    BY DEF Consent!SloAlert
  <2> QED BY <2>1, ConsentBurnsByErrors
<1>4. Len(consentSamples) \in Nat /\ Len(consentCards) \in Nat
      /\ DOMAIN consentSamples = 1 .. Len(consentSamples) /\ DOMAIN consentCards = 1 .. Len(consentCards)
  BY DEF Consent!TypeOK
<1>5. Consent!WebhookAlert # "none" => Len(consentSamples) > 0
  <2> PICK S : S = {i \in DOMAIN consentSamples : consentSamples[i].route = "webhook"
                                              /\ Consent!Failed(consentSamples[i])}
    OBVIOUS
  <2>1. S \in SUBSET (1 .. Len(consentSamples))
    BY <1>4
  <2>2. Cardinality(S) = 0 <=> S = {}
    BY <1>4, <2>1, PlacesAreCounted
  <2>3. Consent!WebhookAlert # "none" => Consent!WebhookFailures # 0
    BY DEF Consent!WebhookAlert
  <2>4. Consent!WebhookFailures = Cardinality(S)
    BY ConsentCounts DEF Consent!WebhookFailures
  <2> QED BY <1>4, <2>1, <2>2, <2>3, <2>4
<1>6. Consent!CardAlert # "none" => "FAILED" \in {consentCards[i] : i \in DOMAIN consentCards}
  <2> PICK S : S = {i \in DOMAIN consentCards : consentCards[i] = "FAILED"}
    OBVIOUS
  <2>1. S \in SUBSET (1 .. Len(consentCards))
    BY <1>4
  <2>2. Cardinality(S) = 0 <=> S = {}
    BY <1>4, <2>1, PlacesAreCounted
  <2>3. Consent!CardFailed = Cardinality(S)
    BY ConsentCounts DEF Consent!CardFailed
  <2>4. S = {} => Consent!Pct(Consent!CardFailed, Len(consentCards)) = 0
    <3>1. 0 \in Int /\ Len(consentCards) \in Int
      BY <1>4
    <3>2. Consent!Pct(0, Len(consentCards)) = 0
      BY <3>1, ConsentShares
    <3> QED BY <2>2, <2>3, <3>2
  <2>5. Consent!CardAlert # "none" => S # {}
    BY <2>4 DEF Consent!CardAlert
  <2> QED BY <2>5
<1> QED BY <1>1, <1>2, <1>3, <1>5, <1>6, ConsentFunnelNarrows DEF Consent!AlarmsHaveACause
-----------------------------------------------------------------------------
\* A step of the whole is one of Metrics, or leaves it alone.
LEMMA MetricsSteps == [AllNext]_allVars => [Metrics!Next]_(Metrics!vars)
BY DEF AllNext, OtherParts, allVars, metrics, Metrics!vars

LEMMA MetricsConstants ==
    /\ {MetricsCapacity, CriticalWebhooks, MetricsMinCards, 0, MetricsMaxRequests, MetricsMaxTime} \subseteq Nat
    /\ MetricsCapacity > 0 /\ MetricsDuration \subseteq Nat
    /\ AlertWindow \in [{"fast", "fast_short", "slow", "slow_short"} -> Nat]
BY CommunityAssumption DEF Metrics!ObservabilityAssumption

LEMMA MetricsCounts == \A S : Metrics!Cardinality(S) = Cardinality(S)
BY DEF Metrics!Cardinality, Cardinality

LEMMA MetricsInitialTypes == AllInit => Metrics!TypeOK
<1> SUFFICES ASSUME AllInit PROVE Metrics!TypeOK
  OBVIOUS
<1>1. Metrics!Init
  BY DEF AllInit
<1>2. 0 \in 0 .. MetricsMaxTime /\ 0 \in 0 .. MetricsMaxRequests /\ 0 \in Nat
  BY MetricsConstants
<1> QED BY <1>1, <1>2 DEF Metrics!Init, Metrics!TypeOK, Metrics!Consents

LEMMA MetricsTypeStep == ASSUME Metrics!TypeOK, [AllNext]_allVars PROVE Metrics!TypeOK'
<1> DEFINE Events == [type : {}, tab : {}]
           Samples == [route : MetricsRoute, status : {200, 400, 500}, ms : MetricsDuration, at : 0 .. MetricsMaxTime]
<1>1. /\ metricsStored \in Metrics!Consents /\ metricsConsent \in [{} -> Metrics!Consents \cup {"closed"}]
      /\ metricsEvents \in Seq(Events) /\ metricsSamples \in Seq(Samples)
      /\ metricsCards \in Seq({"CAPTURED", "FAILED"}) /\ metricsTurnedAway \in Nat
      /\ metricsRequests \in 0 .. MetricsMaxRequests /\ metricsNow \in 0 .. MetricsMaxTime
  BY DEF Metrics!TypeOK
<1>2. ASSUME /\ metricsStored' \in Metrics!Consents
             /\ metricsConsent' \in [{} -> Metrics!Consents \cup {"closed"}]
             /\ metricsEvents' \in Seq(Events) /\ metricsSamples' \in Seq(Samples)
             /\ metricsCards' \in Seq({"CAPTURED", "FAILED"}) /\ metricsTurnedAway' \in Nat
             /\ metricsRequests' \in 0 .. MetricsMaxRequests /\ metricsNow' \in 0 .. MetricsMaxTime
      PROVE  Metrics!TypeOK'
  BY <1>2 DEF Metrics!TypeOK
<1>3. [Metrics!Next]_(Metrics!vars)
  BY MetricsSteps
<1>4. ASSUME NEW t \in {}, Metrics!Open(t)
      PROVE  Metrics!TypeOK'
  BY <1>1, <1>2, <1>4 DEF Metrics!Open
<1>5. ASSUME NEW t \in {}, NEW granted \in BOOLEAN, Metrics!Decide(t, granted)
      PROVE  Metrics!TypeOK'
  <2>1. metricsStored' \in Metrics!Consents
    BY <1>5 DEF Metrics!Decide, Metrics!Consents
  <2> QED BY <1>1, <1>2, <1>5, <2>1 DEF Metrics!Decide
<1>6. ASSUME NEW t \in {}, NEW type \in {}, Metrics!Track(t, type)
      PROVE  Metrics!TypeOK'
  <2>1. [type |-> type, tab |-> t] \in Events
    OBVIOUS
  <2>2. Append(metricsEvents, [type |-> type, tab |-> t]) \in Seq(Events)
    BY <1>1, <2>1, AppendProperties
  <2>3. metricsEvents' \in Seq(Events)
    BY <1>1, <1>6, <2>2 DEF Metrics!Track
  <2> QED BY <1>1, <1>2, <1>6, <2>3 DEF Metrics!Track
<1>7. ASSUME NEW route \in MetricsRoute, NEW status \in {200, 400, 500}, NEW ms \in MetricsDuration,
             Metrics!Serve(route, status, ms)
      PROVE  Metrics!TypeOK'
  <2> DEFINE sample == [route |-> route, status |-> status, ms |-> ms, at |-> metricsNow]
  <2>1. sample \in Samples
    BY <1>1
  <2>2. PICK kept : /\ kept = IF Len(metricsSamples) >= MetricsCapacity THEN Tail(metricsSamples) ELSE metricsSamples
                    /\ metricsSamples' = Append(kept, sample)
    BY <1>7 DEF Metrics!Serve, Metrics!Record
  <2>3. kept \in Seq(Samples)
    <3>1. CASE Len(metricsSamples) >= MetricsCapacity
      <4>1. metricsSamples # <<>>
        BY <1>1, <3>1, MetricsConstants
      <4>2. Tail(metricsSamples) \in Seq(Samples)
        BY <1>1, <4>1, HeadTailProperties
      <4> QED BY <2>2, <3>1, <4>2
    <3>2. CASE ~(Len(metricsSamples) >= MetricsCapacity)
      BY <1>1, <2>2, <3>2
    <3> QED BY <3>1, <3>2
  <2>4. metricsSamples' \in Seq(Samples)
    BY <2>1, <2>2, <2>3, AppendProperties
  <2>5. metricsRequests' \in 0 .. MetricsMaxRequests
    BY <1>1, <1>7, MetricsConstants DEF Metrics!Serve
  <2> QED BY <1>1, <1>2, <1>7, <2>4, <2>5 DEF Metrics!Serve
<1>8. ASSUME NEW route \in MetricsRoute, Metrics!TurnAway(route)
      PROVE  Metrics!TypeOK'
  <2>1. metricsRequests' \in 0 .. MetricsMaxRequests /\ metricsTurnedAway' \in Nat
    BY <1>1, <1>8, MetricsConstants DEF Metrics!TurnAway
  <2> QED BY <1>1, <1>2, <1>8, <2>1 DEF Metrics!TurnAway
<1>9. ASSUME NEW status \in {"CAPTURED", "FAILED"}, Metrics!CardDonation(status)
      PROVE  Metrics!TypeOK'
  <2>1. metricsCards' \in Seq({"CAPTURED", "FAILED"})
    BY <1>1, <1>9, AppendProperties DEF Metrics!CardDonation
  <2> QED BY <1>1, <1>2, <1>9, <2>1 DEF Metrics!CardDonation
<1>10. CASE Metrics!Tick
  <2>1. metricsNow' \in 0 .. MetricsMaxTime
    BY <1>1, <1>10, MetricsConstants DEF Metrics!Tick
  <2> QED BY <1>1, <1>2, <1>10, <2>1 DEF Metrics!Tick
<1>11. CASE UNCHANGED Metrics!vars
  BY <1>1, <1>2, <1>11 DEF Metrics!vars
<1> QED BY <1>3, <1>4, <1>5, <1>6, <1>7, <1>8, <1>9, <1>10, <1>11 DEF Metrics!Next

\* Burning budget is burnt by errors.
LEMMA MetricsBurnsByErrors ==
    ASSUME Metrics!TypeOK, NEW w, NEW tenths \in Nat \ {0}, Metrics!Burns(w, tenths)
    PROVE  \E i \in Metrics!Since(w) : metricsSamples[i].status >= 500
<1> PICK S : S = Metrics!Since(w)
  OBVIOUS
<1> PICK E : E = {i \in S : metricsSamples[i].status >= 500}
  OBVIOUS
<1>1. Len(metricsSamples) \in Nat /\ S \in SUBSET (1 .. Len(metricsSamples))
  BY DEF Metrics!TypeOK, Metrics!Since
<1>2. /\ Cardinality(S) \in Nat /\ Cardinality(E) \in Nat
      /\ Cardinality(S) = 0 <=> S = {}
      /\ Cardinality(E) = 0 <=> E = {}
  <2>1. E \in SUBSET (1 .. Len(metricsSamples))
    BY <1>1
  <2> QED BY <1>1, <2>1, PlacesAreCounted
<1>3. S # {} /\ 10000 * Metrics!Cardinality(E) >= tenths * Metrics!Cardinality(S)
  BY DEF Metrics!Burns
<1>4. 10000 * Cardinality(E) >= tenths * Cardinality(S) /\ S # {}
  BY <1>3, MetricsCounts
<1>5. Cardinality(S) \in Nat \ {0}
  BY <1>2, <1>3
<1>6. \A x, y \in Nat \ {0} : x * y > 0
  OBVIOUS
<1>7. tenths * Cardinality(S) > 0
  BY <1>5, <1>6
<1>8. Cardinality(E) # 0
  <2> PICK t : t = tenths * Cardinality(S)
    OBVIOUS
  <2> PICK c : c = Cardinality(E)
    OBVIOUS
  <2>1. 10000 * c >= t /\ t > 0 /\ t \in Int /\ c \in Nat
    BY <1>2, <1>4, <1>7
  <2> QED BY <2>1
<1> QED BY <1>2, <1>8

\* The greater of two.
LEMMA MetricsGreater == \A x, y \in Int : Metrics!Max({x, y}) = IF x >= y THEN x ELSE y
BY DEF Metrics!Max

LEMMA MetricsShares ==
    \A part, whole \in Int :
        /\ Metrics!Pct(part, whole) \in Int
        /\ part <= whole => Metrics!Pct(part, whole) <= 1000
        /\ part = 0 => Metrics!Pct(part, whole) = 0
<1> TAKE part, whole \in Int
<1>1. CASE whole <= 0
  BY <1>1 DEF Metrics!Pct
<1>2. CASE whole > 0
  <2>1. whole \in Nat \ {0}
    BY <1>2
  <2>2. Metrics!Pct(part, whole) = (2000 * part + whole) \div (2 * whole)
    BY <1>2 DEF Metrics!Pct
  <2> QED BY <2>1, <2>2, RoundedShares
<1> QED BY <1>1, <1>2

\* What is counted is a number.
LEMMA MetricsStepsAreCounted == Metrics!TypeOK => \A type : Metrics!Count(type) \in Nat
<1> SUFFICES ASSUME Metrics!TypeOK, NEW type PROVE Metrics!Count(type) \in Nat
  OBVIOUS
<1> PICK S : S = {i \in DOMAIN metricsEvents : metricsEvents[i].type = type}
  OBVIOUS
<1>1. Len(metricsEvents) \in Nat /\ S \in SUBSET (1 .. Len(metricsEvents))
  BY DEF Metrics!TypeOK
<1>2. Cardinality(S) \in Nat
  BY <1>1, PlacesAreCounted
<1> QED BY <1>2, MetricsCounts DEF Metrics!Count

\* What is left of a step is at most a whole.
LEMMA MetricsLosses ==
    \A m, n \in Nat : Metrics!Max({0, Metrics!Pct(m - n, m)}) \in 0 .. 1000
<1> TAKE m, n \in Nat
<1> PICK p : p = Metrics!Pct(m - n, m)
  OBVIOUS
<1>1. m - n \in Int /\ m - n <= m /\ m \in Int
  OBVIOUS
<1>2. p \in Int /\ p <= 1000
  BY <1>1, MetricsShares
<1>3. Metrics!Max({0, p}) = IF 0 >= p THEN 0 ELSE p
  BY <1>2, MetricsGreater
<1> QED BY <1>2, <1>3

LEMMA MetricsFunnelNarrows ==
    ASSUME Metrics!TypeOK, NEW steps, NEW i \in DOMAIN Metrics!BuildFunnel(steps)
    PROVE  Metrics!BuildFunnel(steps)[i].dropOff \in 0 .. 1000
<1>1. Metrics!BuildFunnel(steps)[i].dropOff =
        IF i = 1 THEN 0
        ELSE Metrics!Max({0, Metrics!Pct(Metrics!Count(steps[i - 1]) - Metrics!Count(steps[i]),
                                 Metrics!Count(steps[i - 1]))})
  BY DEF Metrics!BuildFunnel
<1>2. Metrics!Count(steps[i - 1]) \in Nat /\ Metrics!Count(steps[i]) \in Nat
  BY MetricsStepsAreCounted
<1>3. Metrics!Max({0, Metrics!Pct(Metrics!Count(steps[i - 1]) - Metrics!Count(steps[i]),
                                 Metrics!Count(steps[i - 1]))}) \in 0 .. 1000
  BY <1>2, MetricsLosses
<1> QED BY <1>1, <1>3

LEMMA MetricsAlarms == Metrics!TypeOK => Metrics!AlarmsHaveACause
<1> SUFFICES ASSUME Metrics!TypeOK PROVE Metrics!AlarmsHaveACause
  OBVIOUS
<1>1. /\ Metrics!Dashboard.slo = Metrics!SloAlert
      /\ Metrics!Dashboard.alerts.webhooks = Metrics!WebhookAlert
      /\ Metrics!Dashboard.alerts.cards = Metrics!CardAlert
      /\ Metrics!Dashboard.metrics.total = Len(metricsSamples)
      /\ Metrics!Dashboard.funnel = Metrics!BuildFunnel(Metrics!DonationFunnel)
  BY DEF Metrics!Dashboard, Metrics!Snapshot
<1>2. Metrics!SloAlert = "page" => \E i \in Metrics!Since("fast_short") : metricsSamples[i].status >= 500
  <2>1. Metrics!SloAlert = "page" => Metrics!Burns("fast_short", 144)
    BY DEF Metrics!SloAlert
  <2> QED BY <2>1, MetricsBurnsByErrors
<1>3. Metrics!SloAlert = "ticket" => \E i \in Metrics!Since("slow_short") : metricsSamples[i].status >= 500
  <2>1. Metrics!SloAlert = "ticket" => Metrics!Burns("slow_short", 60)
    BY DEF Metrics!SloAlert
  <2> QED BY <2>1, MetricsBurnsByErrors
<1>4. Len(metricsSamples) \in Nat /\ Len(metricsCards) \in Nat
      /\ DOMAIN metricsSamples = 1 .. Len(metricsSamples) /\ DOMAIN metricsCards = 1 .. Len(metricsCards)
  BY DEF Metrics!TypeOK
<1>5. Metrics!WebhookAlert # "none" => Len(metricsSamples) > 0
  <2> PICK S : S = {i \in DOMAIN metricsSamples : metricsSamples[i].route = "webhook"
                                              /\ Metrics!Failed(metricsSamples[i])}
    OBVIOUS
  <2>1. S \in SUBSET (1 .. Len(metricsSamples))
    BY <1>4
  <2>2. Cardinality(S) = 0 <=> S = {}
    BY <1>4, <2>1, PlacesAreCounted
  <2>3. Metrics!WebhookAlert # "none" => Metrics!WebhookFailures # 0
    BY DEF Metrics!WebhookAlert
  <2>4. Metrics!WebhookFailures = Cardinality(S)
    BY MetricsCounts DEF Metrics!WebhookFailures
  <2> QED BY <1>4, <2>1, <2>2, <2>3, <2>4
<1>6. Metrics!CardAlert # "none" => "FAILED" \in {metricsCards[i] : i \in DOMAIN metricsCards}
  <2> PICK S : S = {i \in DOMAIN metricsCards : metricsCards[i] = "FAILED"}
    OBVIOUS
  <2>1. S \in SUBSET (1 .. Len(metricsCards))
    BY <1>4
  <2>2. Cardinality(S) = 0 <=> S = {}
    BY <1>4, <2>1, PlacesAreCounted
  <2>3. Metrics!CardFailed = Cardinality(S)
    BY MetricsCounts DEF Metrics!CardFailed
  <2>4. S = {} => Metrics!Pct(Metrics!CardFailed, Len(metricsCards)) = 0
    <3>1. 0 \in Int /\ Len(metricsCards) \in Int
      BY <1>4
    <3>2. Metrics!Pct(0, Len(metricsCards)) = 0
      BY <3>1, MetricsShares
    <3> QED BY <2>2, <2>3, <3>2
  <2>5. Metrics!CardAlert # "none" => S # {}
    BY <2>4 DEF Metrics!CardAlert
  <2> QED BY <2>5
<1> QED BY <1>1, <1>2, <1>3, <1>5, <1>6, MetricsFunnelNarrows DEF Metrics!AlarmsHaveACause
-----------------------------------------------------------------------------
\* Silence holds as long as the consent of a tab is its own.
LEMMA ConsentInitially == AllInit => Consent!SilentWithoutConsent
<1> SUFFICES ASSUME AllInit PROVE Consent!SilentWithoutConsent
  OBVIOUS
<1>1. consentEvents = <<>>
  BY DEF AllInit, Consent!Init
<1>2. DOMAIN consentEvents = {}
  BY <1>1
<1> QED BY <1>2 DEF Consent!SilentWithoutConsent

LEMMA ConsentStep ==
    ASSUME Consent!TypeOK, Consent!SilentWithoutConsent, [AllNext]_allVars
    PROVE  Consent!SilentWithoutConsent'
<1> DEFINE Quiet(x) == x \in {"closed", "unset", "denied"}
           Silent(c, e) ==
              \A t \in ConsentTab : Quiet(c[t]) =>
                \A i \in DOMAIN e : e[i].tab = t => e[i].type \in Consent!Essential
<1>1. /\ consentConsent \in [ConsentTab -> Consent!Consents \cup {"closed"}]
      /\ consentEvents \in Seq([type : ConsentEvent, tab : ConsentTab])
  BY DEF Consent!TypeOK
<1>2. Silent(consentConsent, consentEvents)
  BY DEF Consent!SilentWithoutConsent
<1>3. Silent(consentConsent', consentEvents') => Consent!SilentWithoutConsent'
  BY DEF Consent!SilentWithoutConsent
<1>4. [Consent!Next]_(Consent!vars)
  BY ConsentSteps
<1>5. ASSUME NEW t \in ConsentTab, Quiet(consentConsent[t]),
             \A u \in ConsentTab : u # t => consentConsent'[u] = consentConsent[u],
             consentEvents' = consentEvents
      PROVE  Consent!SilentWithoutConsent'
  <2>1. ASSUME NEW u \in ConsentTab, Quiet(consentConsent'[u])
        PROVE  Quiet(consentConsent[u])
    BY <1>5, <2>1
  <2> QED BY <1>2, <1>3, <1>5, <2>1
<1>6. ASSUME NEW t \in ConsentTab, Consent!Open(t)
      PROVE  Consent!SilentWithoutConsent'
  BY <1>1, <1>5, <1>6 DEF Consent!Open
<1>7. ASSUME NEW t \in ConsentTab, NEW granted \in BOOLEAN, Consent!Decide(t, granted)
      PROVE  Consent!SilentWithoutConsent'
  BY <1>1, <1>5, <1>7 DEF Consent!Decide
<1>8. ASSUME NEW t \in ConsentTab, NEW type \in ConsentEvent, Consent!Track(t, type)
      PROVE  Consent!SilentWithoutConsent'
  <2>1. consentConsent' = consentConsent
    BY <1>8 DEF Consent!Track
  <2>2. CASE consentEvents' = consentEvents
    BY <1>2, <1>3, <2>1, <2>2
  <2>3. CASE consentEvents' = Append(consentEvents, [type |-> type, tab |-> t])
    <3>1. PICK event : event = [type |-> type, tab |-> t]
      OBVIOUS
    <3>2. event.type = type /\ event.tab = t
      BY <3>1
    <3>3. Quiet(consentConsent[t]) => type \in Consent!Essential
      BY <1>8 DEF Consent!Track, Consent!MayTrack
    <3>4. ASSUME NEW u \in ConsentTab, Quiet(consentConsent'[u]),
                 NEW i \in DOMAIN consentEvents', consentEvents'[i].tab = u
          PROVE  consentEvents'[i].type \in Consent!Essential
      <4>1. consentEvents' = Append(consentEvents, event)
        BY <2>3, <3>1
      <4>2. CASE i \in DOMAIN consentEvents
        <5>1. consentEvents'[i] = consentEvents[i]
          BY <1>1, <4>1, <4>2
        <5> QED BY <1>2, <2>1, <3>4, <4>2, <5>1
      <4>3. CASE i \notin DOMAIN consentEvents
        <5>1. consentEvents'[i] = event
          BY <1>1, <3>4, <4>1, <4>3
        <5> QED BY <2>1, <3>2, <3>3, <3>4, <5>1
      <4> QED BY <4>2, <4>3
    <3> QED BY <1>3, <3>4
  <2> QED BY <1>8, <2>2, <2>3 DEF Consent!Track
<1>9. ASSUME NEW status \in {"CAPTURED", "FAILED"}, Consent!CardDonation(status)
      PROVE  Consent!SilentWithoutConsent'
  BY <1>2, <1>3, <1>9 DEF Consent!CardDonation
<1>10. CASE Consent!Tick
  BY <1>2, <1>3, <1>10 DEF Consent!Tick
<1>11. CASE UNCHANGED Consent!vars
  BY <1>2, <1>3, <1>11 DEF Consent!vars
<1> QED BY <1>4, <1>6, <1>7, <1>8, <1>9, <1>10, <1>11 DEF Consent!Next
-----------------------------------------------------------------------------
\* A rank is reached exactly when enough of the places are.
LEMMA RanksAreRoundedUp ==
    \A n \in Nat \ {0} : \A p \in {50, 95} : \A c \in Nat :
        c >= Metrics!Max({1, (p * n + 99) \div 100}) <=> 100 * c >= p * n
<1> TAKE n \in Nat \ {0}
<1> TAKE p \in {50, 95}
<1> TAKE c \in Nat
<1> PICK q : q = (p * n + 99) \div 100
  OBVIOUS
<1>1. q \in Int /\ q >= 1 /\ (c >= q <=> 100 * c >= p * n)
  <2>1. CASE p = 50
    BY <2>1
  <2>2. CASE p = 95
    BY <2>2
  <2> QED BY <2>1, <2>2
<1>2. Metrics!Max({1, q}) = q
  <2>1. Metrics!Max({1, q}) = IF 1 >= q THEN 1 ELSE q
    BY <1>1, MetricsGreater
  <2> QED BY <1>1, <2>1
<1> QED BY <1>1, <1>2

\* The least of some numbers.
LEMMA MetricsLeast ==
    ASSUME NEW T \in SUBSET Nat, T # {}
    PROVE  Metrics!Min(T) \in T /\ \A v \in T : Metrics!Min(T) <= v
<1>1. PICK n \in T : \A m \in T : n <= m
  BY LeastNatural
<1> QED BY <1>1 DEF Metrics!Min

LEMMA MetricsPercentiles == Metrics!TypeOK => Metrics!PercentileIsReached
<1> SUFFICES ASSUME Metrics!TypeOK, metricsSamples # <<>>, NEW p \in {50, 95}
             PROVE  /\ 100 * Metrics!AtMost(Metrics!Percentile(p)) >= p * Len(metricsSamples)
                    /\ \A v \in {metricsSamples[i].ms : i \in DOMAIN metricsSamples} :
                          v < Metrics!Percentile(p) =>
                             100 * Metrics!AtMost(v) < p * Len(metricsSamples)
  BY DEF Metrics!PercentileIsReached
<1> PICK n : n = Len(metricsSamples)
  OBVIOUS
<1>1. n \in Nat \ {0} /\ DOMAIN metricsSamples = 1 .. n
  BY DEF Metrics!TypeOK
<1>2. \A i \in 1 .. n : metricsSamples[i].ms \in Nat
  <2>1. metricsSamples \in Seq([route : MetricsRoute, status : {200, 400, 500},
                                ms : MetricsDuration, at : 0 .. MetricsMaxTime])
    BY DEF Metrics!TypeOK
  <2> DEFINE Samples == [route : MetricsRoute, status : {200, 400, 500}, ms : MetricsDuration,
                         at : 0 .. MetricsMaxTime]
  <2>2. \A i \in 1 .. n : metricsSamples[i] \in Samples
    <3>1. metricsSamples \in Seq(Samples)
      BY <2>1
    <3> HIDE DEF Samples
    <3> QED BY <1>1, <3>1
  <2>3. \A i \in 1 .. n : metricsSamples[i].ms \in MetricsDuration
    BY <2>2
  <2> QED BY <2>3, MetricsConstants
<1> DEFINE Under(v) == {i \in 1 .. n : metricsSamples[i].ms <= v}
           Reached == {j \in 1 .. n : Metrics!AtMost(metricsSamples[j].ms) >= Metrics!RankOf(p)}
           Values == {metricsSamples[i].ms : i \in Reached}
<1>3. \A v : Metrics!AtMost(v) = Cardinality(Under(v)) /\ Metrics!AtMost(v) \in Nat
  <2> TAKE v
  <2>1. Under(v) \in SUBSET (1 .. n)
    OBVIOUS
  <2>2. Cardinality(Under(v)) \in Nat
    BY <1>1, <2>1, PlacesAreCounted
  <2>3. Metrics!AtMost(v) = Cardinality(Under(v))
    BY <1>1, MetricsCounts DEF Metrics!AtMost
  <2> QED BY <2>2, <2>3
<1>4. \A v : Metrics!AtMost(v) >= Metrics!RankOf(p) <=> 100 * Metrics!AtMost(v) >= p * n
  <2> TAKE v
  <2> PICK c : c = Metrics!AtMost(v)
    OBVIOUS
  <2>1. Metrics!RankOf(p) = Metrics!Max({1, (p * n + 99) \div 100})
    BY DEF Metrics!RankOf
  <2>2. c \in Nat
    BY <1>3
  <2>3. c >= Metrics!Max({1, (p * n + 99) \div 100}) <=> 100 * c >= p * n
    BY <1>1, <2>2, RanksAreRoundedUp
  <2> QED BY <2>1, <2>3
<1>5. Reached # {}
  <2> DEFINE All == {metricsSamples[i].ms : i \in 1 .. n}
  <2>1. IsFiniteSet(All)
    <3>1. IsFiniteSet(1 .. n)
      BY <1>1, PlacesAreCounted
    <3> DEFINE f == [i \in 1 .. n |-> metricsSamples[i].ms]
    <3>2. f \in Surjection(1 .. n, All)
      BY DEF Surjection
    <3> HIDE DEF f, All
    <3> QED BY <3>1, <3>2, FS_Surjection
  <2>2. All \in SUBSET Int /\ All # {}
    BY <1>1, <1>2
  <2>3. PICK m \in All : \A v \in All : v <= m
    <3> HIDE DEF All
    <3> QED BY <2>1, <2>2, LargestNumber
  <2>4. PICK j \in 1 .. n : m = metricsSamples[j].ms
    BY <2>3
  <2>5. Under(m) = 1 .. n
    BY <2>3
  <2>6. Metrics!AtMost(m) = n
    <3>1. Cardinality(1 .. n) = n
      BY <1>1, PlacesAreCounted
    <3> QED BY <1>3, <2>5, <3>1
  <2>7. 100 * n >= p * n
    <3>1. CASE p = 50
      BY <1>1, <3>1
    <3>2. CASE p = 95
      BY <1>1, <3>2
    <3> QED BY <3>1, <3>2
  <2>8. Metrics!AtMost(m) >= Metrics!RankOf(p)
    BY <1>4, <2>6, <2>7
  <2> QED BY <2>4, <2>8
<1>6. Metrics!Percentile(p) = Metrics!Min(Values)
  BY <1>1 DEF Metrics!Percentile
<1>7. Metrics!Min(Values) \in Values /\ \A v \in Values : Metrics!Min(Values) <= v
  <2>1. Values \in SUBSET Nat /\ Values # {}
    BY <1>2, <1>5
  <2> HIDE DEF Values
  <2> QED BY <2>1, MetricsLeast
<1> PICK least : least = Metrics!Percentile(p)
  OBVIOUS
<1>8. least \in Values /\ \A v \in Values : least <= v
  <2> HIDE DEF Values
  <2> QED BY <1>6, <1>7
<1>9. 100 * Metrics!AtMost(least) >= p * n
  <2>1. PICK j \in Reached : least = metricsSamples[j].ms
    BY <1>8
  <2>2. Metrics!AtMost(least) >= Metrics!RankOf(p)
    BY <2>1
  <2> QED BY <1>4, <2>2
<1>10. ASSUME NEW i \in 1 .. n, metricsSamples[i].ms < least
       PROVE  100 * Metrics!AtMost(metricsSamples[i].ms) < p * n
  <2>1. least \in Nat /\ metricsSamples[i].ms \in Nat
    BY <1>2, <1>8
  <2>2. metricsSamples[i].ms \notin Values
    <3> HIDE DEF Values
    <3> QED BY <1>8, <1>10, <2>1
  <2>3. ~(Metrics!AtMost(metricsSamples[i].ms) >= Metrics!RankOf(p))
    BY <2>2
  <2>4. ~(100 * Metrics!AtMost(metricsSamples[i].ms) >= p * n)
    BY <1>4, <2>3
  <2>5. p * n \in Int /\ Metrics!AtMost(metricsSamples[i].ms) \in Nat
    BY <1>1, <1>3
  <2> QED BY <2>4, <2>5
<1> QED BY <1>1, <1>9, <1>10
-----------------------------------------------------------------------------
\* Tabs whose visitor has not agreed report nothing but finished donations, percentiles
\* are durations that occurred, reached by enough of the requests that are kept, and an
\* alarm has a cause among them, for every capacity of the store, every window of the
\* objective, every route and every duration (mayTrack, percentile, evaluateSlo,
\* derivePaymentAlerts).
THEOREM MeasurementsAreAsAgreed == AllSpec => []MeasuredAsAgreed
<1> DEFINE Inv == Consent!TypeOK /\ Consent!SilentWithoutConsent /\ Metrics!TypeOK
<1>1. AllInit => Inv
  BY ConsentInitialTypes, ConsentInitially, MetricsInitialTypes
<1>2. Inv /\ [AllNext]_allVars => Inv'
  BY ConsentTypeStep, ConsentStep, MetricsTypeStep
<1>3. Inv => MeasuredAsAgreed
  BY ConsentAlarms, MetricsAlarms, MetricsPercentiles DEF MeasuredAsAgreed
<1> QED BY <1>1, <1>2, <1>3, PTL DEF AllSpec
-----------------------------------------------------------------------------
(* Referral: first what streaks, boards and tiers are, for any months,     *)
(* scores and counts; then the inductive invariant, which says what a      *)
(* request has checked of a donation and of the advocates.                 *)

\* The starts of a run of months that ends in m.
StartsOf(months, m) == {s \in 0 .. m : s .. m \subseteq months}

\* A run is as long as its earliest start is early.
LEMMA RunsAreLongest ==
    ASSUME NEW months, NEW m \in Nat
    PROVE  /\ Referral!RunTo(months, m) \in Nat
           /\ StartsOf(months, m) = {} => Referral!RunTo(months, m) = 0
           /\ StartsOf(months, m) # {} =>
                 /\ m - Referral!RunTo(months, m) + 1 \in StartsOf(months, m)
                 /\ \A s \in StartsOf(months, m) : m - Referral!RunTo(months, m) + 1 <= s
<1> PICK starts : starts = StartsOf(months, m)
  OBVIOUS
<1>1. starts \in SUBSET (0 .. m) /\ starts \in SUBSET Nat
  BY DEF StartsOf
<1>2. Referral!RunTo(months, m) = IF starts = {} THEN 0 ELSE m - Referral!Min(starts) + 1
  BY DEF Referral!RunTo, StartsOf
<1>3. CASE starts = {}
  BY <1>2, <1>3
<1>4. CASE starts # {}
  <2>1. \E n \in starts : \A x \in starts : n <= x
    BY <1>1, <1>4, LeastNatural
  <2>2. Referral!Min(starts) \in starts /\ \A x \in starts : Referral!Min(starts) <= x
    BY <2>1 DEF Referral!Min
  <2> PICK least : least = Referral!Min(starts)
    OBVIOUS
  <2>3. least \in 0 .. m /\ Referral!RunTo(months, m) = m - least + 1
    BY <1>1, <1>2, <1>4, <2>2
  <2>4. m - Referral!RunTo(months, m) + 1 = least
    BY <2>3
  <2> QED BY <1>4, <2>2, <2>3, <2>4
<1> QED BY <1>3, <1>4

\* A month more, and another one at the end, make a run no shorter.
LEMMA RunsGrow ==
    ASSUME NEW months, NEW more, months \subseteq more, NEW m \in Nat
    PROVE  /\ Referral!RunTo(months, m) <= Referral!RunTo(more, m)
           /\ m + 1 \in more => Referral!RunTo(months, m) <= Referral!RunTo(more, m + 1)
<1>1. m + 1 \in Nat
  OBVIOUS
<1>2. StartsOf(months, m) \subseteq StartsOf(more, m)
  BY DEF StartsOf
<1>3. m + 1 \in more => StartsOf(months, m) \subseteq StartsOf(more, m + 1)
  <2> SUFFICES ASSUME m + 1 \in more, NEW s \in 0 .. m, s .. m \subseteq months
               PROVE  s \in 0 .. m + 1 /\ s .. (m + 1) \subseteq more
    BY DEF StartsOf
  <2>1. \A x \in s .. (m + 1) : x \in s .. m \/ x = m + 1
    OBVIOUS
  <2> QED BY <2>1
<1> PICK run : run = Referral!RunTo(months, m)
  OBVIOUS
<1>4. run \in Nat
  BY RunsAreLongest
<1>5. CASE StartsOf(months, m) = {}
  <2>1. run = 0
    BY <1>5, RunsAreLongest
  <2>2. Referral!RunTo(more, m) \in Nat /\ Referral!RunTo(more, m + 1) \in Nat
    BY <1>1, RunsAreLongest
  <2> QED BY <2>1, <2>2
<1>6. CASE StartsOf(months, m) # {}
  <2>1. m - run + 1 \in StartsOf(months, m)
    BY <1>6, RunsAreLongest
  <2> PICK same : same = Referral!RunTo(more, m)
    OBVIOUS
  <2> PICK next : next = Referral!RunTo(more, m + 1)
    OBVIOUS
  <2>2. same \in Nat /\ m - same + 1 <= m - run + 1
    BY <1>2, <2>1, RunsAreLongest
  <2>3. m + 1 \in more => next \in Nat /\ (m + 1) - next + 1 <= m - run + 1
    BY <1>1, <1>3, <2>1, RunsAreLongest
  <2> QED BY <1>4, <2>2, <2>3
<1> QED BY <1>5, <1>6

\* A donation never shortens a streak.
LEMMA StreaksGrow ==
    ASSUME NEW months, NEW more, months \subseteq more, NEW now \in Nat
    PROVE  /\ Referral!CurrentMonths(more, now) >= Referral!CurrentMonths(months, now)
           /\ Referral!CurrentMonths(months, now) \in Nat
<1>1. now # 0 => now - 1 \in Nat /\ (now - 1) + 1 = now
  OBVIOUS
<1> PICK run : run = Referral!RunTo(months, now)
  OBVIOUS
<1> PICK longer : longer = Referral!RunTo(more, now)
  OBVIOUS
<1> PICK before : before = IF now = 0 THEN 0 ELSE Referral!RunTo(months, now - 1)
  OBVIOUS
<1> PICK longest : longest = IF now = 0 THEN 0 ELSE Referral!RunTo(more, now - 1)
  OBVIOUS
<1>2. run \in Nat /\ longer \in Nat /\ before \in Nat /\ longest \in Nat
  BY <1>1, RunsAreLongest
<1>3. run <= longer
  BY RunsGrow
<1>4. before <= longest /\ (now \in more => before <= longer)
  <2>1. CASE now = 0
    BY <1>2, <2>1
  <2>2. CASE now # 0
    <3> PICK b : b = now - 1
      OBVIOUS
    <3>1. b \in Nat /\ now = b + 1
      BY <2>2
    <3>2. /\ Referral!RunTo(months, b) <= Referral!RunTo(more, b)
          /\ b + 1 \in more => Referral!RunTo(months, b) <= Referral!RunTo(more, b + 1)
      BY <3>1, RunsGrow
    <3>3. before = Referral!RunTo(months, b) /\ longest = Referral!RunTo(more, b)
      BY <2>2
    <3> QED BY <3>1, <3>2, <3>3
  <2> QED BY <2>1, <2>2
<1>5. /\ Referral!CurrentMonths(months, now) = IF now \in months THEN run ELSE before
      /\ Referral!CurrentMonths(more, now) = IF now \in more THEN longer ELSE longest
  BY DEF Referral!CurrentMonths
<1> QED BY <1>2, <1>3, <1>4, <1>5

\* A month that begins does not end the streak of the one before.
LEMMA StreaksLast ==
    ASSUME NEW months, NEW now \in Nat, now \in months, now + 1 \notin months
    PROVE  Referral!CurrentMonths(months, now + 1) = Referral!CurrentMonths(months, now)
<1>1. now + 1 # 0 /\ (now + 1) - 1 = now
  OBVIOUS
<1> QED BY <1>1 DEF Referral!CurrentMonths
\* Ranks are 1, 2, 3 and so on, and nobody has more than the first.
AreRanks(D, score, rank) ==
    /\ DOMAIN rank = D
    /\ {rank[i] : i \in D} = 1 .. Cardinality(D)
    /\ \A i \in D : rank[i] = 1 => \A j \in D : score[j] <= score[i]

LEMMA RanksAreComplete ==
    ASSUME NEW D \in SUBSET Int, IsFiniteSet(D), NEW score \in [D -> Int]
    PROVE  AreRanks(D, score, Referral!RankLeaderboard(score))
<1> PICK rank : rank = Referral!RankLeaderboard(score)
  OBVIOUS
<1> DEFINE Better(i) == {j \in D : score[j] > score[i] \/ (score[j] = score[i] /\ j < i)}
<1>1. rank = [i \in D |-> 1 + Cardinality(Better(i))]
  BY DEF Referral!RankLeaderboard, Referral!Cardinality, Cardinality
<1>2. \A i \in D : /\ IsFiniteSet(Better(i)) /\ Cardinality(Better(i)) \in Nat
                   /\ i \notin Better(i)
  BY FS_Subset, FS_CardinalityType
<1> PICK n : n = Cardinality(D)
  OBVIOUS
<1>3. n \in Nat /\ IsFiniteSet(1 .. n) /\ Cardinality(1 .. n) = n
  <2>1. n \in Nat /\ 1 \in Int /\ n \in Int
    BY FS_CardinalityType
  <2>2. IsFiniteSet(1 .. n) /\ Cardinality(1 .. n) = IF 1 > n THEN 0 ELSE n - 1 + 1
    BY <2>1, FS_Interval
  <2> QED BY <2>1, <2>2
<1>4. \A i \in D : Cardinality(Better(i)) < n
  <2> SUFFICES ASSUME NEW i \in D PROVE Cardinality(Better(i)) < n
    OBVIOUS
  <2>1. Better(i) \in SUBSET D /\ Better(i) # D
    BY <1>2
  <2> PICK b : b = Better(i)
    OBVIOUS
  <2>2. b \in SUBSET D /\ b # D
    BY <2>1
  <2>3. Cardinality(b) <= n /\ Cardinality(b) # n
    <3> HIDE DEF Better
    <3> QED BY <2>2, FS_Subset
  <2> QED BY <1>2, <1>3, <2>3
<1>5. ASSUME NEW i \in D, NEW j \in D, i \in Better(j)
      PROVE  Cardinality(Better(i)) < Cardinality(Better(j))
  <2>1. Better(i) \in SUBSET Better(j)
    <3> SUFFICES ASSUME NEW k \in Better(i) PROVE k \in Better(j)
      OBVIOUS
    <3>1. /\ k \in Int /\ i \in Int /\ j \in Int
          /\ score[k] \in Int /\ score[i] \in Int /\ score[j] \in Int
      OBVIOUS
    <3>2. score[k] > score[i] \/ (score[k] = score[i] /\ k < i)
      OBVIOUS
    <3>3. score[i] > score[j] \/ (score[i] = score[j] /\ i < j)
      BY <1>5
    <3> QED BY <3>1, <3>2, <3>3
  <2>2. Better(i) # Better(j)
    BY <1>2, <1>5
  <2>3. /\ Cardinality(Better(i)) <= Cardinality(Better(j))
        /\ Cardinality(Better(i)) # Cardinality(Better(j))
    BY <1>2, <2>1, <2>2, FS_Subset
  <2> QED BY <1>2, <2>3
<1>6. rank \in [D -> 1 .. n]
  BY <1>1, <1>2, <1>3, <1>4
<1>7. \A i, j \in D : rank[i] = rank[j] => i = j
  <2> SUFFICES ASSUME NEW i \in D, NEW j \in D, i # j PROVE rank[i] # rank[j]
    OBVIOUS
  <2>1. i \in Better(j) \/ j \in Better(i)
    OBVIOUS
  <2>2. Cardinality(Better(i)) # Cardinality(Better(j))
    BY <1>2, <1>5, <2>1
  <2> HIDE DEF Better
  <2> QED BY <1>1, <1>2, <2>2
<1>8. rank \in Injection(D, 1 .. n)
  BY <1>6, <1>7 DEF Injection, IsInjective
<1>9. rank \in Surjection(D, 1 .. n)
  BY <1>3, <1>8, FS_Injection
<1>10. {rank[i] : i \in D} = 1 .. n
  BY <1>6, <1>9 DEF Surjection
<1>11. ASSUME NEW i \in D, rank[i] = 1, NEW j \in D PROVE score[j] <= score[i]
  <2>1. Cardinality(Better(i)) = 0
    BY <1>1, <1>2, <1>11
  <2>2. Better(i) = {}
    BY <1>2, <2>1, FS_EmptySet
  <2> QED BY <2>2
<1> QED BY <1>6, <1>10, <1>11 DEF AreRanks
\* A number of people, and the badge that it earns.
ReferralTiers == {"BRONZE", "SILVER", "GOLD"}
LEMMA TiersAreEarned ==
    ASSUME NEW n \in Nat
    PROVE  /\ Referral!ResolveTier(n, Referral!ReferralRewards) =
                 IF n < 3 THEN "NONE" ELSE IF n < 5 THEN "BRONZE"
                 ELSE IF n < 10 THEN "SILVER" ELSE "GOLD"
           /\ Referral!AmountToNext(n, Referral!ReferralRewards) =
                 IF n < 3 THEN 3 - n ELSE IF n < 5 THEN 5 - n
                 ELSE IF n < 10 THEN 10 - n ELSE 0
<1> PICK least : least = Referral!ReferralRewards
  OBVIOUS
<1>1. /\ DOMAIN least = ReferralTiers
      /\ least["BRONZE"] = 3 /\ least["SILVER"] = 5 /\ least["GOLD"] = 10
  BY DEF Referral!ReferralRewards, ReferralTiers
<1> PICK met : met = {t \in ReferralTiers : least[t] <= n}
  OBVIOUS
<1>2. Referral!ResolveTier(n, least) =
         IF met = {} THEN "NONE"
         ELSE CHOOSE t \in met : \A o \in met : least[o] <= least[t]
  BY <1>1 DEF Referral!ResolveTier
<1>3. ASSUME NEW t \in met, \A o \in met : o # t => least[o] < least[t]
      PROVE  Referral!ResolveTier(n, least) = t
  <2>1. \A o \in met : least[o] \in Int
    BY <1>1 DEF ReferralTiers
  <2>2. \A o \in met : least[o] <= least[t]
    BY <1>3, <2>1
  <2>3. ASSUME NEW x \in met, \A o \in met : least[o] <= least[x] PROVE x = t
    BY <1>3, <2>1, <2>3
  <2>4. (CHOOSE x \in met : \A o \in met : least[o] <= least[x]) = t
    BY <2>2, <2>3
  <2> QED BY <1>2, <2>4
<1> PICK open : open = {least[t] : t \in {t \in ReferralTiers : least[t] > n}}
  OBVIOUS
<1>4. Referral!AmountToNext(n, least) = IF open = {} THEN 0 ELSE Referral!Min(open) - n
  BY <1>1 DEF Referral!AmountToNext
<1>5. ASSUME NEW x \in open, \A y \in open : y # x => x < y
      PROVE  Referral!AmountToNext(n, least) = x - n
  <2>1. \A y \in open : y \in Int
    BY <1>1 DEF ReferralTiers
  <2>2. \A y \in open : x <= y
    BY <1>5, <2>1
  <2>3. \A z \in open : (\A y \in open : z <= y) => z = x
    BY <1>5, <2>1
  <2>4. (CHOOSE z \in open : \A y \in open : z <= y) = x
    BY <2>2, <2>3
  <2>5. Referral!Min(open) = x
    BY <2>4 DEF Referral!Min
  <2> QED BY <1>4, <2>5
<1>6. CASE n < 3
  <2>1. met = {} /\ open = {3, 5, 10}
    BY <1>1, <1>6 DEF ReferralTiers
  <2>2. Referral!AmountToNext(n, least) = 3 - n
    BY <1>5, <2>1
  <2> QED BY <1>2, <1>6, <2>1, <2>2
<1>7. CASE 3 <= n /\ n < 5
  <2>1. met = {"BRONZE"} /\ open = {5, 10}
    BY <1>1, <1>7 DEF ReferralTiers
  <2>2. Referral!ResolveTier(n, least) = "BRONZE"
    BY <1>3, <2>1
  <2>3. Referral!AmountToNext(n, least) = 5 - n
    BY <1>5, <2>1
  <2> QED BY <1>7, <2>2, <2>3
<1>8. CASE 5 <= n /\ n < 10
  <2>1. met = {"BRONZE", "SILVER"} /\ open = {10}
    BY <1>1, <1>8 DEF ReferralTiers
  <2>2. Referral!ResolveTier(n, least) = "SILVER"
    <3>1. \A o \in met : o # "SILVER" => least[o] < least["SILVER"]
      BY <1>1, <2>1
    <3> QED BY <1>3, <2>1, <3>1
  <2>3. Referral!AmountToNext(n, least) = 10 - n
    BY <1>5, <2>1
  <2> QED BY <1>8, <2>2, <2>3
<1>9. CASE n >= 10
  <2>1. met = {"BRONZE", "SILVER", "GOLD"} /\ open = {}
    BY <1>1, <1>9 DEF ReferralTiers
  <2>2. Referral!ResolveTier(n, least) = "GOLD"
    <3>1. \A o \in met : o # "GOLD" => least[o] < least["GOLD"]
      BY <1>1, <2>1
    <3> QED BY <1>3, <2>1, <3>1
  <2> QED BY <1>4, <1>9, <2>1, <2>2
<1> QED BY <1>6, <1>7, <1>8, <1>9

\* The next badge is as far away as it says.
LEMMA TheNextIsWithinReach ==
    ASSUME NEW n \in Nat
    PROVE  LET now == Referral!Reward(n)
           IN  now.toNext > 0 => /\ Referral!Reward(n + now.toNext).tier # now.tier
                                 /\ Referral!Reward(n + now.toNext - 1).tier = now.tier
<1> DEFINE Tier(k) == Referral!ResolveTier(k, Referral!ReferralRewards)
           Next == Referral!AmountToNext(n, Referral!ReferralRewards)
<1>1. Referral!Reward(n).toNext = Next /\ \A k : Referral!Reward(k).tier = Tier(k)
  BY DEF Referral!Reward
<1>2. \A k \in Nat : Tier(k) = IF k < 3 THEN "NONE" ELSE IF k < 5 THEN "BRONZE"
                               ELSE IF k < 10 THEN "SILVER" ELSE "GOLD"
  BY TiersAreEarned
<1>3. Next = IF n < 3 THEN 3 - n ELSE IF n < 5 THEN 5 - n
             ELSE IF n < 10 THEN 10 - n ELSE 0
  BY TiersAreEarned
<1> HIDE DEF Tier, Next
<1>4. ASSUME Next > 0 PROVE Tier(n + Next) # Tier(n) /\ Tier(n + Next - 1) = Tier(n)
  <2>1. \/ n < 3 /\ n + Next = 3 /\ n + Next - 1 = 2
        \/ 3 <= n /\ n < 5 /\ n + Next = 5 /\ n + Next - 1 = 4
        \/ 5 <= n /\ n < 10 /\ n + Next = 10 /\ n + Next - 1 = 9
    BY <1>3, <1>4
  <2>2. /\ Tier(2) = "NONE" /\ Tier(3) = "BRONZE" /\ Tier(4) = "BRONZE"
        /\ Tier(5) = "SILVER" /\ Tier(9) = "SILVER" /\ Tier(10) = "GOLD"
    BY <1>2
  <2>3. /\ n < 3 => Tier(n) = "NONE"
        /\ 3 <= n /\ n < 5 => Tier(n) = "BRONZE"
        /\ 5 <= n /\ n < 10 => Tier(n) = "SILVER"
    BY <1>2
  <2> QED BY <2>1, <2>2, <2>3
<1> QED BY <1>1, <1>4

\* A part of a whole is at most all of it, in percent.
LEMMA PartsInPercent ==
    ASSUME NEW whole \in Nat \ {0}, NEW part \in 0 .. whole
    PROVE  (part * 100) \div whole \in 0 .. 100
<1> PICK q : q = (part * 100) \div whole
  OBVIOUS
<1>1. part * 100 \in Int
  OBVIOUS
<1>2. q \in Int /\ whole * q <= part * 100 /\ part * 100 < whole * q + whole
  BY <1>1, Quotients DEF IsQuotient, FitsAsQuotient
<1>3. q <= 100
  <2> SUFFICES ASSUME q >= 101 PROVE FALSE
    BY <1>2
  <2>1. whole * q >= whole * 101
    BY <1>2
  <2> QED BY <1>2, <2>1
<1>4. q >= 0
  <2> SUFFICES ASSUME q <= -1 PROVE FALSE
    BY <1>2
  <2>1. whole * q <= whole * (-1)
    BY <1>2
  <2> QED BY <1>2, <2>1
<1> QED BY <1>2, <1>3, <1>4

\* Never is everybody below the average.
LEMMA SomebodyIsAhead ==
    ASSUME NEW D, IsFiniteSet(D), D # {}, NEW counts \in [D -> Nat]
    PROVE  \E u \in D : Referral!Ahead(counts[u], counts)
<1> PICK values : values = {counts[u] : u \in D}
  OBVIOUS
<1>1. values \in SUBSET Int /\ IsFiniteSet(values) /\ values # {}
  <2>1. counts \in Surjection(D, values)
    BY DEF Surjection
  <2> QED BY <2>1, FS_Surjection
<1>2. PICK u \in D : \A d \in D : counts[d] <= counts[u]
  BY <1>1, LargestNumber
<1> PICK most : most = [d \in D |-> counts[u]]
  OBVIOUS
<1>3. \A d \in D : most[d] = counts[u]
  OBVIOUS
<1>4. Total(most, D) = counts[u] * Cardinality(D)
  BY <1>3, TotalOfConstant
<1>5. Total(counts, D) <= Total(most, D)
  BY <1>2, <1>3, TotalsCompare
<1>6. Referral!Ahead(counts[u], counts) <=> Total(counts, D) <= counts[u] * Cardinality(D)
  <2>1. DOMAIN counts = D
    OBVIOUS
  <2>2. Referral!Ahead(counts[u], counts) <=>
           Total(counts, DOMAIN counts) <= counts[u] * Cardinality(DOMAIN counts)
    BY DEF Referral!Ahead, Referral!MapThenSumSet, Referral!MapThenFoldSet, Total,
           MapThenSumSet, MapThenFoldSet, Referral!Cardinality, Cardinality
  <2> QED BY <2>1, <2>2
<1> QED BY <1>4, <1>5, <1>6
\* A step of the whole is one of the referrals, or leaves them alone.
LEMMA ReferSteps == [AllNext]_allVars => [Referral!Next]_(Referral!vars)
BY DEF AllNext, OtherParts, allVars, refer, Referral!vars

\* What referrals are made of.
LEMMA ReferConstants ==
    /\ IsFiniteSet(Hand)
    /\ ReferUser \subseteq Nat \ {0} /\ ReferUser # {} /\ ReferAdvocate \subseteq Nat
    /\ ReferMaxAdvocates \in Nat /\ ReferMaxMonth \in Nat
BY MoneyAssumption, CommunityAssumption
DEF Referral!ReferralAssumption, Referral!Nobody, Roster!RosterAssumption, Roster!IsFiniteSet,
    IsFiniteSet

LEMMA ReferCounts == \A S : Referral!Cardinality(S) = Cardinality(S)
BY DEF Referral!Cardinality, Cardinality

\* What a request has read: of an advocate, or of a donation and its code.
ReferInvite == [step : {"invite"}, advocate : ReferAdvocate]
ReferCode == [step : {"attribute", "store"}, donation : ReferDonation, code : Referral!Codes]
ReferTasks == {Referral!Idle} \cup ReferInvite \cup ReferCode
HasCode(t) == t.step \in {"attribute", "store"}

LEMMA ReferStages ==
    /\ Referral!Idle.step = "idle"
    /\ \A t \in ReferTasks :
          /\ t.step \in {"idle", "invite", "attribute", "store"}
          /\ t.step = "idle" <=> t = Referral!Idle
          /\ t.step = "invite" <=> t \in ReferInvite
          /\ HasCode(t) <=> t \in ReferCode
BY DEF ReferTasks, ReferInvite, ReferCode, HasCode, Referral!Idle

\* Donations, links and advocates are finitely many; no donation is of a later month.
ReferTypes ==
    /\ Referral!TypeOK
    /\ referTask \in [Hand -> ReferTasks]
    /\ referMonth \in 0 .. ReferMaxMonth
    /\ IsFiniteSet(DOMAIN referDonations) /\ IsFiniteSet(DOMAIN referLinks)
    /\ IsFiniteSet(referInvites)
    /\ \A d \in DOMAIN referDonations : referDonations[d].month <= referMonth

\* What is attributed, or about to be, is so to somebody else than the donor; a
\* donation that waits for its attribution has none, and waits with one request.
ReferOthers ==
    /\ \A d \in DOMAIN referAttributions : Referral!BySomebodyElse(d, referAttributions[d])
    /\ \A h \in Hand : HasCode(referTask[h]) =>
          /\ referTask[h].donation \in DOMAIN referDonations \ DOMAIN referAttributions
          /\ referTask[h].step = "store" =>
                Referral!BySomebodyElse(referTask[h].donation, referTask[h].code)
          /\ \A g \in Hand :
                HasCode(referTask[g]) /\ referTask[g].donation = referTask[h].donation => g = h

ReferOneAtATime ==
    \A g, h \in Hand : referTask[g] # Referral!Idle /\ referTask[h] # Referral!Idle => g = h

\* While requests do not overlap there is room for the advocate that one has counted.
ReferAlone ==
    /\ ReferOneAtATime
    /\ Cardinality(referInvites) <= ReferMaxAdvocates
    /\ \A h \in Hand :
          referTask[h].step = "invite" => Cardinality(referInvites) < ReferMaxAdvocates

ReferInv == ReferTypes /\ ReferOthers /\ (alone => ReferAlone)

\* A table with a row more, or with another one in its place.
IsStored(table, key, row, more) ==
    /\ DOMAIN more = DOMAIN table \cup {key}
    /\ more[key] = row /\ \A k \in DOMAIN table \ {key} : more[k] = table[k]
    /\ IsFiniteSet(DOMAIN table) => IsFiniteSet(DOMAIN more)

LEMMA RowsAreStored ==
    \A table, key, row : IsStored(table, key, row, Referral!With(table, key, row))
<1> TAKE table, key, row
<1> PICK more : more = Referral!With(table, key, row)
  OBVIOUS
<1>1. DOMAIN more = DOMAIN table \cup {key}
  BY DEF Referral!With
<1>2. more[key] = row /\ \A k \in DOMAIN table \ {key} : more[k] = table[k]
  BY DEF Referral!With
<1>3. IsFiniteSet(DOMAIN table) => IsFiniteSet(DOMAIN more)
  BY <1>1, FS_AddElement
<1> QED BY <1>1, <1>2, <1>3 DEF IsStored

\* A donation keeps its donor, its campaign and its month.
DonationsStay ==
    \A d \in DOMAIN referDonations :
       /\ d \in DOMAIN referDonations'
       /\ referDonations'[d].donor = referDonations[d].donor
       /\ referDonations'[d].month = referDonations[d].month

\* Requests keep what they have read, or end, and no donation is attributed.
LEMMA OthersStay ==
    ASSUME ReferTypes, ReferOthers, DonationsStay, UNCHANGED referAttributions,
           \A h \in Hand : referTask'[h] = referTask[h] \/ ~HasCode(referTask'[h])
    PROVE  ReferOthers'
<1>1. \A d \in DOMAIN referDonations, code \in Referral!Codes :
         Referral!BySomebodyElse(d, code) => Referral!BySomebodyElse(d, code)'
  BY DEF DonationsStay, Referral!BySomebodyElse
<1>2. \A d \in DOMAIN referAttributions : Referral!BySomebodyElse(d, referAttributions[d])'
  BY <1>1 DEF ReferOthers, ReferTypes, Referral!TypeOK
<1>3. ASSUME NEW h \in Hand, HasCode(referTask'[h])
      PROVE  /\ referTask'[h] = referTask[h] /\ HasCode(referTask[h])
             /\ referTask[h].code \in Referral!Codes
  BY <1>3, ReferStages DEF ReferTypes, ReferCode
<1>4. ASSUME NEW h \in Hand, HasCode(referTask'[h])
      PROVE  /\ referTask'[h].donation \in DOMAIN referDonations' \ DOMAIN referAttributions'
             /\ referTask'[h].step = "store" =>
                   Referral!BySomebodyElse(referTask[h].donation, referTask[h].code)'
             /\ \A g \in Hand : HasCode(referTask'[g])
                                   /\ referTask'[g].donation = referTask'[h].donation => g = h
  BY <1>1, <1>3, <1>4 DEF ReferOthers, DonationsStay
<1>5. ASSUME NEW h \in Hand, HasCode(referTask'[h]), referTask'[h].step = "store"
      PROVE  Referral!BySomebodyElse(referTask[h].donation, referTask[h].code)'
             /\ referTask'[h] = referTask[h]
  BY <1>3, <1>4, <1>5
<1> QED BY <1>2, <1>4, <1>5 DEF ReferOthers, Referral!BySomebodyElse, HasCode

LEMMA LinksKeepReferrals ==
    ASSUME ReferTypes, ReferOthers, NEW u \in ReferUser, NEW shown \in BOOLEAN,
           referLinks' = Referral!With(referLinks, u, shown),
           UNCHANGED <<referDonations, referInvites, referAttributions, referMonth, referTask>>
    PROVE  ReferTypes' /\ ReferOthers'
<1>1. /\ DOMAIN referLinks' = DOMAIN referLinks \cup {u}
      /\ referLinks'[u] = shown
      /\ \A k \in DOMAIN referLinks \ {u} : referLinks'[k] = referLinks[k]
      /\ IsFiniteSet(DOMAIN referLinks')
  <2>1. IsStored(referLinks, u, shown, referLinks')
    BY RowsAreStored
  <2> QED BY <2>1 DEF IsStored, ReferTypes
<1>2. referLinks' \in [DOMAIN referLinks' -> BOOLEAN]
  BY <1>1 DEF Referral!With, ReferTypes, Referral!TypeOK
<1>3. ReferTypes'
  BY <1>1, <1>2 DEF ReferTypes, Referral!TypeOK
<1>4. DonationsStay
  BY DEF DonationsStay
<1> QED BY <1>3, <1>4, OthersStay

LEMMA InviteKeepsReferrals ==
    ASSUME ReferTypes, ReferOthers, NEW h \in Hand, NEW a \in ReferAdvocate,
           Referral!InviteAdvocate(h, a)
    PROVE  ReferTypes' /\ ReferOthers'
<1> PICK t : t = [step |-> "invite", advocate |-> a]
  OBVIOUS
<1>1. t \in ReferTasks /\ t.step = "invite"
  BY DEF ReferTasks, ReferInvite
<1>2. /\ referTask' = [referTask EXCEPT ![h] = t]
      /\ UNCHANGED <<referDonations, referLinks, referInvites, referAttributions, referMonth>>
  BY DEF Referral!InviteAdvocate, Referral!Continue
<1>3. referTask' \in [Hand -> ReferTasks]
  BY <1>1, <1>2 DEF ReferTypes
<1>4. ReferTypes'
  BY <1>2, <1>3, ReferStages DEF ReferTypes, Referral!TypeOK
<1>5. DonationsStay
  BY <1>2 DEF DonationsStay
<1>6. \A g \in Hand : referTask'[g] = referTask[g] \/ ~HasCode(referTask'[g])
  BY <1>1, <1>2 DEF HasCode, ReferTypes
<1> QED BY <1>2, <1>4, <1>5, <1>6, OthersStay

LEMMA StoreInviteKeepsReferrals ==
    ASSUME ReferTypes, ReferOthers, NEW h \in Hand, Referral!StoreInvite(h)
    PROVE  ReferTypes' /\ ReferOthers'
<1>1. /\ referTask' = [referTask EXCEPT ![h] = Referral!Idle]
      /\ referInvites' = referInvites \cup {referTask[h].advocate}
      /\ UNCHANGED <<referDonations, referLinks, referAttributions, referMonth>>
  BY DEF Referral!StoreInvite, Referral!Continue
<1>2. referTask[h].advocate \in ReferAdvocate
  BY ReferStages DEF ReferTypes, ReferInvite, Referral!StoreInvite
<1>3. referTask' \in [Hand -> ReferTasks]
  BY <1>1 DEF ReferTypes, ReferTasks
<1>4. IsFiniteSet(referInvites')
  BY <1>1, FS_AddElement DEF ReferTypes
<1>5. ReferTypes'
  BY <1>1, <1>2, <1>3, <1>4, ReferStages DEF ReferTypes, Referral!TypeOK
<1>6. DonationsStay
  BY <1>1 DEF DonationsStay
<1>7. \A g \in Hand : referTask'[g] = referTask[g] \/ ~HasCode(referTask'[g])
  BY <1>1, ReferStages DEF HasCode, ReferTypes
<1> QED BY <1>1, <1>5, <1>6, <1>7, OthersStay

\* A donation more, of this month.
LEMMA DonationsAreStored ==
    ASSUME ReferTypes, NEW d \in ReferDonation, d \notin DOMAIN referDonations, NEW row,
           row \in [donor : ReferUser \cup {Referral!Nobody}, campaign : ReferCampaign,
                    status : Referral!Statuses, recurring : BOOLEAN, month : 0 .. ReferMaxMonth],
           row.month = referMonth,
           referDonations' = Referral!With(referDonations, d, row),
           UNCHANGED <<referLinks, referInvites, referAttributions, referMonth>>,
           referTask' \in [Hand -> ReferTasks]
    PROVE  /\ ReferTypes' /\ DonationsStay
           /\ DOMAIN referDonations' = DOMAIN referDonations \cup {d}
<1>1. /\ DOMAIN referDonations' = DOMAIN referDonations \cup {d}
      /\ referDonations'[d] = row
      /\ \A k \in DOMAIN referDonations \ {d} : referDonations'[k] = referDonations[k]
      /\ IsFiniteSet(DOMAIN referDonations')
  <2>1. IsStored(referDonations, d, row, referDonations')
    BY RowsAreStored
  <2> QED BY <2>1 DEF IsStored, ReferTypes
<1>2. \A k \in DOMAIN referDonations' :
         /\ referDonations'[k] \in [donor : ReferUser \cup {Referral!Nobody},
                                    campaign : ReferCampaign, status : Referral!Statuses,
                                    recurring : BOOLEAN, month : 0 .. ReferMaxMonth]
         /\ referDonations'[k].month <= referMonth
  BY <1>1 DEF ReferTypes, Referral!TypeOK
<1>3. \A h \in Hand : referTask'[h].step \in {"idle", "invite", "attribute", "store"}
  BY ReferStages
<1>4. Referral!TypeOK'
  BY <1>1, <1>2, <1>3 DEF ReferTypes, Referral!TypeOK
<1>5. ReferTypes'
  BY <1>1, <1>2, <1>4 DEF ReferTypes
<1>6. DonationsStay
  BY <1>1 DEF DonationsStay
<1> QED BY <1>1, <1>5, <1>6

LEMMA GiveKeepsReferrals ==
    ASSUME ReferTypes, ReferOthers, NEW h \in Hand, NEW d \in ReferDonation,
           NEW u \in ReferUser \cup {Referral!Nobody}, NEW c \in ReferCampaign,
           NEW code \in Referral!Codes, Referral!Give(h, d, u, c, code)
    PROVE  ReferTypes' /\ ReferOthers'
<1> PICK t : t = [step |-> "attribute", donation |-> d, code |-> code]
  OBVIOUS
<1> PICK row : row = [donor |-> u, campaign |-> c, status |-> "PLEDGED", recurring |-> FALSE,
                      month |-> referMonth]
  OBVIOUS
<1>1. t \in ReferTasks /\ t.step = "attribute" /\ t.donation = d
  BY DEF ReferTasks, ReferCode
<1>2. /\ d \notin DOMAIN referDonations
      /\ referTask' = [referTask EXCEPT ![h] = t]
      /\ referDonations' = Referral!With(referDonations, d, row)
      /\ UNCHANGED <<referLinks, referInvites, referAttributions, referMonth>>
  BY DEF Referral!Give, Referral!Continue
<1>3. referTask' \in [Hand -> ReferTasks]
  BY <1>1, <1>2 DEF ReferTypes
<1>4. /\ row \in [donor : ReferUser \cup {Referral!Nobody}, campaign : ReferCampaign,
                  status : Referral!Statuses, recurring : BOOLEAN, month : 0 .. ReferMaxMonth]
      /\ row.month = referMonth
  BY DEF ReferTypes, Referral!Statuses
<1>5. /\ ReferTypes' /\ DonationsStay
      /\ DOMAIN referDonations' = DOMAIN referDonations \cup {d}
  BY <1>2, <1>3, <1>4, DonationsAreStored
<1>6. referTask'[h] = t /\ \A g \in Hand \ {h} : referTask'[g] = referTask[g]
  BY <1>2 DEF ReferTypes
<1>7. DOMAIN referAttributions \subseteq DOMAIN referDonations
  BY DEF ReferTypes, Referral!TypeOK
<1>8. ASSUME NEW g \in Hand \ {h}, HasCode(referTask[g])
      PROVE  referTask[g].code \in Referral!Codes
  BY <1>8, ReferStages DEF ReferTypes, ReferCode
<1>9. \A e \in DOMAIN referDonations, k \in Referral!Codes :
         Referral!BySomebodyElse(e, k) => Referral!BySomebodyElse(e, k)'
  BY <1>5 DEF DonationsStay, Referral!BySomebodyElse
<1>10. \A e \in DOMAIN referAttributions : Referral!BySomebodyElse(e, referAttributions[e])'
  BY <1>2, <1>9 DEF ReferOthers, ReferTypes, Referral!TypeOK
<1>11. ASSUME NEW g \in Hand \ {h}, HasCode(referTask[g])
       PROVE  /\ referTask[g].donation \in DOMAIN referDonations \ DOMAIN referAttributions
              /\ referTask[g].step = "store" =>
                    Referral!BySomebodyElse(referTask[g].donation, referTask[g].code)'
              /\ \A f \in Hand : HasCode(referTask[f])
                                    /\ referTask[f].donation = referTask[g].donation => f = g
  BY <1>6, <1>8, <1>9, <1>11 DEF ReferOthers
<1>12. ASSUME NEW g \in Hand, HasCode(referTask'[g])
       PROVE  /\ referTask'[g].donation \in DOMAIN referDonations' \ DOMAIN referAttributions'
              /\ referTask'[g].step = "store" =>
                    Referral!BySomebodyElse(referTask[g].donation, referTask[g].code)'
                    /\ referTask'[g] = referTask[g]
              /\ \A f \in Hand : HasCode(referTask'[f])
                                    /\ referTask'[f].donation = referTask'[g].donation => f = g
  BY <1>1, <1>2, <1>5, <1>6, <1>7, <1>11, <1>12
<1>13. ReferOthers'
  BY <1>2, <1>10, <1>12 DEF ReferOthers, Referral!BySomebodyElse
<1> QED BY <1>5, <1>13

LEMMA RecurKeepsReferrals ==
    ASSUME ReferTypes, ReferOthers, NEW d \in ReferDonation, NEW u \in ReferUser,
           NEW c \in ReferCampaign, Referral!Recur(d, u, c)
    PROVE  ReferTypes' /\ ReferOthers'
<1> PICK row : row = [donor |-> u, campaign |-> c, status |-> "SUCCEEDED", recurring |-> TRUE,
                      month |-> referMonth]
  OBVIOUS
<1>1. /\ d \notin DOMAIN referDonations
      /\ referDonations' = Referral!With(referDonations, d, row)
      /\ UNCHANGED <<referLinks, referInvites, referAttributions, referMonth, referTask>>
  BY DEF Referral!Recur
<1>2. /\ row \in [donor : ReferUser \cup {Referral!Nobody}, campaign : ReferCampaign,
                  status : Referral!Statuses, recurring : BOOLEAN, month : 0 .. ReferMaxMonth]
      /\ row.month = referMonth
  BY DEF ReferTypes, Referral!Statuses
<1>3. referTask' \in [Hand -> ReferTasks]
  BY <1>1 DEF ReferTypes
<1>4. ReferTypes' /\ DonationsStay
  BY <1>1, <1>2, <1>3, DonationsAreStored
<1> QED BY <1>1, <1>4, OthersStay

LEMMA SettleKeepsReferrals ==
    ASSUME ReferTypes, ReferOthers, NEW d \in DOMAIN referDonations,
           NEW status \in {"CAPTURED", "FAILED", "EXPIRED"}, Referral!Settle(d, status)
    PROVE  ReferTypes' /\ ReferOthers' /\ DonationsStay
<1>1. /\ referDonations' = [referDonations EXCEPT ![d].status = status]
      /\ UNCHANGED <<referLinks, referInvites, referAttributions, referMonth, referTask>>
  BY DEF Referral!Settle
<1>2. /\ DOMAIN referDonations' = DOMAIN referDonations
      /\ \A k \in DOMAIN referDonations \ {d} : referDonations'[k] = referDonations[k]
      /\ referDonations'[d] = [referDonations[d] EXCEPT !.status = status]
  BY <1>1
<1>3. /\ referDonations[d] \in [donor : ReferUser \cup {Referral!Nobody},
                                campaign : ReferCampaign, status : Referral!Statuses,
                                recurring : BOOLEAN, month : 0 .. ReferMaxMonth]
      /\ referDonations[d].month <= referMonth
  BY DEF ReferTypes, Referral!TypeOK
<1>4. /\ referDonations'[d] \in [donor : ReferUser \cup {Referral!Nobody},
                                 campaign : ReferCampaign, status : Referral!Statuses,
                                 recurring : BOOLEAN, month : 0 .. ReferMaxMonth]
      /\ referDonations'[d].donor = referDonations[d].donor
      /\ referDonations'[d].month = referDonations[d].month
  BY <1>2, <1>3 DEF Referral!Statuses
<1>5. Referral!TypeOK'
  BY <1>1, <1>2, <1>4 DEF ReferTypes, Referral!TypeOK
<1>6. ReferTypes'
  BY <1>1, <1>2, <1>3, <1>4, <1>5 DEF ReferTypes
<1>7. DonationsStay
  BY <1>2, <1>4 DEF DonationsStay
<1> QED BY <1>1, <1>6, <1>7, OthersStay

LEMMA MonthKeepsReferrals ==
    ASSUME ReferTypes, ReferOthers, Referral!MonthPasses
    PROVE  ReferTypes' /\ ReferOthers'
<1>1. /\ referMonth < ReferMaxMonth /\ referMonth' = referMonth + 1
      /\ UNCHANGED <<referDonations, referLinks, referInvites, referAttributions, referTask>>
  BY DEF Referral!MonthPasses
<1>2. referMonth' \in 0 .. ReferMaxMonth /\ referMonth' >= referMonth
  BY <1>1, ReferConstants DEF ReferTypes
<1>3. \A d \in DOMAIN referDonations : referDonations[d].month <= referMonth'
  BY <1>1, <1>2, ReferConstants DEF ReferTypes, Referral!TypeOK
<1>4. ReferTypes'
  BY <1>1, <1>2, <1>3 DEF ReferTypes, Referral!TypeOK
<1>5. DonationsStay
  BY <1>1 DEF DonationsStay
<1> QED BY <1>1, <1>4, <1>5, OthersStay

LEMMA AttributeKeepsReferrals ==
    ASSUME ReferTypes, ReferOthers, NEW h \in Hand, Referral!Attribute(h)
    PROVE  ReferTypes' /\ ReferOthers'
<1> PICK old : old = referTask[h]
  OBVIOUS
<1> PICK t : t = [step |-> "store", donation |-> old.donation, code |-> old.code]
  OBVIOUS
<1>1. old.step = "attribute" /\ HasCode(old) /\ old \in ReferCode
  BY ReferStages DEF ReferTypes, Referral!Attribute, HasCode
<1>2. /\ t \in ReferCode /\ t \in ReferTasks /\ t.step = "store" /\ HasCode(t)
      /\ t.donation = old.donation /\ t.code = old.code
  BY <1>1 DEF ReferTasks, ReferCode, HasCode
<1>3. /\ UNCHANGED <<referDonations, referLinks, referInvites, referAttributions, referMonth>>
      /\ \/ referTask' = [referTask EXCEPT ![h] = Referral!Idle]
         \/ /\ referTask' = [referTask EXCEPT ![h] = t]
            /\ Referral!BySomebodyElse(old.donation, old.code)
  BY DEF Referral!Attribute, Referral!Continue
<1>4. referTask' \in [Hand -> ReferTasks]
  BY <1>2, <1>3 DEF ReferTypes, ReferTasks
<1>5. ReferTypes'
  BY <1>3, <1>4, ReferStages DEF ReferTypes, Referral!TypeOK
<1>6. CASE referTask' = [referTask EXCEPT ![h] = Referral!Idle]
  <2>1. DonationsStay
    BY <1>3 DEF DonationsStay
  <2>2. \A g \in Hand : referTask'[g] = referTask[g] \/ ~HasCode(referTask'[g])
    BY <1>6, ReferStages DEF HasCode, ReferTypes
  <2> QED BY <1>3, <1>5, <2>1, <2>2, OthersStay
<1>7. CASE /\ referTask' = [referTask EXCEPT ![h] = t]
           /\ Referral!BySomebodyElse(old.donation, old.code)
  <2>1. referTask'[h] = t /\ \A g \in Hand \ {h} : referTask'[g] = referTask[g]
    BY <1>7 DEF ReferTypes
  <2>2. \A g \in Hand : /\ HasCode(referTask'[g]) <=> HasCode(referTask[g])
                        /\ referTask'[g].donation = referTask[g].donation \/ g # h
                        /\ g # h => referTask'[g] = referTask[g]
    BY <1>1, <1>2, <2>1
  <2>3. \A d, code : Referral!BySomebodyElse(d, code) <=> Referral!BySomebodyElse(d, code)'
    BY <1>3 DEF Referral!BySomebodyElse
  <2>4. ASSUME NEW g \in Hand, HasCode(referTask'[g])
        PROVE  /\ referTask'[g].donation \in DOMAIN referDonations' \ DOMAIN referAttributions'
               /\ referTask'[g].step = "store" =>
                     Referral!BySomebodyElse(referTask'[g].donation, referTask'[g].code)
               /\ \A f \in Hand : HasCode(referTask'[f])
                                     /\ referTask'[f].donation = referTask'[g].donation => f = g
    BY <1>2, <1>3, <1>7, <2>1, <2>2, <2>4 DEF ReferOthers
  <2>5. ReferOthers'
    BY <1>3, <2>4 DEF ReferOthers, Referral!BySomebodyElse
  <2> QED BY <1>5, <2>5
<1> QED BY <1>3, <1>6, <1>7

LEMMA StoreKeepsReferrals ==
    ASSUME ReferTypes, ReferOthers, NEW h \in Hand, Referral!StoreAttribution(h)
    PROVE  /\ ReferTypes' /\ ReferOthers'
           /\ \A d \in DOMAIN referAttributions :
                 d \in DOMAIN referAttributions' /\ referAttributions'[d] = referAttributions[d]
<1> PICK old : old = referTask[h]
  OBVIOUS
<1> PICK more : more = Referral!With(referAttributions, old.donation, old.code)
  OBVIOUS
<1>1. /\ old.step = "store" /\ HasCode(old) /\ old.code \in Referral!Codes
      /\ old.donation \in DOMAIN referDonations \ DOMAIN referAttributions
      /\ Referral!BySomebodyElse(old.donation, old.code)
  BY ReferStages DEF ReferTypes, ReferOthers, Referral!StoreAttribution, HasCode, ReferCode
<1>2. /\ UNCHANGED <<referDonations, referLinks, referInvites, referMonth>>
      /\ referTask' = [referTask EXCEPT ![h] = Referral!Idle]
      /\ referAttributions' = referAttributions \/ referAttributions' = more
  BY DEF Referral!StoreAttribution, Referral!Continue
<1>3. /\ DOMAIN more = DOMAIN referAttributions \cup {old.donation}
      /\ more[old.donation] = old.code
      /\ \A d \in DOMAIN referAttributions : more[d] = referAttributions[d]
  <2>1. IsStored(referAttributions, old.donation, old.code, more)
    BY RowsAreStored
  <2> QED BY <1>1, <2>1 DEF IsStored
<1>4. referTask' \in [Hand -> ReferTasks]
  BY <1>2 DEF ReferTypes, ReferTasks
<1>5. /\ DOMAIN referAttributions' \subseteq DOMAIN referDonations
      /\ \A d \in DOMAIN referAttributions' :
            referAttributions'[d] \in Referral!Codes
            /\ Referral!BySomebodyElse(d, referAttributions'[d])
  BY <1>1, <1>2, <1>3 DEF ReferTypes, Referral!TypeOK, ReferOthers
<1>6. ReferTypes'
  BY <1>2, <1>4, <1>5, ReferStages DEF ReferTypes, Referral!TypeOK
<1>7. referTask'[h] = Referral!Idle /\ \A g \in Hand \ {h} : referTask'[g] = referTask[g]
  BY <1>2 DEF ReferTypes
<1>8. ASSUME NEW g \in Hand, HasCode(referTask'[g])
      PROVE  /\ g # h /\ referTask'[g] = referTask[g] /\ HasCode(referTask[g])
             /\ referTask[g].donation # old.donation
  <2>1. g # h
    BY <1>7, <1>8, ReferStages DEF HasCode
  <2> QED BY <1>1, <1>7, <1>8, <2>1 DEF ReferOthers
<1>9. ASSUME NEW g \in Hand, HasCode(referTask'[g])
      PROVE  /\ referTask'[g].donation \in DOMAIN referDonations' \ DOMAIN referAttributions'
             /\ referTask'[g].step = "store" =>
                   Referral!BySomebodyElse(referTask'[g].donation, referTask'[g].code)
             /\ \A f \in Hand : HasCode(referTask'[f])
                                   /\ referTask'[f].donation = referTask'[g].donation => f = g
  BY <1>2, <1>3, <1>8, <1>9 DEF ReferOthers
<1>10. ReferOthers'
  BY <1>2, <1>5, <1>9 DEF ReferOthers, Referral!BySomebodyElse
<1> QED BY <1>2, <1>3, <1>6, <1>10
-----------------------------------------------------------------------------
(* While requests do not overlap there is no advocate too many.            *)

\* The history of the whole sees the requests of the referrals.
LEMMA ReferHistory ==
    ASSUME [AllNext]_allVars, alone => ReferOneAtATime, alone'
    PROVE  alone /\ ReferOneAtATime'
<1>1. CASE AllNext
  <2> PICK busy : busy = {h \in Hand : referTask'[h] # Referral!Idle}
    OBVIOUS
  <2>1. alone /\ Cardinality(busy) <= 1
    BY <1>1 DEF AllNext, AtMostOneRequest
  <2>2. IsFiniteSet(busy)
    BY ReferConstants, FS_Subset
  <2> QED BY <2>1, <2>2, OneAtMost DEF ReferOneAtATime
<1>2. CASE UNCHANGED allVars
  BY <1>2 DEF allVars, refer, ReferOneAtATime
<1> QED BY <1>1, <1>2

\* Requests that invite nobody.
LEMMA ReferRestAlone ==
    ASSUME ReferAlone, ReferOneAtATime', UNCHANGED referInvites,
           \A h \in Hand : referTask'[h].step = "invite" => referTask'[h] = referTask[h]
    PROVE  ReferAlone'
BY DEF ReferAlone

\* The one that counts the advocates, and the one that stores another.
LEMMA InvitesStayAlone ==
    ASSUME ReferTypes, ReferAlone, ReferOneAtATime', NEW h \in Hand,
           \/ \E a \in ReferAdvocate : Referral!InviteAdvocate(h, a)
           \/ Referral!StoreInvite(h)
    PROVE  ReferAlone'
<1> PICK n : n = Cardinality(referInvites)
  OBVIOUS
<1>1. n \in Nat /\ ReferMaxAdvocates \in Nat
  BY FS_CardinalityType, ReferConstants DEF ReferTypes
<1>2. CASE \E a \in ReferAdvocate : Referral!InviteAdvocate(h, a)
  <2>1. n < ReferMaxAdvocates /\ UNCHANGED referInvites
    BY <1>2, ReferCounts DEF Referral!InviteAdvocate, Referral!RoomForAdvocates
  <2> QED BY <2>1 DEF ReferAlone
<1>3. CASE Referral!StoreInvite(h)
  <2>1. /\ referTask[h].step = "invite" /\ referTask' = [referTask EXCEPT ![h] = Referral!Idle]
        /\ referInvites' = referInvites \cup {referTask[h].advocate}
    BY <1>3 DEF Referral!StoreInvite, Referral!Continue
  <2>2. n < ReferMaxAdvocates
    BY <2>1 DEF ReferAlone
  <2> PICK more : more = referInvites \cup {referTask[h].advocate}
    OBVIOUS
  <2>3. Cardinality(more) \in Nat /\ Cardinality(more) <= n + 1
    <3>1. Cardinality(more) = n \/ Cardinality(more) = n + 1
      BY FS_AddElement, Zenon DEF ReferTypes
    <3> QED BY <1>1, <3>1
  <2>4. \A g \in Hand : referTask'[g] = Referral!Idle
    <3>1. referTask[h] # Referral!Idle /\ referTask[h] \in ReferTasks
      BY <2>1, ReferStages DEF ReferTypes
    <3>2. \A g \in Hand \ {h} : referTask[g] = Referral!Idle
      BY <3>1 DEF ReferAlone, ReferOneAtATime
    <3> QED BY <2>1, <3>2 DEF ReferTypes
  <2>5. Cardinality(referInvites') <= ReferMaxAdvocates
    <3>1. referInvites' = more
      BY <2>1
    <3> QED BY <1>1, <2>2, <2>3, <3>1
  <2> QED BY <2>4, <2>5, ReferStages DEF ReferAlone
<1> QED BY <1>2, <1>3

LEMMA ReferStaysAlone ==
    ASSUME ReferTypes, ReferAlone, ReferOneAtATime', [Referral!Next]_(Referral!vars)
    PROVE  ReferAlone'
<1>1. CASE UNCHANGED Referral!vars
  BY <1>1, ReferRestAlone DEF Referral!vars
<1>2. ASSUME NEW h \in Hand, Referral!AdvocateStep(h) PROVE ReferAlone'
  BY <1>2, InvitesStayAlone DEF Referral!AdvocateStep
<1>3. ASSUME NEW h \in Hand, Referral!DonorStep(h) PROVE ReferAlone'
  <2>1. CASE UNCHANGED <<referInvites, referTask>>
    BY <2>1, ReferRestAlone
  <2>2. ASSUME NEW t, t.step # "invite", referTask' = [referTask EXCEPT ![h] = t],
               UNCHANGED referInvites
        PROVE  ReferAlone'
    <3>1. \A g \in Hand : referTask'[g].step = "invite" => referTask'[g] = referTask[g]
      BY <2>2 DEF ReferTypes
    <3> QED BY <2>2, <3>1, ReferRestAlone
  <2>3. \/ UNCHANGED <<referInvites, referTask>>
        \/ /\ UNCHANGED referInvites
           /\ \E t : t.step # "invite" /\ referTask' = [referTask EXCEPT ![h] = t]
    <3>1. CASE \/ \E u \in ReferUser : Referral!OpenLink(u)
               \/ \E u \in ReferUser, shown \in BOOLEAN : Referral!OptIn(u, shown)
      BY <3>1 DEF Referral!OpenLink, Referral!OptIn
    <3>2. ASSUME NEW d \in ReferDonation, NEW u \in ReferUser \cup {Referral!Nobody},
                 NEW c \in ReferCampaign, NEW code \in Referral!Codes,
                 Referral!Give(h, d, u, c, code)
          PROVE  /\ UNCHANGED referInvites
                 /\ \E t : t.step # "invite" /\ referTask' = [referTask EXCEPT ![h] = t]
      <4> PICK t : t = [step |-> "attribute", donation |-> d, code |-> code]
        OBVIOUS
      <4>1. t.step # "invite"
        OBVIOUS
      <4>2. referTask' = [referTask EXCEPT ![h] = t] /\ UNCHANGED referInvites
        BY <3>2 DEF Referral!Give, Referral!Continue
      <4> QED BY <4>1, <4>2
    <3>3. CASE Referral!Attribute(h) \/ Referral!StoreAttribution(h)
      <4> PICK t : t = [step |-> "store", donation |-> referTask[h].donation,
                        code |-> referTask[h].code]
        OBVIOUS
      <4>1. t.step # "invite" /\ Referral!Idle.step # "invite"
        BY ReferStages
      <4>2. /\ UNCHANGED referInvites
            /\ \/ referTask' = [referTask EXCEPT ![h] = t]
               \/ referTask' = [referTask EXCEPT ![h] = Referral!Idle]
        BY <3>3 DEF Referral!Attribute, Referral!StoreAttribution, Referral!Continue
      <4> QED BY <4>1, <4>2
    <3> QED BY <1>3, <3>1, <3>2, <3>3 DEF Referral!DonorStep
  <2> QED BY <2>1, <2>2, <2>3
<1>4. ASSUME UNCHANGED <<referInvites, referTask>> PROVE ReferAlone'
  BY <1>4, ReferRestAlone
<1>5. ASSUME \/ \E d \in ReferDonation, u \in ReferUser, c \in ReferCampaign : Referral!Recur(d, u, c)
             \/ \E d \in DOMAIN referDonations, status \in {"CAPTURED", "FAILED", "EXPIRED"} :
                   Referral!Settle(d, status)
             \/ Referral!MonthPasses
      PROVE  UNCHANGED <<referInvites, referTask>>
  BY <1>5 DEF Referral!Recur, Referral!Settle, Referral!MonthPasses
<1> QED BY <1>1, <1>2, <1>3, <1>4, <1>5 DEF Referral!Next

\* Every step keeps the types, what is attributed, and what is known of the donations.
LEMMA StepsKeepReferrals ==
    ASSUME ReferTypes, ReferOthers, [Referral!Next]_(Referral!vars)
    PROVE  /\ ReferTypes' /\ ReferOthers' /\ DonationsStay
           /\ \A d \in DOMAIN referAttributions :
                 d \in DOMAIN referAttributions' /\ referAttributions'[d] = referAttributions[d]
<1> DEFINE Goal ==
      /\ ReferTypes' /\ ReferOthers' /\ DonationsStay
      /\ \A d \in DOMAIN referAttributions :
            d \in DOMAIN referAttributions' /\ referAttributions'[d] = referAttributions[d]
<1>1. CASE UNCHANGED Referral!vars
  <2>1. DonationsStay
    BY <1>1 DEF Referral!vars, DonationsStay
  <2>2. ReferOthers'
    BY <1>1, <2>1, OthersStay DEF Referral!vars
  <2> QED BY <1>1, <2>1, <2>2 DEF Referral!vars, ReferTypes, Referral!TypeOK
<1>2. ASSUME UNCHANGED referDonations PROVE DonationsStay
  BY <1>2 DEF DonationsStay
<1>3. ASSUME NEW h \in Hand, NEW u \in ReferUser, Referral!OpenLink(u) PROVE Goal
  <2>1. /\ referLinks' = Referral!With(referLinks, u, FALSE)
        /\ UNCHANGED <<referDonations, referInvites, referAttributions, referMonth, referTask>>
    BY <1>3 DEF Referral!OpenLink
  <2>2. ReferTypes' /\ ReferOthers'
    BY <2>1, LinksKeepReferrals
  <2> QED BY <1>2, <2>1, <2>2
<1>4. ASSUME NEW h \in Hand, NEW u \in ReferUser, NEW shown \in BOOLEAN, Referral!OptIn(u, shown)
      PROVE  Goal
  <2>1. /\ referLinks' = Referral!With(referLinks, u, shown)
        /\ UNCHANGED <<referDonations, referInvites, referAttributions, referMonth, referTask>>
    BY <1>4 DEF Referral!OptIn
  <2>2. ReferTypes' /\ ReferOthers'
    BY <2>1, LinksKeepReferrals
  <2> QED BY <1>2, <2>1, <2>2
<1>5. ASSUME NEW h \in Hand, NEW d \in ReferDonation, NEW u \in ReferUser \cup {Referral!Nobody},
             NEW c \in ReferCampaign, NEW code \in Referral!Codes, Referral!Give(h, d, u, c, code)
      PROVE  Goal
  <2>1. ReferTypes' /\ ReferOthers'
    BY <1>5, GiveKeepsReferrals
  <2>2. UNCHANGED referAttributions
    BY <1>5 DEF Referral!Give
  <2>3. DonationsStay
    <3> PICK row : row = [donor |-> u, campaign |-> c, status |-> "PLEDGED",
                          recurring |-> FALSE, month |-> referMonth]
      OBVIOUS
    <3>1. /\ IsStored(referDonations, d, row, referDonations')
          /\ d \notin DOMAIN referDonations
      BY <1>5, RowsAreStored DEF Referral!Give
    <3> QED BY <3>1 DEF IsStored, DonationsStay
  <2> QED BY <2>1, <2>2, <2>3
<1>6. ASSUME NEW d \in ReferDonation, NEW u \in ReferUser, NEW c \in ReferCampaign,
             Referral!Recur(d, u, c)
      PROVE  Goal
  <2>1. ReferTypes' /\ ReferOthers'
    BY <1>6, RecurKeepsReferrals
  <2>2. UNCHANGED referAttributions
    BY <1>6 DEF Referral!Recur
  <2>3. DonationsStay
    <3> PICK row : row = [donor |-> u, campaign |-> c, status |-> "SUCCEEDED",
                          recurring |-> TRUE, month |-> referMonth]
      OBVIOUS
    <3>1. /\ IsStored(referDonations, d, row, referDonations')
          /\ d \notin DOMAIN referDonations
      BY <1>6, RowsAreStored DEF Referral!Recur
    <3> QED BY <3>1 DEF IsStored, DonationsStay
  <2> QED BY <2>1, <2>2, <2>3
<1>7. ASSUME NEW d \in DOMAIN referDonations, NEW status \in {"CAPTURED", "FAILED", "EXPIRED"},
             Referral!Settle(d, status)
      PROVE  Goal
  <2>1. ReferTypes' /\ ReferOthers' /\ DonationsStay
    BY <1>7, SettleKeepsReferrals
  <2>2. UNCHANGED referAttributions
    BY <1>7 DEF Referral!Settle
  <2> QED BY <2>1, <2>2
<1>8. ASSUME NEW h \in Hand, Referral!Attribute(h) PROVE Goal
  <2>1. ReferTypes' /\ ReferOthers'
    BY <1>8, AttributeKeepsReferrals
  <2>2. UNCHANGED <<referDonations, referAttributions>>
    BY <1>8 DEF Referral!Attribute
  <2> QED BY <1>2, <2>1, <2>2
<1>9. ASSUME NEW h \in Hand, Referral!StoreAttribution(h) PROVE Goal
  <2>1. UNCHANGED referDonations
    BY <1>9 DEF Referral!StoreAttribution
  <2> QED BY <1>2, <1>9, <2>1, StoreKeepsReferrals
<1>10. ASSUME NEW h \in Hand, Referral!AdvocateStep(h) PROVE Goal
  <2>1. UNCHANGED <<referDonations, referAttributions>>
    BY <1>10 DEF Referral!AdvocateStep, Referral!InviteAdvocate, Referral!StoreInvite
  <2>2. ReferTypes' /\ ReferOthers'
    BY <1>10, InviteKeepsReferrals, StoreInviteKeepsReferrals DEF Referral!AdvocateStep
  <2> QED BY <1>2, <2>1, <2>2
<1>11. ASSUME Referral!MonthPasses PROVE Goal
  <2>1. UNCHANGED <<referDonations, referAttributions>>
    BY <1>11 DEF Referral!MonthPasses
  <2> QED BY <1>2, <1>11, <2>1, MonthKeepsReferrals
<1> HIDE DEF Goal
<1>12. ASSUME NEW h \in Hand, Referral!DonorStep(h) PROVE Goal
  BY <1>3, <1>4, <1>5, <1>8, <1>9, <1>12 DEF Referral!DonorStep
<1>13. Goal
  BY <1>1, <1>6, <1>7, <1>10, <1>11, <1>12 DEF Referral!Next, Goal
<1> QED BY <1>13 DEF Goal
-----------------------------------------------------------------------------
(* What donors and advocates see.                                          *)

\* The months of a portfolio are those of the donations that count.
ReferMonths(u) == {referDonations[d].month : d \in Referral!Own(u)}
\* Those who have donated.
ReferGivers == {u \in ReferUser : Referral!Own(u) # {}}

LEMMA PortfoliosTell ==
    ASSUME NEW u
    PROVE  /\ Referral!Portfolio(u).stats.months = ReferMonths(u)
           /\ Referral!Portfolio(u).current =
                 Referral!CurrentMonths(ReferMonths(u), referMonth)
           /\ Referral!Portfolio(u)'.current =
                 Referral!CurrentMonths(ReferMonths(u)', referMonth')
<1>1. /\ Referral!Portfolio(u).stats.months = ReferMonths(u)
      /\ Referral!Portfolio(u).current = Referral!CurrentMonths(ReferMonths(u), referMonth)
  BY DEF Referral!Portfolio, Referral!Aggregate, ReferMonths
<1>2. Referral!Portfolio(u)'.current = Referral!CurrentMonths(ReferMonths(u)', referMonth')
  BY DEF Referral!Portfolio, Referral!Aggregate, ReferMonths
<1> QED BY <1>1, <1>2

\* A streak only ends with a month without a donation.
LEMMA StreaksAreKept ==
    ASSUME ReferTypes, ReferTypes', DonationsStay, [Referral!Next]_(Referral!vars),
           NEW u \in ReferUser
    PROVE  /\ referMonth' = referMonth /\ Referral!Own(u) \subseteq Referral!Own(u)' =>
                 Referral!Portfolio(u)'.current >= Referral!Portfolio(u).current
           /\ referMonth' = referMonth + 1 /\ referMonth \in Referral!Portfolio(u).stats.months =>
                 Referral!Portfolio(u)'.current = Referral!Portfolio(u).current
<1>1. referMonth \in Nat
  BY ReferConstants DEF ReferTypes
<1> PICK months : months = ReferMonths(u)
  OBVIOUS
<1> PICK more : more = ReferMonths(u)'
  OBVIOUS
<1>2. /\ Referral!Portfolio(u).stats.months = months
      /\ Referral!Portfolio(u).current = Referral!CurrentMonths(months, referMonth)
      /\ Referral!Portfolio(u)'.current = Referral!CurrentMonths(more, referMonth')
  BY PortfoliosTell
<1>3. ASSUME referMonth' = referMonth, Referral!Own(u) \subseteq Referral!Own(u)'
      PROVE  Referral!Portfolio(u)'.current >= Referral!Portfolio(u).current
  <2>1. months \subseteq more
    BY <1>3 DEF ReferMonths, DonationsStay, Referral!Own
  <2> QED BY <1>1, <1>2, <1>3, <2>1, StreaksGrow
<1>4. ASSUME referMonth' = referMonth + 1, referMonth \in months
      PROVE  Referral!Portfolio(u)'.current = Referral!Portfolio(u).current
  <2>1. Referral!MonthPasses
    <3>1. referMonth' # referMonth
      BY <1>1, <1>4
    <3> QED BY <3>1 DEF Referral!Next, Referral!DonorStep, Referral!AdvocateStep,
               Referral!OpenLink, Referral!OptIn, Referral!Give, Referral!Attribute,
               Referral!StoreAttribution, Referral!InviteAdvocate, Referral!StoreInvite,
               Referral!Recur, Referral!Settle, Referral!vars
  <2>2. more = months
    BY <2>1 DEF Referral!MonthPasses, ReferMonths, Referral!Own
  <2>3. referMonth + 1 \notin months
    BY <1>1 DEF ReferMonths, Referral!Own, ReferTypes, Referral!TypeOK
  <2> QED BY <1>1, <1>2, <1>4, <2>2, <2>3, StreaksLast
<1> QED BY <1>2, <1>3, <1>4

\* What a code has brought is finitely many donations.
LEMMA BroughtIsFinite ==
    ASSUME ReferTypes, NEW code
    PROVE  /\ Referral!Brought(code) \subseteq DOMAIN referDonations
           /\ IsFiniteSet(Referral!Brought(code)) /\ Cardinality(Referral!Brought(code)) \in Nat
<1>1. Referral!Brought(code) \in SUBSET DOMAIN referDonations
  BY DEF Referral!Brought, ReferTypes, Referral!TypeOK
<1>2. IsFiniteSet(Referral!Brought(code))
  BY <1>1, FS_Subset DEF ReferTypes
<1> QED BY <1>1, <1>2, FS_CardinalityType

\* Boards rank without gaps.
LEMMA BoardsRank == ReferTypes => Referral!BoardsAreRanked
<1> SUFFICES ASSUME ReferTypes PROVE Referral!BoardsAreRanked
  OBVIOUS
<1> PICK shown : shown = {u \in DOMAIN referLinks : referLinks[u]}
  OBVIOUS
<1> PICK brought : brought = [u \in shown |-> Referral!LinkStats(u).invited]
  OBVIOUS
<1> PICK board : board = Referral!RankLeaderboard(brought)
  OBVIOUS
<1>1. /\ \A u \in shown : /\ Referral!LinkStats(u).invited \in Int
                          /\ brought[u] = Referral!LinkStats(u).invited
      /\ shown \in SUBSET Int /\ IsFiniteSet(shown)
  <2>1. \A u : Referral!LinkStats(u).invited \in Int
    <3> TAKE u
    <3> PICK code : code = [kind |-> "REFERRAL", id |-> u]
      OBVIOUS
    <3>1. Referral!LinkStats(u).invited = Cardinality(Referral!Brought(code))
      BY ReferCounts DEF Referral!LinkStats
    <3>2. Cardinality(Referral!Brought(code)) \in Nat
      BY BroughtIsFinite
    <3> QED BY <3>1, <3>2
  <2>2. shown \in SUBSET DOMAIN referLinks /\ shown \in SUBSET Int
    BY ReferConstants DEF ReferTypes, Referral!TypeOK
  <2>3. IsFiniteSet(shown)
    BY <2>2, FS_Subset DEF ReferTypes
  <2> QED BY <2>1, <2>2, <2>3
<1>2. brought \in [shown -> Int]
  BY <1>1
<1>3. /\ DOMAIN board = shown
      /\ {board[i] : i \in shown} = 1 .. Cardinality(shown)
      /\ \A i \in shown : board[i] = 1 => \A j \in shown : brought[j] <= brought[i]
  <2>1. AreRanks(shown, brought, board)
    BY <1>1, <1>2, RanksAreComplete
  <2> QED BY <2>1 DEF AreRanks
<1>4. Referral!ReferralBoard = board
  BY DEF Referral!ReferralBoard
<1> PICK each : each = [a \in referInvites |->
                          Referral!Cardinality(Referral!Brought([kind |-> "ADVOCATE", id |-> a]))]
  OBVIOUS
<1> PICK ranks : ranks = Referral!RankLeaderboard(each)
  OBVIOUS
<1>5. each \in [referInvites -> Int] /\ referInvites \in SUBSET Int /\ IsFiniteSet(referInvites)
  <2>1. \A a \in referInvites : each[a] \in Int
    <3> TAKE a \in referInvites
    <3> PICK code : code = [kind |-> "ADVOCATE", id |-> a]
      OBVIOUS
    <3>1. each[a] = Cardinality(Referral!Brought(code))
      BY ReferCounts
    <3>2. Cardinality(Referral!Brought(code)) \in Nat
      BY BroughtIsFinite
    <3> QED BY <3>1, <3>2
  <2>2. referInvites \in SUBSET Int /\ IsFiniteSet(referInvites)
    BY ReferConstants DEF ReferTypes, Referral!TypeOK
  <2> QED BY <2>1, <2>2
<1>6. {ranks[a] : a \in referInvites} = 1 .. Cardinality(referInvites)
  <2>1. AreRanks(referInvites, each, ranks)
    BY <1>5, RanksAreComplete
  <2> QED BY <2>1 DEF AreRanks
<1>7. Referral!AdvocateBoard = ranks
  BY DEF Referral!AdvocateBoard
<1>8. {Referral!ReferralBoard[u] : u \in DOMAIN Referral!ReferralBoard} =
         1 .. Referral!Cardinality(DOMAIN Referral!ReferralBoard)
  <2>1. DOMAIN Referral!ReferralBoard = shown
    BY <1>3, <1>4
  <2>2. Referral!Cardinality(shown) = Cardinality(shown)
    BY ReferCounts
  <2> QED BY <1>3, <1>4, <2>1, <2>2
<1>9. {Referral!AdvocateBoard[a] : a \in referInvites} = 1 .. Referral!Cardinality(referInvites)
  BY <1>6, <1>7, ReferCounts
<1>10. \A u \in DOMAIN Referral!ReferralBoard :
          Referral!ReferralBoard[u] = 1 =>
             \A v \in DOMAIN Referral!ReferralBoard :
                Referral!LinkStats(v).invited <= Referral!LinkStats(u).invited
  BY <1>1, <1>3, <1>4
<1> QED BY <1>8, <1>9, <1>10 DEF Referral!BoardsAreRanked

\* Somebody is ahead, and what is next is within reach.
LEMMA RewardsReach == ReferTypes => Referral!RewardsAreWithinReach
<1> SUFFICES ASSUME ReferTypes PROVE Referral!RewardsAreWithinReach
  OBVIOUS
<1>1. ASSUME NEW u \in DOMAIN referLinks
      PROVE  /\ Referral!LinkStats(u).donated \in Nat
             /\ Referral!ConversionPct(Referral!LinkStats(u)) \in 0 .. 100
  <2> PICK brought : brought = Referral!Brought([kind |-> "REFERRAL", id |-> u])
    OBVIOUS
  <2> PICK counted : counted = {d \in brought : referDonations[d].status \in Referral!Counted}
    OBVIOUS
  <2> PICK stats : stats = Referral!LinkStats(u)
    OBVIOUS
  <2>1. stats.invited = Cardinality(brought) /\ stats.donated = Cardinality(counted)
    BY ReferCounts DEF Referral!LinkStats
  <2>2. IsFiniteSet(brought) /\ stats.invited \in Nat
    BY <2>1, BroughtIsFinite
  <2>3. IsFiniteSet(counted) /\ stats.donated \in Nat /\ stats.donated <= stats.invited
    <3>1. counted \in SUBSET brought
      OBVIOUS
    <3> QED BY <2>1, <2>2, <3>1, FS_Subset, FS_CardinalityType
  <2>4. Referral!ConversionPct(stats) \in 0 .. 100
    <3>1. CASE stats.invited = 0
      BY <3>1 DEF Referral!ConversionPct
    <3>2. CASE stats.invited # 0
      <4>1. (stats.donated * 100) \div stats.invited \in 0 .. 100
        BY <2>2, <2>3, <3>2, PartsInPercent
      <4> QED BY <3>2, <4>1 DEF Referral!ConversionPct
    <3> QED BY <3>1, <3>2
  <2> QED BY <2>3, <2>4
<1>2. \E u \in ReferUser : Referral!Portfolio(u).ahead
  <2> PICK counts : counts = [d \in ReferGivers |->
                                Referral!Cardinality(Referral!Supported(d))]
    OBVIOUS
  <2>1. \A u : Referral!Portfolio(u).ahead =
                  Referral!Ahead(Referral!Cardinality(Referral!Supported(u)), counts)
    BY DEF Referral!Portfolio, ReferGivers
  <2>2. \A d \in ReferGivers : counts[d] \in Nat
    <3> SUFFICES ASSUME NEW d \in ReferGivers PROVE Cardinality(Referral!Supported(d)) \in Nat
      BY ReferCounts
    <3> PICK own : own = Referral!Own(d)
      OBVIOUS
    <3>1. own \in SUBSET DOMAIN referDonations
      BY DEF Referral!Own
    <3>2. IsFiniteSet(own)
      BY <3>1, FS_Subset DEF ReferTypes
    <3> PICK f : f = [e \in own |-> referDonations[e].campaign]
      OBVIOUS
    <3>3. f \in Surjection(own, Referral!Supported(d))
      BY DEF Surjection, Referral!Supported
    <3>4. IsFiniteSet(Referral!Supported(d))
      BY <3>2, <3>3, FS_Surjection
    <3> QED BY <3>4, FS_CardinalityType
  <2>3. IsFiniteSet(ReferGivers)
    <3> PICK donors : donors = {referDonations[d].donor : d \in DOMAIN referDonations}
      OBVIOUS
    <3> PICK f : f = [d \in DOMAIN referDonations |-> referDonations[d].donor]
      OBVIOUS
    <3>1. f \in Surjection(DOMAIN referDonations, donors)
      BY DEF Surjection
    <3>2. IsFiniteSet(donors)
      BY <3>1, FS_Surjection DEF ReferTypes
    <3>3. ReferGivers \in SUBSET donors
      BY DEF ReferGivers, Referral!Own
    <3> QED BY <3>2, <3>3, FS_Subset
  <2>4. CASE ReferGivers # {}
    <3>1. counts \in [ReferGivers -> Nat]
      BY <2>2
    <3>2. PICK u \in ReferGivers : Referral!Ahead(counts[u], counts)
      BY <2>3, <2>4, <3>1, SomebodyIsAhead
    <3>3. Referral!Portfolio(u).ahead /\ u \in ReferUser
      BY <2>1, <3>2 DEF ReferGivers
    <3> QED BY <3>3
  <2>5. CASE ReferGivers = {}
    <3>1. PICK u \in ReferUser : TRUE
      BY ReferConstants
    <3> PICK yours : yours = Referral!Cardinality(Referral!Supported(u))
      OBVIOUS
    <3>2. DOMAIN counts = {}
      BY <2>5
    <3>3. Referral!Supported(u) = {}
      BY <2>5 DEF ReferGivers, Referral!Supported
    <3>4. yours = 0 /\ Cardinality({}) = 0
      BY <3>3, ReferCounts, FS_EmptySet
    <3>5. Referral!Ahead(yours, counts) <=>
             Total(counts, DOMAIN counts) <= yours * Cardinality(DOMAIN counts)
      BY DEF Referral!Ahead, Referral!MapThenSumSet, Referral!MapThenFoldSet, Total,
             MapThenSumSet, MapThenFoldSet, Referral!Cardinality, Cardinality
    <3>6. Referral!Ahead(yours, counts)
      BY <3>2, <3>4, <3>5, TotalOfNone
    <3> QED BY <2>1, <3>6
  <2> QED BY <2>4, <2>5
<1> QED BY <1>1, <1>2, TheNextIsWithinReach DEF Referral!RewardsAreWithinReach

\* The limit is what there is and what may still be invited.
LEMMA LimitIsTold == ReferTypes /\ ReferAlone => Referral!WithinAdvocateLimit
<1> SUFFICES ASSUME ReferTypes, ReferAlone PROVE Referral!WithinAdvocateLimit
  OBVIOUS
<1> PICK n : n = Cardinality(referInvites)
  OBVIOUS
<1>1. n \in Nat /\ ReferMaxAdvocates \in Nat /\ n <= ReferMaxAdvocates
  BY FS_CardinalityType, ReferConstants DEF ReferTypes, ReferAlone
<1>2. Referral!RemainingAdvocates =
         IF n < ReferMaxAdvocates THEN ReferMaxAdvocates - n ELSE 0
  BY ReferCounts DEF Referral!RemainingAdvocates
<1>3. Referral!Cardinality(referInvites) = n
  BY ReferCounts
<1> QED BY <1>1, <1>2, <1>3 DEF Referral!WithinAdvocateLimit

\* Donations count for one code, for good, and never for the donor's own; streaks end
\* only with a month without a donation; boards rank without gaps, rewards are as near as
\* they are said to be, and while requests do not overlap there are no more advocates
\* than allowed, for any users, donations, months and limit.
THEOREM ReferralsAlwaysFair == AllSpec => ReferralsAreFair
<1>1. AllInit => ReferInv
  <2> SUFFICES ASSUME Referral!Init PROVE ReferInv
    BY DEF AllInit
  <2>1. /\ DOMAIN referDonations = {} /\ DOMAIN referLinks = {} /\ referInvites = {}
        /\ DOMAIN referAttributions = {} /\ referMonth = 0
        /\ referTask = [h \in Hand |-> Referral!Idle]
    BY DEF Referral!Init
  <2>2. ReferTypes
    <3>1. referTask \in [Hand -> ReferTasks]
      BY <2>1 DEF ReferTasks
    <3>2. IsFiniteSet({})
      BY FS_EmptySet
    <3>3. referLinks \in [DOMAIN referLinks -> BOOLEAN]
      BY DEF Referral!Init
    <3>4. 0 \in 0 .. ReferMaxMonth
      BY ReferConstants
    <3> QED BY <2>1, <3>1, <3>2, <3>3, <3>4, ReferStages DEF ReferTypes, Referral!TypeOK
  <2>3. ReferOthers
    BY <2>1, ReferStages DEF ReferOthers, HasCode
  <2>4. ReferAlone
    BY <2>1, ReferStages, ReferConstants, FS_EmptySet DEF ReferAlone, ReferOneAtATime
  <2> QED BY <2>2, <2>3, <2>4 DEF ReferInv
<1>2. ReferInv /\ [AllNext]_allVars => ReferInv'
  <2> SUFFICES ASSUME ReferInv, [AllNext]_allVars PROVE ReferInv'
    OBVIOUS
  <2>1. [Referral!Next]_(Referral!vars)
    BY ReferSteps
  <2>2. ReferTypes' /\ ReferOthers'
    BY <2>1, StepsKeepReferrals DEF ReferInv
  <2>3. ASSUME alone' PROVE ReferAlone'
    <3>1. alone /\ ReferOneAtATime'
      BY <2>3, ReferHistory DEF ReferInv, ReferAlone
    <3> QED BY <2>1, <3>1, ReferStaysAlone DEF ReferInv
  <2> QED BY <2>2, <2>3 DEF ReferInv
<1>3. ReferInv => (focus = "refer" => /\ Referral!TypeOK
                                      /\ Referral!BoardsAreRanked
                                      /\ Referral!RewardsAreWithinReach
                                      /\ alone => Referral!WithinAdvocateLimit)
  BY BoardsRank, RewardsReach, LimitIsTold DEF ReferInv, ReferTypes
<1>4. ReferInv /\ [Referral!Next]_(Referral!vars) =>
          [/\ \A d \in DOMAIN referAttributions : referAttributions'[d] = referAttributions[d]
           /\ \A d \in DOMAIN referAttributions' :
                 referAttributions'[d].kind = "REFERRAL" =>
                     referAttributions'[d].id # referDonations'[d].donor]_(Referral!vars)
  <2> SUFFICES ASSUME ReferInv, [Referral!Next]_(Referral!vars)
               PROVE  /\ \A d \in DOMAIN referAttributions :
                            referAttributions'[d] = referAttributions[d]
                      /\ \A d \in DOMAIN referAttributions' :
                            referAttributions'[d].kind = "REFERRAL" =>
                                referAttributions'[d].id # referDonations'[d].donor
    OBVIOUS
  <2>1. /\ ReferOthers'
        /\ \A d \in DOMAIN referAttributions :
              d \in DOMAIN referAttributions' /\ referAttributions'[d] = referAttributions[d]
    BY StepsKeepReferrals DEF ReferInv
  <2> QED BY <2>1 DEF ReferOthers, Referral!BySomebodyElse
<1>5. ReferInv /\ [Referral!Next]_(Referral!vars) =>
          [\A u \in ReferUser :
             /\ referMonth' = referMonth /\ Referral!Own(u) \subseteq Referral!Own(u)' =>
                   Referral!Portfolio(u)'.current >= Referral!Portfolio(u).current
             /\ referMonth' = referMonth + 1
                /\ referMonth \in Referral!Portfolio(u).stats.months =>
                   Referral!Portfolio(u)'.current = Referral!Portfolio(u).current
          ]_(Referral!vars)
  <2> SUFFICES ASSUME ReferInv, [Referral!Next]_(Referral!vars), NEW u \in ReferUser
               PROVE
             /\ referMonth' = referMonth /\ Referral!Own(u) \subseteq Referral!Own(u)' =>
                   Referral!Portfolio(u)'.current >= Referral!Portfolio(u).current
             /\ referMonth' = referMonth + 1
                /\ referMonth \in Referral!Portfolio(u).stats.months =>
                   Referral!Portfolio(u)'.current = Referral!Portfolio(u).current
    OBVIOUS
  <2>1. ReferTypes /\ ReferTypes' /\ DonationsStay
    BY StepsKeepReferrals DEF ReferInv
  <2> QED BY <2>1, StreaksAreKept
<1> QED BY <1>1, <1>2, <1>3, <1>4, <1>5, ReferSteps, PTL
        DEF AllSpec, ReferralsAreFair, Referral!ReferredByOthers, Referral!StreaksAreForgiving
===============================================================================
