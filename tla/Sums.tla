-------------------------------- MODULE Sums --------------------------------
(***************************************************************************)
(* Sums over finite sets, as MapThenSumSet of the community modules adds   *)
(* them up: what a sum is does not depend on the order of its elements, so *)
(* that one element can be taken out, and two sets can be put together.    *)
(*                                                                         *)
(* MapThenSumSet is a recursive function that CHOOSE picks.  That there is *)
(* one is shown over the size of a set, by the least number of elements    *)
(* for which it fails: the numbers are well founded (LeastNatural).        *)
(*                                                                         *)
(* Then what proofs about lists need: quotients, the places of a sequence, *)
(* and recursive functions and folds over these places, which exist and    *)
(* are followed from one place to the next.                                *)
(***************************************************************************)
EXTENDS Integers, FiniteSets, FiniteSetsExt, FiniteSetTheorems, WellFoundedInduction, TLAPS

\* A set of numbers has a least one.
LEMMA LeastNatural ==
    ASSUME NEW T \in SUBSET Nat, T # {}
    PROVE  \E n \in T : \A m \in T : n <= m
<1>1. PICK n \in T : \A m \in T : <<m, n>> \notin OpToRel(<, Nat)
  BY NatLessThanWellFounded, WFMin
<1>2. \A m \in T : ~(m < n)
  BY <1>1, Zenon DEF OpToRel
<1> QED BY <1>2

\* At most one element, as a number says it.
LEMMA OneAtMost ==
    ASSUME NEW S, IsFiniteSet(S), Cardinality(S) <= 1, NEW q \in S, NEW r \in S
    PROVE  q = r
<1> SUFFICES ASSUME q # r PROVE FALSE
  OBVIOUS
<1>1. IsFiniteSet({q}) /\ Cardinality({q}) = 1
  BY FS_Singleton
<1>2. Cardinality({q} \cup {r}) = 2
  BY <1>1, FS_AddElement
<1>3. {q} \cup {r} \subseteq S
  OBVIOUS
<1>4. Cardinality({q} \cup {r}) <= Cardinality(S) /\ Cardinality(S) \in Nat
  BY <1>3, FS_Subset, FS_CardinalityType
<1> QED BY <1>2, <1>4

\* What a function adds up to over a set: the sum that the models use.
Total(g, S) == MapThenSumSet(LAMBDA x : g[x], S)

\* The element that the fold takes first.
Pick(s) == CHOOSE x \in s : TRUE

\* One step of the fold of g over the subsets in D.
Unfolded(g, D, h) == [s \in D |-> IF s = {} THEN 0 ELSE g[Pick(s)] + h[s \ {Pick(s)}]]
\* The fold itself, which is what CHOOSE finds.
Fold(g, D) == CHOOSE h : h = Unfolded(g, D, h)

\* The sum is a value of the fold.
LEMMA TotalIsFold == \A g, S : Total(g, S) = Fold(g, SUBSET S)[S]
BY DEF Total, Fold, Unfolded, Pick, MapThenSumSet, MapThenFoldSet

\* What is picked is an element.
LEMMA PickIsElement == \A s : s # {} => Pick(s) \in s
BY DEF Pick

\* The recursion has a solution.
LEMMA FoldIsSolved ==
    ASSUME NEW g, NEW S, IsFiniteSet(S)
    PROVE  Fold(g, SUBSET S) = Unfolded(g, SUBSET S, Fold(g, SUBSET S))
<1> DEFINE D(n) == {s \in SUBSET S : Cardinality(s) <= n}
           Solved(n) == \E h : h = Unfolded(g, D(n), h)
           bad == {n \in Nat : ~Solved(n)}
<1>1. Solved(0)
  <2>1. \A s \in D(0) : s = {}
    BY FS_Subset, FS_EmptySet, FS_CardinalityType
  <2>2. Unfolded(g, D(0), [s \in D(0) |-> 0]) = [s \in D(0) |-> 0]
    BY <2>1 DEF Unfolded
  <2> QED BY <2>2
<1>2. ASSUME NEW n \in Nat, Solved(n) PROVE Solved(n + 1)
  <2>1. PICK h : h = Unfolded(g, D(n), h)
    BY <1>2
  <2> DEFINE k == Unfolded(g, D(n + 1), h)
  <2>2. ASSUME NEW s \in D(n + 1), s # {}
        PROVE  s \ {Pick(s)} \in D(n) /\ s \ {Pick(s)} \in D(n + 1)
    <3>1. IsFiniteSet(s) /\ Pick(s) \in s
      BY <2>2, FS_Subset, PickIsElement
    <3>2. Cardinality(s \ {Pick(s)}) = Cardinality(s) - 1 /\ Cardinality(s) \in Nat
      BY <3>1, FS_RemoveElement, FS_CardinalityType
    <3> QED BY <3>2
  <2>3. ASSUME NEW s \in D(n + 1), s # {} PROVE k[s \ {Pick(s)}] = h[s \ {Pick(s)}]
    <3> DEFINE t == s \ {Pick(s)}
    <3>1. t \in D(n) /\ t \in D(n + 1)
      BY <2>2, <2>3
    <3>2. h[t] = IF t = {} THEN 0 ELSE g[Pick(t)] + h[t \ {Pick(t)}]
      BY <2>1, <3>1 DEF Unfolded
    <3> SUFFICES k[t] = h[t]
      OBVIOUS
    <3> HIDE DEF t, D
    <3> QED BY <3>1, <3>2 DEF Unfolded
  <2>4. k = Unfolded(g, D(n + 1), k)
    <3> HIDE DEF D
    <3>1. \A s \in D(n + 1) : (IF s = {} THEN 0 ELSE g[Pick(s)] + h[s \ {Pick(s)}])
                              = (IF s = {} THEN 0 ELSE g[Pick(s)] + k[s \ {Pick(s)}])
      BY <2>3
    <3> HIDE DEF k
    <3>2. k = Unfolded(g, D(n + 1), h)
      BY DEF k
    <3> QED BY <3>1, <3>2 DEF Unfolded
  <2> QED BY <2>4
<1>3. \A n \in Nat : Solved(n)
  <2> SUFFICES ASSUME bad # {} PROVE FALSE
    OBVIOUS
  <2> HIDE DEF Solved
  <2>1. PICK m \in bad : \A n \in bad : m <= n
    BY LeastNatural
  <2>2. m # 0
    BY <1>1, <2>1
  <2>3. Solved(m - 1) /\ m - 1 \in Nat
    BY <2>1, <2>2
  <2> QED BY <1>2, <2>1, <2>3
<1>4. Cardinality(S) \in Nat /\ D(Cardinality(S)) = SUBSET S
  BY FS_Subset, FS_CardinalityType
<1>5. \E h : h = Unfolded(g, SUBSET S, h)
  BY <1>3, <1>4
<1> QED BY <1>5 DEF Fold

\* Two folds agree where the functions agree.
LEMMA FoldsAgree ==
    ASSUME NEW f, NEW g, NEW S, NEW T, IsFiniteSet(S), IsFiniteSet(T),
           NEW U \in SUBSET (S \cap T), \A x \in U : f[x] = g[x]
    PROVE  Fold(f, SUBSET S)[U] = Fold(g, SUBSET T)[U]
<1> DEFINE F == Fold(f, SUBSET S)
           G == Fold(g, SUBSET T)
           Wrong == {V \in SUBSET U : F[V] # G[V]}
           bad == {Cardinality(V) : V \in Wrong}
<1>1. /\ \A V \in SUBSET S : F[V] = IF V = {} THEN 0 ELSE f[Pick(V)] + F[V \ {Pick(V)}]
      /\ \A V \in SUBSET T : G[V] = IF V = {} THEN 0 ELSE g[Pick(V)] + G[V \ {Pick(V)}]
  <2>1. F = Unfolded(f, SUBSET S, F) /\ G = Unfolded(g, SUBSET T, G)
    BY FoldIsSolved
  <2> HIDE DEF F, G
  <2> QED BY <2>1 DEF Unfolded
<1> HIDE DEF F, G
<1>2. IsFiniteSet(U)
  BY FS_Subset
<1> SUFFICES ASSUME Wrong # {} PROVE FALSE
  BY DEF F, G
<1>3. bad \in SUBSET Nat /\ bad # {}
  BY <1>2, FS_Subset, FS_CardinalityType
<1>4. PICK m \in bad : \A n \in bad : m <= n
  BY <1>3, LeastNatural
<1>5. PICK V \in Wrong : m = Cardinality(V)
  BY <1>4
<1>6. V # {}
  BY <1>1, <1>5
<1>7. Pick(V) \in V
  BY <1>6, PickIsElement
<1>8. Cardinality(V \ {Pick(V)}) = Cardinality(V) - 1 /\ Cardinality(V) \in Nat
  BY <1>2, <1>7, FS_Subset, FS_RemoveElement, FS_CardinalityType
<1>9. V \ {Pick(V)} \notin Wrong
  BY <1>4, <1>5, <1>8
<1> QED BY <1>1, <1>5, <1>6, <1>7, <1>9

\* A sum says nothing about elements that are not in its set.
LEMMA TotalsAgree ==
    ASSUME NEW f, NEW g, NEW S, IsFiniteSet(S), \A x \in S : f[x] = g[x]
    PROVE  Total(f, S) = Total(g, S)
<1>1. S \in SUBSET (S \cap S)
  OBVIOUS
<1>2. Fold(f, SUBSET S)[S] = Fold(g, SUBSET S)[S]
  BY <1>1, FoldsAgree
<1> QED BY <1>2, TotalIsFold

\* Nothing adds up to nothing.
LEMMA TotalOfNone == \A g : Total(g, {}) = 0
<1> SUFFICES ASSUME NEW g PROVE Total(g, {}) = 0
  OBVIOUS
<1>1. Fold(g, SUBSET {}) = Unfolded(g, SUBSET {}, Fold(g, SUBSET {}))
  BY FoldIsSolved, FS_EmptySet
<1> QED BY <1>1, TotalIsFold DEF Unfolded

\* The sum as the fold unfolds it.
LEMMA TotalOfPicked ==
    ASSUME NEW g, NEW S, IsFiniteSet(S), S # {}
    PROVE  Total(g, S) = g[Pick(S)] + Total(g, S \ {Pick(S)})
<1>1. Fold(g, SUBSET S)[S] = g[Pick(S)] + Fold(g, SUBSET S)[S \ {Pick(S)}]
  <2> DEFINE F == Fold(g, SUBSET S)
  <2>1. F = Unfolded(g, SUBSET S, F)
    BY FoldIsSolved
  <2> HIDE DEF F
  <2>2. F[S] = g[Pick(S)] + F[S \ {Pick(S)}]
    BY <2>1 DEF Unfolded
  <2> QED BY <2>2 DEF F
<1>2. IsFiniteSet(S \ {Pick(S)})
  BY FS_Subset
<1>3. Fold(g, SUBSET S)[S \ {Pick(S)}] = Fold(g, SUBSET (S \ {Pick(S)}))[S \ {Pick(S)}]
  <2> DEFINE T == S \ {Pick(S)}
  <2>1. T \in SUBSET (S \cap T) /\ \A x \in T : g[x] = g[x]
    OBVIOUS
  <2>2. IsFiniteSet(T)
    BY <1>2
  <2> HIDE DEF T
  <2>3. Fold(g, SUBSET S)[T] = Fold(g, SUBSET T)[T]
    BY <2>1, <2>2, FoldsAgree
  <2> QED BY <2>3 DEF T
<1> QED BY <1>1, <1>3, TotalIsFold

\* A total is a number, and counts each element once, whichever is taken first.
LEMMA TotalSplits ==
    ASSUME NEW g, NEW S, IsFiniteSet(S), \A x \in S : g[x] \in Int
    PROVE  /\ Total(g, S) \in Int
           /\ \A x \in S : Total(g, S) = g[x] + Total(g, S \ {x})
<1> DEFINE Good(U) == /\ Total(g, U) \in Int
                      /\ \A x \in U : Total(g, U) = g[x] + Total(g, U \ {x})
           Wrong == {U \in SUBSET S : ~Good(U)}
           bad == {Cardinality(U) : U \in Wrong}
<1> SUFFICES ASSUME Wrong # {} PROVE FALSE
  OBVIOUS
<1> HIDE DEF Good
<1>1. bad \in SUBSET Nat /\ bad # {}
  BY FS_Subset, FS_CardinalityType
<1>2. PICK m \in bad : \A n \in bad : m <= n
  BY <1>1, LeastNatural
<1>3. PICK U \in Wrong : m = Cardinality(U)
  BY <1>2
<1>4. IsFiniteSet(U) /\ Cardinality(U) \in Nat
  BY FS_Subset, FS_CardinalityType
<1>5. ASSUME NEW V \in SUBSET U, V # U PROVE Good(V)
  <2>1. IsFiniteSet(V) /\ Cardinality(V) < Cardinality(U)
    BY <1>4, <1>5, FS_Subset, FS_CardinalityType
  <2>2. Cardinality(V) \in Nat /\ Cardinality(V) \notin bad
    BY <1>1, <1>2, <1>3, <2>1, FS_CardinalityType
  <2> QED BY <2>2
<1>6. CASE U = {}
  BY <1>3, <1>6, TotalOfNone DEF Good
<1>7. CASE U # {}
  <2> DEFINE p == Pick(U)
  <2>1. p \in U /\ Total(g, U) = g[p] + Total(g, U \ {p})
    BY <1>4, <1>7, PickIsElement, TotalOfPicked
  <2> HIDE DEF p
  <2>2. Good(U \ {p})
    BY <2>1, <1>5
  <2>3. ASSUME NEW x \in U PROVE Total(g, U) = g[x] + Total(g, U \ {x})
    <3>1. CASE x = p
      BY <2>1, <3>1
    <3>2. CASE x # p
      <4>1. Good(U \ {x}) /\ Good(U \ {p})
        BY <1>5, <2>1
      <4>2. Total(g, U \ {p}) = g[x] + Total(g, (U \ {p}) \ {x})
        BY <4>1, <3>2 DEF Good
      <4>3. Total(g, U \ {x}) = g[p] + Total(g, (U \ {x}) \ {p})
        BY <4>1, <3>2, <2>1 DEF Good
      <4>4. (U \ {x}) \ {p} = (U \ {p}) \ {x}
        OBVIOUS
      <4>5. Good((U \ {p}) \ {x})
        BY <1>5, <2>1
      <4>6. g[x] \in Int /\ g[p] \in Int /\ Total(g, (U \ {p}) \ {x}) \in Int
        BY <4>5, <2>1 DEF Good
      <4>7. Total(g, U) = g[p] + (g[x] + Total(g, (U \ {p}) \ {x}))
        BY <2>1, <4>2
      <4>8. Total(g, U \ {x}) = g[p] + Total(g, (U \ {p}) \ {x})
        BY <4>3, <4>4
      <4> QED BY <4>6, <4>7, <4>8
    <3> QED BY <3>1, <3>2
  <2>4. Total(g, U) \in Int
    BY <2>1, <2>2 DEF Good
  <2> QED BY <1>3, <2>3, <2>4 DEF Good
<1> QED BY <1>6, <1>7

\* What two sets that have nothing in common add up to.
LEMMA TotalOfUnion ==
    ASSUME NEW g, NEW S, NEW T, IsFiniteSet(S), IsFiniteSet(T), S \cap T = {},
           \A x \in S \cup T : g[x] \in Int
    PROVE  Total(g, S \cup T) = Total(g, S) + Total(g, T)
<1> DEFINE Good(U) == Total(g, S \cup U) = Total(g, S) + Total(g, U)
           Wrong == {U \in SUBSET T : ~Good(U)}
           bad == {Cardinality(U) : U \in Wrong}
<1> SUFFICES ASSUME Wrong # {} PROVE FALSE
  OBVIOUS
<1> HIDE DEF Good
<1>1. bad \in SUBSET Nat /\ bad # {}
  BY FS_Subset, FS_CardinalityType
<1>2. PICK m \in bad : \A n \in bad : m <= n
  BY <1>1, LeastNatural
<1>3. PICK U \in Wrong : m = Cardinality(U)
  BY <1>2
<1>4. IsFiniteSet(U) /\ Cardinality(U) \in Nat /\ Total(g, S) \in Int
  BY FS_Subset, FS_CardinalityType, TotalSplits
<1>5. U # {}
  <2> SUFFICES ASSUME U = {} PROVE FALSE
    OBVIOUS
  <2>1. S \cup U = S
    OBVIOUS
  <2> QED BY <1>3, <1>4, <2>1, TotalOfNone DEF Good
<1>6. PICK x \in U : TRUE
  BY <1>5
<1>7. Cardinality(U \ {x}) = Cardinality(U) - 1
  BY <1>4, FS_RemoveElement
<1>8. Good(U \ {x})
  <2>1. ASSUME Cardinality(U \ {x}) \in bad PROVE FALSE
    <3> HIDE DEF bad, Wrong
    <3>1. m <= Cardinality(U \ {x})
      BY <1>2, <2>1
    <3> QED BY <1>3, <1>4, <1>7, <3>1
  <2>2. U \ {x} \in SUBSET T
    OBVIOUS
  <2> QED BY <2>1, <2>2
<1>9. IsFiniteSet(S \cup U) /\ \A y \in S \cup U : g[y] \in Int
  BY <1>4, FS_Union
<1>10. Total(g, S \cup U) = g[x] + Total(g, (S \cup U) \ {x}) /\ g[x] \in Int
  BY <1>9, TotalSplits
<1>11. (S \cup U) \ {x} = S \cup (U \ {x})
  OBVIOUS
<1>12. Total(g, U) = g[x] + Total(g, U \ {x})
  BY <1>4, <1>9, TotalSplits
<1>13. Total(g, U \ {x}) \in Int
  <2>1. IsFiniteSet(U \ {x}) /\ \A y \in U \ {x} : g[y] \in Int
    BY <1>4, <1>9, FS_Subset
  <2> QED BY <2>1, TotalSplits
<1>14. Total(g, S \cup U) = Total(g, S) + Total(g, U)
  BY <1>4, <1>8, <1>10, <1>11, <1>12, <1>13 DEF Good
<1> QED BY <1>3, <1>14 DEF Good

\* One more at an element is one more in every sum over it.
LEMMA OneMore ==
    ASSUME NEW h, NEW k, NEW S, IsFiniteSet(S), NEW p \in S,
           \A x \in S : h[x] \in Int,
           k[p] = h[p] + 1,
           \A x \in S \ {p} : k[x] = h[x]
    PROVE  Total(k, S) = Total(h, S) + 1
<1>1. \A x \in S : k[x] \in Int
  OBVIOUS
<1>2. Total(k, S) = k[p] + Total(k, S \ {p})
  BY <1>1, TotalSplits
<1>3. Total(h, S) = h[p] + Total(h, S \ {p})
  BY TotalSplits
<1>4. IsFiniteSet(S \ {p}) /\ \A x \in S \ {p} : h[x] \in Int
  BY FS_Subset
<1>5. Total(h, S \ {p}) \in Int
  BY <1>4, TotalSplits
<1>6. Total(k, S \ {p}) = Total(h, S \ {p})
  BY <1>4, TotalsAgree
<1> QED BY <1>2, <1>3, <1>5, <1>6

\* The sum over one element.
LEMMA TotalOfOne == ASSUME NEW h, NEW e, h[e] \in Int PROVE Total(h, {e}) = h[e]
<1>1. IsFiniteSet({e}) /\ {e} \ {e} = {}
  BY FS_Singleton
<1>2. Total(h, {e}) = h[e] + Total(h, {e} \ {e})
  BY <1>1, TotalSplits
<1>3. Total(h, {e} \ {e}) = 0
  BY <1>1, TotalOfNone
<1> QED BY <1>2, <1>3

\* The sum over three parts.
LEMMA TotalOfThree ==
    ASSUME NEW h, NEW A, NEW B, NEW C, A \cap B = {}, (A \cup B) \cap C = {},
           IsFiniteSet(A), IsFiniteSet(B), IsFiniteSet(C),
           \A e \in (A \cup B) \cup C : h[e] \in Int
    PROVE  Total(h, (A \cup B) \cup C) = Total(h, A) + Total(h, B) + Total(h, C)
<1>1. Total(h, A \cup B) = Total(h, A) + Total(h, B)
  <2>1. \A e \in A \cup B : h[e] \in Int
    OBVIOUS
  <2> QED BY <2>1, TotalOfUnion
<1>2. Total(h, (A \cup B) \cup C) = Total(h, A \cup B) + Total(h, C)
  <2>1. IsFiniteSet(A \cup B)
    BY FS_Union
  <2> QED BY <2>1, TotalOfUnion
<1> QED BY <1>1, <1>2

\* What holds of no elements, and of a set when it holds of the set without one
\* of them, holds of every subset of a finite set.
LEMMA SubsetInduction ==
    ASSUME NEW S, IsFiniteSet(S), NEW P, {} \in P,
           \A U \in SUBSET S : (\E x \in U : U \ {x} \in P) => U \in P
    PROVE  SUBSET S \subseteq P
<1> DEFINE Wrong == {U \in SUBSET S : U \notin P}
           bad == {Cardinality(U) : U \in Wrong}
<1> SUFFICES ASSUME Wrong # {} PROVE FALSE
  OBVIOUS
<1>1. bad \in SUBSET Nat /\ bad # {}
  BY FS_Subset, FS_CardinalityType
<1>2. PICK m \in bad : \A n \in bad : m <= n
  BY <1>1, LeastNatural
<1>3. PICK U \in Wrong : m = Cardinality(U)
  BY <1>2
<1>4. IsFiniteSet(U) /\ Cardinality(U) \in Nat
  BY FS_Subset, FS_CardinalityType
<1>5. PICK x \in U : TRUE
  <2>1. U # {}
    BY <1>3
  <2> QED BY <2>1
<1>6. U \ {x} \notin P
  BY <1>5
<1>7. U \ {x} \in Wrong
  BY <1>6
<1>8. Cardinality(U \ {x}) \in bad
  BY <1>7
<1>9. m <= Cardinality(U \ {x})
  <2> HIDE DEF bad
  <2> QED BY <1>2, <1>8
<1>10. Cardinality(U \ {x}) = Cardinality(U) - 1
  BY <1>4, <1>5, FS_RemoveElement
<1> HIDE DEF bad, Wrong
<1> QED BY <1>3, <1>4, <1>9, <1>10

\* Natural numbers add up to a natural number.
LEMMA TotalIsNatural ==
    ASSUME NEW g, NEW S, IsFiniteSet(S), \A x \in S : g[x] \in Nat
    PROVE  Total(g, S) \in Nat
<1> DEFINE P == {U \in SUBSET S : Total(g, U) \in Nat}
<1>1. {} \in P
  BY TotalOfNone
<1>2. ASSUME NEW U \in SUBSET S, NEW x \in U, U \ {x} \in P PROVE U \in P
  <2>1. IsFiniteSet(U) /\ \A y \in U : g[y] \in Int
    BY FS_Subset
  <2>2. Total(g, U) = g[x] + Total(g, U \ {x})
    BY <2>1, TotalSplits
  <2> QED BY <1>2, <2>2
<1> HIDE DEF P
<1>3. S \in P
  BY <1>1, <1>2, SubsetInduction
<1> QED BY <1>3 DEF P

\* A factor that all values have in common.
LEMMA TotalOfMultiple ==
    ASSUME NEW f, NEW g, NEW S, IsFiniteSet(S), NEW c \in Int,
           \A x \in S : g[x] \in Int /\ f[x] = c * g[x]
    PROVE  Total(f, S) = c * Total(g, S)
<1> DEFINE P == {U \in SUBSET S : Total(f, U) = c * Total(g, U)}
<1>1. {} \in P
  BY TotalOfNone
<1>2. ASSUME NEW U \in SUBSET S, NEW x \in U, U \ {x} \in P PROVE U \in P
  <2>1. /\ IsFiniteSet(U) /\ IsFiniteSet(U \ {x})
        /\ \A y \in U : g[y] \in Int
        /\ \A y \in U : f[y] \in Int
    BY FS_Subset
  <2>2. /\ Total(f, U) = f[x] + Total(f, U \ {x})
        /\ Total(g, U) = g[x] + Total(g, U \ {x})
        /\ Total(g, U \ {x}) \in Int
    BY <2>1, TotalSplits
  <2>3. f[x] = c * g[x] /\ g[x] \in Int
    OBVIOUS
  <2>4. Total(f, U \ {x}) = c * Total(g, U \ {x})
    BY <1>2
  <2>5. \A a, b \in Int : c * a + c * b = c * (a + b)
    OBVIOUS
  <2> QED BY <2>2, <2>3, <2>4, <2>5
<1> HIDE DEF P
<1>3. S \in P
  BY <1>1, <1>2, SubsetInduction
<1> QED BY <1>3 DEF P

\* One value, as often as there are elements.
LEMMA TotalOfConstant ==
    ASSUME NEW g, NEW S, IsFiniteSet(S), NEW c \in Int, \A x \in S : g[x] = c
    PROVE  Total(g, S) = c * Cardinality(S)
<1> DEFINE P == {U \in SUBSET S : Total(g, U) = c * Cardinality(U)}
<1>1. {} \in P
  BY TotalOfNone, FS_EmptySet
<1>2. ASSUME NEW U \in SUBSET S, NEW x \in U, U \ {x} \in P PROVE U \in P
  <2>1. IsFiniteSet(U) /\ \A y \in U : g[y] \in Int
    BY FS_Subset
  <2>2. Total(g, U) = c + Total(g, U \ {x})
    BY <2>1, TotalSplits
  <2>3. Cardinality(U \ {x}) = Cardinality(U) - 1 /\ Cardinality(U) \in Nat
    BY <2>1, FS_RemoveElement, FS_CardinalityType
  <2>4. \A n \in Int : c + c * (n - 1) = c * n
    OBVIOUS
  <2> QED BY <1>2, <2>2, <2>3, <2>4
<1> HIDE DEF P
<1>3. S \in P
  BY <1>1, <1>2, SubsetInduction
<1> QED BY <1>3 DEF P

\* Nothing, however often, is nothing.
LEMMA TotalOfZeros ==
    ASSUME NEW g, NEW S, IsFiniteSet(S), \A x \in S : g[x] = 0
    PROVE  Total(g, S) = 0
<1>1. Total(g, S) = 0 * Cardinality(S) /\ Cardinality(S) \in Nat
  BY TotalOfConstant, FS_CardinalityType
<1> QED BY <1>1

\* Division of a multiple and a rest.
LEMMA QuotientOfMultiple ==
    ASSUME NEW q \in Nat, NEW d \in Nat, NEW r \in Nat, r < d
    PROVE  (q * d + r) \div d = q
<1> DEFINE x == q * d + r  y == x \div d
<1>1. x \in Nat
  OBVIOUS
<1>2. y \in Nat /\ y * d <= x /\ x < (y + 1) * d
  <2> HIDE DEF x
  <2>1. y \in Nat /\ x = y * d + (x % d) /\ x % d \in 0 .. (d - 1)
    BY <1>1
  <2>2. (y + 1) * d = y * d + d
    BY <2>1
  <2> HIDE DEF y
  <2> QED BY <2>1, <2>2
<1> HIDE DEF y
<1>3. (y + 1 - q) * d > 0 /\ (q + 1 - y) * d > 0
  <2>1. (y + 1 - q) * d = (y + 1) * d - q * d
    BY <1>2
  <2>2. (q + 1 - y) * d = q * d + d - y * d
    BY <1>2
  <2> QED BY <1>1, <1>2, <2>1, <2>2
<1>4. \A z \in Int : z * d > 0 => z > 0
  OBVIOUS
<1>5. y + 1 - q > 0 /\ q + 1 - y > 0
  BY <1>2, <1>3, <1>4
<1> QED BY <1>2, <1>5 DEF y

\* One element more.
LEMMA TotalWithOneMore ==
    ASSUME NEW f, NEW g, NEW S, IsFiniteSet(S), NEW p, p \notin S,
           \A x \in S : g[x] \in Int /\ f[x] = g[x], f[p] \in Int
    PROVE  Total(f, S \cup {p}) = Total(g, S) + f[p]
<1>1. IsFiniteSet(S \cup {p}) /\ \A x \in S \cup {p} : f[x] \in Int
  BY FS_AddElement
<1>2. (S \cup {p}) \ {p} = S /\ p \in S \cup {p}
  OBVIOUS
<1>3. Total(f, S \cup {p}) = f[p] + Total(f, (S \cup {p}) \ {p})
  BY <1>1, <1>2, TotalSplits
<1>4. Total(f, S) = Total(g, S) /\ Total(g, S) \in Int
  BY TotalsAgree, TotalSplits
<1>5. Total(f, S \cup {p}) = f[p] + Total(f, S)
  BY <1>2, <1>3
<1> QED BY <1>4, <1>5

\* h gives the sum of g over each class of the elements of S that c tells apart, and C
\* has every class.
InClasses(g, h, S, C, c) ==
    /\ IsFiniteSet(S) /\ IsFiniteSet(C) /\ c \in [S -> C]
    /\ \A x \in S : g[x] \in Int
    /\ \A k \in C :
          \E T \in SUBSET S : (\A x \in S : x \in T <=> c[x] = k) /\ h[k] = Total(g, T)

\* What adds up class by class adds up altogether.
LEMMA TotalOfClasses ==
    ASSUME NEW g, NEW h, NEW S, NEW C, NEW c, InClasses(g, h, S, C, c)
    PROVE  Total(h, C) = Total(g, S)
<1>a. /\ IsFiniteSet(S) /\ IsFiniteSet(C) /\ c \in [S -> C]
      /\ \A x \in S : g[x] \in Int
      /\ \A k \in C :
            \E T \in SUBSET S : (\A x \in S : x \in T <=> c[x] = k) /\ h[k] = Total(g, T)
  BY DEF InClasses
<1> USE <1>a
<1> DEFINE In(U) == {x \in S : c[x] \in U}
           P == {U \in SUBSET C : Total(h, U) = Total(g, In(U))}
<1>0. ASSUME NEW k \in C PROVE h[k] = Total(g, {x \in S : c[x] = k})
  <2>1. PICK T \in SUBSET S : (\A x \in S : x \in T <=> c[x] = k) /\ h[k] = Total(g, T)
    OBVIOUS
  <2>2. T = {x \in S : c[x] = k}
    BY <2>1
  <2> QED BY <2>1, <2>2
<1>1. {} \in P
  <2>1. In({}) = {}
    OBVIOUS
  <2> QED BY <2>1, TotalOfNone
<1>2. ASSUME NEW U \in SUBSET C, NEW k \in U, U \ {k} \in P PROVE U \in P
  <2> DEFINE A == In(U \ {k})  B == {x \in S : c[x] = k}
  <2>1. A \cap B = {} /\ A \cup B = In(U) /\ IsFiniteSet(A) /\ IsFiniteSet(B)
    BY FS_Subset
  <2>2. \A x \in A \cup B : g[x] \in Int
    OBVIOUS
  <2>3. \A x \in B : g[x] \in Int
    OBVIOUS
  <2>4. Total(h, U \ {k}) = Total(g, A)
    BY <1>2
  <2>5. h[k] = Total(g, B)
    BY <1>0
  <2> HIDE DEF A, B
  <2>6. Total(g, A \cup B) = Total(g, A) + Total(g, B)
    BY <2>1, <2>2, TotalOfUnion
  <2>7. IsFiniteSet(U)
    BY FS_Subset
  <2>8. \A j \in U : h[j] \in Int
    <3> SUFFICES ASSUME NEW j \in U PROVE h[j] \in Int
      OBVIOUS
    <3> DEFINE J == {x \in S : c[x] = j}
    <3>1. IsFiniteSet(J) /\ \A x \in J : g[x] \in Int
      BY FS_Subset
    <3>2. h[j] = Total(g, J)
      BY <1>0
    <3> HIDE DEF J
    <3> QED BY <3>1, <3>2, TotalSplits
  <2>9. Total(h, U) = h[k] + Total(h, U \ {k})
    BY <2>7, <2>8, TotalSplits
  <2>10. Total(g, A) \in Int /\ Total(g, B) \in Int
    BY <2>1, <2>2, <2>3, TotalSplits
  <2>11. Total(h, U) = Total(g, A \cup B)
    BY <2>4, <2>5, <2>6, <2>9, <2>10
  <2> QED BY <2>1, <2>11
<1>3. C \in P
  <2> HIDE DEF P
  <2> QED BY <1>1, <1>2, SubsetInduction
<1>4. In(C) = S
  OBVIOUS
<1> QED BY <1>3, <1>4

\* A finite set of numbers that is not empty has a largest one.
LEMMA LargestNumber ==
    ASSUME NEW S \in SUBSET Int, IsFiniteSet(S), S # {}
    PROVE  \E n \in S : \A m \in S : m <= n
<1> DEFINE P == {U \in SUBSET S : U # {} => \E n \in U : \A m \in U : m <= n}
<1>1. {} \in P
  OBVIOUS
<1>2. ASSUME NEW U \in SUBSET S, NEW x \in U, U \ {x} \in P PROVE U \in P
  <2>1. CASE U \ {x} = {}
    <3>1. \A m \in U : m <= x
      BY <2>1
    <3> QED BY <3>1
  <2>2. CASE U \ {x} # {}
    <3>1. PICK n \in U \ {x} : \A m \in U \ {x} : m <= n
      BY <1>2, <2>2
    <3>2. CASE x <= n
      BY <3>1, <3>2
    <3>3. CASE n <= x
      <4>1. \A m \in U : m <= x
        BY <3>1, <3>3
      <4> QED BY <4>1
    <3> QED BY <3>2, <3>3
  <2> QED BY <2>1, <2>2
<1> HIDE DEF P
<1>3. S \in P
  BY <1>1, <1>2, SubsetInduction
<1> QED BY <1>3 DEF P

\* f is g and h together, on the elements of a finite set.
AddedUp(f, g, h, S) ==
    /\ IsFiniteSet(S)
    /\ \A x \in S : g[x] \in Int /\ h[x] \in Int /\ f[x] = g[x] + h[x]

\* Two values added to each other, element by element.
LEMMA TotalOfPairs ==
    ASSUME NEW f, NEW g, NEW h, NEW S, AddedUp(f, g, h, S)
    PROVE  Total(f, S) = Total(g, S) + Total(h, S)
<1>0. /\ IsFiniteSet(S)
      /\ \A x \in S : g[x] \in Int /\ h[x] \in Int /\ f[x] = g[x] + h[x]
  BY DEF AddedUp
<1> DEFINE P == {U \in SUBSET S : Total(f, U) = Total(g, U) + Total(h, U)}
<1>1. {} \in P
  BY TotalOfNone
<1>2. ASSUME NEW U \in SUBSET S, NEW x \in U, U \ {x} \in P PROVE U \in P
  <2>1. IsFiniteSet(U) /\ IsFiniteSet(U \ {x})
    BY <1>0, FS_Subset
  <2>2. /\ Total(f, U) = f[x] + Total(f, U \ {x})
        /\ Total(g, U) = g[x] + Total(g, U \ {x})
        /\ Total(h, U) = h[x] + Total(h, U \ {x})
    BY <1>0, <2>1, TotalSplits
  <2>3. Total(g, U \ {x}) \in Int /\ Total(h, U \ {x}) \in Int
    BY <1>0, <2>1, TotalSplits
  <2> QED BY <1>0, <1>2, <2>2, <2>3
<1> HIDE DEF P
<1>3. S \in P
  BY <1>0, <1>1, <1>2, SubsetInduction
<1> QED BY <1>3 DEF P

\* What is never more adds up to no more.
LEMMA TotalsCompare ==
    ASSUME NEW f, NEW g, NEW S, IsFiniteSet(S),
           \A x \in S : f[x] \in Int /\ g[x] \in Int /\ f[x] <= g[x]
    PROVE  Total(f, S) <= Total(g, S)
<1>h. PICK h : h = [x \in S |-> g[x] - f[x]]
  OBVIOUS
<1>1. \A x \in S : h[x] \in Nat /\ g[x] = f[x] + h[x]
  BY <1>h
<1>2. Total(g, S) = Total(f, S) + Total(h, S)
  <2>1. AddedUp(g, f, h, S)
    BY <1>1 DEF AddedUp
  <2> QED BY <2>1, TotalOfPairs
<1>3. Total(h, S) \in Nat
  BY <1>1, TotalIsNatural
<1>4. Total(f, S) \in Int
  BY TotalSplits
<1> QED BY <1>2, <1>3, <1>4

\* What holds of no numbers, and of a number and those before it when it holds of those
\* before it, holds of all numbers of a finite set.
LEMMA OrderedInduction ==
    ASSUME NEW S \in SUBSET Int, IsFiniteSet(S), NEW P, {} \in P,
           \A x \in S : {y \in S : y < x} \in P => {y \in S : y < x} \cup {x} \in P
    PROVE  S \in P
<1> DEFINE Prefix(U) == \A x \in U : \A y \in S : y < x => y \in U
           Wrong == {U \in SUBSET S : Prefix(U) /\ U \notin P}
           bad == {Cardinality(U) : U \in Wrong}
<1> SUFFICES ASSUME Wrong # {} PROVE FALSE
  <2>1. S \notin Wrong => S \in P
    OBVIOUS
  <2> QED BY <2>1
<1> HIDE DEF Prefix
<1>1. bad \in SUBSET Nat /\ bad # {}
  <2>1. \A U \in Wrong : Cardinality(U) \in Nat
    BY FS_Subset, FS_CardinalityType
  <2>2. PICK U \in Wrong : TRUE
    OBVIOUS
  <2>3. Cardinality(U) \in bad
    BY <2>2
  <2> QED BY <2>1, <2>3
<1>2. PICK m \in bad : \A n \in bad : m <= n
  BY <1>1, LeastNatural
<1>3. PICK U \in Wrong : m = Cardinality(U)
  BY <1>2
<1>4. IsFiniteSet(U) /\ U # {} /\ U \in SUBSET Int
  BY <1>3, FS_Subset
<1>5. PICK x \in U : \A y \in U : y <= x
  BY <1>4, LargestNumber
<1>6. PICK V : V = {y \in S : y < x}
  OBVIOUS
<1>7. V = U \ {x}
  BY <1>3, <1>5, <1>6 DEF Prefix
<1>8. Prefix(V)
  BY <1>5, <1>6 DEF Prefix
<1>9. V \in P
  <2> SUFFICES ASSUME V \notin P PROVE FALSE
    OBVIOUS
  <2>1. V \in Wrong
    BY <1>6, <1>8
  <2>2. Cardinality(V) \in bad
    BY <2>1
  <2>3. m <= Cardinality(V)
    <3> HIDE DEF bad
    <3> QED BY <1>2, <2>2
  <2>4. Cardinality(V) = Cardinality(U) - 1 /\ Cardinality(U) \in Nat
    BY <1>4, <1>7, FS_RemoveElement, FS_CardinalityType
  <2> HIDE DEF bad, Wrong
  <2> QED BY <1>3, <2>3, <2>4
<1>10. V \cup {x} = U
  BY <1>7
<1>11. U \in P
  BY <1>3, <1>5, <1>6, <1>9, <1>10
<1> QED BY <1>3, <1>11

\* Places of a line are counted by numbers up to its length.
LEMMA PlacesAreCounted ==
    ASSUME NEW n \in Nat, NEW S \in SUBSET (1 .. n)
    PROVE  /\ IsFiniteSet(S) /\ Cardinality(S) \in Nat /\ Cardinality(S) <= n
           /\ Cardinality(S) = 0 <=> S = {}
           /\ Cardinality(1 .. n) = n
           /\ \A T \in SUBSET S : Cardinality(T) \in Nat /\ Cardinality(T) <= Cardinality(S)
<1>1. IsFiniteSet(1 .. n) /\ Cardinality(1 .. n) = n
  <2>1. 1 \in Int /\ n \in Int
    OBVIOUS
  <2>2. IsFiniteSet(1 .. n) /\ Cardinality(1 .. n) = IF 1 > n THEN 0 ELSE n - 1 + 1
    BY <2>1, FS_Interval
  <2> QED BY <2>2
<1>2. IsFiniteSet(S) /\ Cardinality(S) <= n
  BY <1>1, FS_Subset
<1>3. Cardinality(S) \in Nat
  BY <1>2, FS_CardinalityType
<1>4. Cardinality(S) = 0 <=> S = {}
  BY <1>2, FS_EmptySet
<1>5. ASSUME NEW T \in SUBSET S
      PROVE  Cardinality(T) \in Nat /\ Cardinality(T) <= Cardinality(S)
  <2>1. IsFiniteSet(T) /\ Cardinality(T) <= Cardinality(S)
    BY <1>2, FS_Subset
  <2> QED BY <2>1, FS_CardinalityType
<1> QED BY <1>1, <1>2, <1>3, <1>4, <1>5

\* What division leaves.
IsQuotient(x, y, q) == q = x \div y
FitsAsQuotient(x, y, q) == q \in Int /\ y * q <= x /\ x < y * q + y

LEMMA Quotients ==
    \A x \in Int : \A y \in Nat \ {0} : \A q : IsQuotient(x, y, q) => FitsAsQuotient(x, y, q)
<1>1. \A x \in Int : \A y \in Nat \ {0} :
        x \div y \in Int /\ y * (x \div y) <= x /\ x < y * (x \div y) + y
  OBVIOUS
<1> QED BY <1>1 DEF IsQuotient, FitsAsQuotient

\* A part of a whole is at most all of it, in tenths of a percent; nothing is none of it.
LEMMA RoundedShares ==
    \A part \in Int : \A whole \in Nat \ {0} : \A q :
        q = (2000 * part + whole) \div (2 * whole) =>
            /\ q \in Int
            /\ part <= whole => q <= 1000
            /\ part >= 0 => q >= 0
            /\ part = 0 => q = 0
            /\ part = whole => q = 1000
<1> SUFFICES ASSUME NEW part \in Int, NEW whole \in Nat \ {0}, NEW q,
                    q = (2000 * part + whole) \div (2 * whole)
             PROVE  /\ q \in Int
                    /\ part <= whole => q <= 1000
                    /\ part >= 0 => q >= 0
                    /\ part = 0 => q = 0
                    /\ part = whole => q = 1000
  OBVIOUS
<1>1. 2000 * part + whole \in Int /\ 2 * whole \in Nat \ {0}
  OBVIOUS
<1>2. q \in Int /\ (2 * whole) * q <= 2000 * part + whole
      /\ 2000 * part + whole < (2 * whole) * q + 2 * whole
  <2> PICK x : x = 2000 * part + whole
    OBVIOUS
  <2> PICK y : y = 2 * whole
    OBVIOUS
  <2>1. x \in Int /\ y \in Nat \ {0} /\ IsQuotient(x, y, q)
    BY DEF IsQuotient
  <2>2. FitsAsQuotient(x, y, q)
    BY <2>1, Quotients
  <2>3. q \in Int /\ y * q <= x /\ x < y * q + y
    BY <2>2 DEF FitsAsQuotient
  <2> QED BY <2>3
<1> PICK z : z = whole * q
  OBVIOUS
<1>3. \A x \in Nat : \A y \in Int : (2 * x) * y = 2 * (x * y) /\ x * y \in Int
  OBVIOUS
<1>4. z \in Int /\ 2 * z <= 2000 * part + whole /\ 2000 * part + whole < 2 * z + 2 * whole
  BY <1>2, <1>3
<1>5. \A x \in Nat \ {0} : \A y \in Int :
        /\ y >= 1001 => x * y >= 1001 * x
        /\ y <= -1 => x * y <= -x
        /\ y >= 1 => x * y >= x
        /\ y <= 999 => x * y <= 999 * x
  OBVIOUS
<1>6. /\ q >= 1001 => z >= 1001 * whole
      /\ q <= -1 => z <= -whole
      /\ q >= 1 => z >= whole
      /\ q <= 999 => z <= 999 * whole
  BY <1>2, <1>5
<1>7. part <= whole => q <= 1000
  BY <1>2, <1>4, <1>6
<1>8. part >= 0 => q >= 0
  BY <1>2, <1>4, <1>6
<1>9. part = 0 => q = 0
  BY <1>2, <1>4, <1>6
<1>10. part = whole => q = 1000
  BY <1>2, <1>4, <1>6
<1> QED BY <1>2, <1>7, <1>8, <1>9, <1>10
-----------------------------------------------------------------------------
(* Recursion over the places of a sequence: that there is such a function, *)
(* and what holds of all its values.                                       *)

\* What holds of 0 and of the next one holds of all.
LEMMA CountingUp ==
    ASSUME NEW n \in Nat, NEW P, 0 \in P, \A i \in 0..(n - 1) : i \in P => i + 1 \in P
    PROVE  \A i \in 0..n : i \in P
<1> DEFINE bad == {i \in 0..n : i \notin P}
<1> SUFFICES ASSUME bad # {} PROVE FALSE
  OBVIOUS
<1>1. PICK m \in bad : \A i \in bad : m <= i
  <2>1. bad \in SUBSET Nat
    OBVIOUS
  <2> QED BY <2>1, LeastNatural
<1>2. m # 0 /\ m - 1 \in 0..(n - 1)
  OBVIOUS
<1>3. m - 1 \in P
  BY <1>1, <1>2
<1>4. (m - 1) + 1 \in P
  BY <1>2, <1>3
<1> QED BY <1>4

\* A function that is given at 0, and at each place by its value at the one before.
IsIteration(h, n, base, step) ==
    h = [i \in 0..n |-> IF i = 0 THEN base ELSE step[i][h[i - 1]]]

LEMMA Iterates ==
    ASSUME NEW n \in Nat, NEW V, NEW base \in V, NEW step \in [1..n -> [V -> V]]
    PROVE  \E h \in [0..n -> V] : IsIteration(h, n, base, step)
<1> DEFINE Solves(h, m) == h = [i \in 0..m |-> IF i = 0 THEN base ELSE step[i][h[i - 1]]]
           P == {m \in 0..n : \E h \in [0..m -> V] : Solves(h, m)}
<1>1. 0 \in P
  <2> DEFINE h == [i \in 0..0 |-> base]
             k == [i \in 0..0 |-> IF i = 0 THEN base ELSE step[i][h[i - 1]]]
  <2>1. h \in [0..0 -> V] /\ \A i \in 0..0 : h[i] = k[i]
    OBVIOUS
  <2>2. h = k
    OBVIOUS
  <2>3. Solves(h, 0)
    BY <2>2
  <2> HIDE DEF h, Solves
  <2> QED BY <2>1, <2>3
<1>2. ASSUME NEW m \in 0..(n - 1), m \in P PROVE m + 1 \in P
  <2>1. PICK h \in [0..m -> V] : Solves(h, m)
    BY <1>2
  <2> DEFINE g == [i \in 0..(m + 1) |-> IF i = m + 1 THEN step[m + 1][h[m]] ELSE h[i]]
  <2>2. g \in [0..(m + 1) -> V]
    OBVIOUS
  <2>3. \A i \in 0..(m + 1) : g[i] = IF i = 0 THEN base ELSE step[i][g[i - 1]]
    <3> SUFFICES ASSUME NEW i \in 0..(m + 1)
                 PROVE  g[i] = IF i = 0 THEN base ELSE step[i][g[i - 1]]
      OBVIOUS
    <3>1. CASE i = m + 1
      BY <3>1
    <3>2. CASE i # m + 1
      <4>1. i \in 0..m /\ g[i] = h[i] /\ (i # 0 => i - 1 \in 0..m /\ g[i - 1] = h[i - 1])
        BY <3>2
      <4>2. h[i] = IF i = 0 THEN base ELSE step[i][h[i - 1]]
        BY <2>1, <4>1
      <4> QED BY <4>1, <4>2
    <3> QED BY <3>1, <3>2
  <2>4. Solves(g, m + 1)
    <3> DEFINE k == [i \in 0..(m + 1) |-> IF i = 0 THEN base ELSE step[i][g[i - 1]]]
    <3>1. k = [i \in 0..(m + 1) |-> k[i]] /\ g = [i \in 0..(m + 1) |-> g[i]]
      OBVIOUS
    <3>2. \A i \in 0..(m + 1) : g[i] = k[i]
      BY <2>3
    <3> QED BY <3>1, <3>2
  <2>5. m + 1 \in 0..n
    OBVIOUS
  <2> QED BY <2>2, <2>4, <2>5
<1>3. \A i \in 0..n : i \in P
  <2> HIDE DEF P
  <2> QED BY <1>1, <1>2, CountingUp
<1> QED BY <1>3 DEF IsIteration

\* Of the places up to i, the last is i.
LEMMA LastPlace ==
    \A m \in Nat : \A s \in SUBSET (1..(m + 1)) : m + 1 \in s => Max(s) = m + 1
<1> SUFFICES ASSUME NEW m \in Nat, NEW s \in SUBSET (1..(m + 1)), m + 1 \in s
             PROVE  Max(s) = m + 1
  OBVIOUS
<1>1. \A y \in s : y \in Int /\ y <= m + 1
  OBVIOUS
<1>2. Max(s) \in s /\ \A y \in s : Max(s) >= y
  <2>1. m + 1 \in s /\ \A y \in s : m + 1 >= y
    BY <1>1
  <2> QED BY <2>1 DEF Max
<1>3. Max(s) >= m + 1 /\ Max(s) <= m + 1 /\ Max(s) \in Int
  BY <1>1, <1>2
<1> QED BY <1>3

\* The places up to the next one are the places up to here, and the next one.
LEMMA LastOfPlaces ==
    \A m \in Nat : Max(1..(m + 1)) = m + 1 /\ (1..(m + 1)) \ {m + 1} = 1..m /\ 1..(m + 1) # {}
<1> SUFFICES ASSUME NEW m \in Nat
             PROVE  Max(1..(m + 1)) = m + 1 /\ (1..(m + 1)) \ {m + 1} = 1..m /\ 1..(m + 1) # {}
  OBVIOUS
<1>1. m + 1 \in 1..(m + 1) /\ 1..(m + 1) \in SUBSET (1..(m + 1))
  OBVIOUS
<1>2. Max(1..(m + 1)) = m + 1
  BY <1>1, LastPlace
<1>3. \A i : i \in (1..(m + 1)) \ {m + 1} <=> i \in 1..m
  OBVIOUS
<1>4. (1..(m + 1)) \ {m + 1} = 1..m
  BY <1>3, Zenon
<1>5. 1..(m + 1) # {}
  BY <1>1
<1> QED BY <1>2, <1>4, <1>5

\* The largest of some places is one of them.
LEMMA LargestPlace ==
    ASSUME NEW n \in Nat, NEW s \in SUBSET (1..n), s # {}
    PROVE  Max(s) \in s /\ \A y \in s : y <= Max(s)
<1>1. IsFiniteSet(s) /\ s \in SUBSET Int
  BY PlacesAreCounted
<1>2. PICK m \in s : \A y \in s : y <= m
  BY <1>1, LargestNumber
<1> QED BY <1>2 DEF Max

\* The function that FoldLeft goes through: over sets of places, the last one first.
IsFolding(h, n, base, step) ==
    h = [s \in SUBSET (1..n) |-> IF s = {} THEN base ELSE step[Max(s)][h[s \ {Max(s)}]]]

LEMMA FoldsPlaces ==
    ASSUME NEW n \in Nat, NEW V, NEW base \in V, NEW step \in [1..n -> [V -> V]]
    PROVE  \E h \in [SUBSET (1..n) -> V] : IsFolding(h, n, base, step)
<1> DEFINE Eq(h, s) == h[s] = IF s = {} THEN base ELSE step[Max(s)][h[s \ {Max(s)}]]
           Solves(h, m) == \A s \in SUBSET (1..m) : Eq(h, s)
           P == {m \in 0..n : \E h \in [SUBSET (1..m) -> V] : Solves(h, m)}
<1>1. 0 \in P
  <2> DEFINE h == [s \in SUBSET (1..0) |-> base]
  <2>1. h \in [SUBSET (1..0) -> V] /\ \A s \in SUBSET (1..0) : s = {}
    OBVIOUS
  <2>2. Solves(h, 0)
    BY <2>1
  <2> HIDE DEF h, Solves
  <2>3. 0 \in 0..n
    OBVIOUS
  <2> QED BY <2>1, <2>2, <2>3
<1>2. ASSUME NEW m \in 0..(n - 1), m \in P PROVE m + 1 \in P
  <2>1. PICK h \in [SUBSET (1..m) -> V] : Solves(h, m)
    BY <1>2
  <2> DEFINE D == SUBSET (1..(m + 1))
             g == [s \in D |-> IF m + 1 \in s THEN step[m + 1][h[s \ {m + 1}]] ELSE h[s]]
  <2>2. \A s \in D : /\ m + 1 \in s => s \ {m + 1} \in SUBSET (1..m)
                     /\ m + 1 \notin s => s \in SUBSET (1..m)
    OBVIOUS
  <2>3. g \in [D -> V]
    <3>1. step[m + 1] \in [V -> V]
      OBVIOUS
    <3> QED BY <2>2, <3>1
  <2>4. ASSUME NEW s \in D PROVE Eq(g, s)
    <3>1. CASE m + 1 \in s
      <4>1. Max(s) = m + 1 /\ s # {}
        BY <3>1, LastPlace
      <4>2. s \ {m + 1} \in D /\ g[s \ {m + 1}] = h[s \ {m + 1}]
        OBVIOUS
      <4>3. g[s] = step[m + 1][h[s \ {m + 1}]]
        BY <3>1
      <4> HIDE DEF g, D
      <4> QED BY <4>1, <4>2, <4>3
    <3>2. CASE m + 1 \notin s
      <4>1. s \in SUBSET (1..m) /\ g[s] = h[s]
        BY <3>2, <2>2
      <4>2. Eq(h, s)
        BY <2>1, <4>1
      <4>3. s \ {Max(s)} \in SUBSET (1..m) /\ m + 1 \notin s \ {Max(s)}
        BY <3>2, <4>1
      <4>4. g[s \ {Max(s)}] = h[s \ {Max(s)}]
        <5> PICK u : u = s \ {Max(s)}
          OBVIOUS
        <5>1. u \in D /\ m + 1 \notin u
          BY <4>3
        <5>2. g[u] = h[u]
          BY <5>1
        <5> QED BY <5>2
      <4> HIDE DEF g, D
      <4> QED BY <4>1, <4>2, <4>4
    <3> QED BY <3>1, <3>2
  <2>5. Solves(g, m + 1)
    <3> HIDE DEF g, Eq
    <3> QED BY <2>4
  <2>6. m + 1 \in 0..n
    OBVIOUS
  <2>7. g \in [SUBSET (1..(m + 1)) -> V]
    <3> HIDE DEF g
    <3> QED BY <2>3
  <2> HIDE DEF g, D, Solves
  <2> QED BY <2>5, <2>6, <2>7
<1>3. n \in P
  <2> HIDE DEF P
  <2>1. \A i \in 0..n : i \in P
    BY <1>1, <1>2, CountingUp
  <2> QED BY <2>1
<1>4. PICK h \in [SUBSET (1..n) -> V] : Solves(h, n)
  BY <1>3
<1> DEFINE k == [s \in SUBSET (1..n) |-> IF s = {} THEN base ELSE step[Max(s)][h[s \ {Max(s)}]]]
<1>5. k = [s \in SUBSET (1..n) |-> k[s]] /\ h = [s \in SUBSET (1..n) |-> h[s]]
  OBVIOUS
<1>6. \A s \in SUBSET (1..n) : h[s] = k[s]
  BY <1>4
<1>7. h = k
  BY <1>5, <1>6
<1> QED BY <1>7 DEF IsFolding
===============================================================================
