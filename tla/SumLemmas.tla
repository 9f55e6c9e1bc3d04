----------------------------- MODULE SumLemmas -----------------------------
(***************************************************************************)
(* What the sum of a function over a finite set is: SumFunctionOnSet of    *)
(* the community modules, which adds the values up in an order that CHOOSE *)
(* leaves open.  That order does not matter, and a sum follows every       *)
(* change of its set and of its function by what the change adds.          *)
(*                                                                         *)
(* The induction goes over the subsets of a finite set, ordered strictly   *)
(* by inclusion: a set of subsets that is not empty has a smallest one     *)
(* (WFMin), which is stated without operators as parameters.               *)
(***************************************************************************)
EXTENDS Integers, Functions, FiniteSetTheorems, TLAPS

\* Among the subsets of a finite set that go wrong, if any, is one of which no part does.
LEMMA SmallestSubset ==
    ASSUME NEW S, IsFiniteSet(S), NEW Bad, Bad \subseteq SUBSET S, Bad # {}
    PROVE  \E T \in Bad : IsFiniteSet(T) /\ \A x \in T : T \ {x} \notin Bad
<1>1. FiniteSubsetsOf(S) = SUBSET S
    BY FS_FiniteSubsetsOfFinite
<1>2. IsWellFoundedOn(StrictSubsetOrdering(S), FiniteSubsetsOf(S))
    BY FS_StrictSubsetOrderingWellFounded
<1>3. PICK T \in Bad : \A U \in Bad : <<U, T>> \notin StrictSubsetOrdering(S)
    BY <1>1, <1>2, WFMin
<1>4. IsFiniteSet(T)
    BY <1>1 DEF FiniteSubsetsOf
<1>5. ASSUME NEW x \in T, T \ {x} \in Bad
      PROVE  FALSE
  <2>1. <<T \ {x}, T>> \in StrictSubsetOrdering(S)
      BY <1>5 DEF StrictSubsetOrdering
  <2> QED
      BY <1>3, <1>5, <2>1
<1> QED
    BY <1>4, <1>5

\* A set of numbers that has 0, and with every number the next one, has them all.
LEMMA AllNumbers ==
    ASSUME NEW G, 0 \in G, \A n \in Nat : n \in G => n + 1 \in G
    PROVE  Nat \subseteq G
<1> DEFINE Bad == Nat \ G
<1> SUFFICES ASSUME Bad # {} PROVE FALSE
    OBVIOUS
<1>1. PICK n \in Bad : \A m \in Bad : <<m, n>> \notin OpToRel(<, Nat)
    BY NatLessThanWellFounded, WFMin
<1>2. n \in Nat \ {0} /\ n - 1 \in Nat
    OBVIOUS
<1>3. <<n - 1, n>> \in OpToRel(<, Nat)
    BY <1>2 DEF OpToRel
<1>4. n - 1 \in G
    BY <1>1, <1>2, <1>3
<1>5. (n - 1) + 1 = n
    BY <1>2
<1> QED
    BY <1>2, <1>4, <1>5

-----------------------------------------------------------------------------
FirstOf(s) == CHOOSE x \in s : TRUE
SumStep(fun, g, s) == IF s = {} THEN 0 ELSE fun[FirstOf(s)] + g[s \ {FirstOf(s)}]
Sums(fun, g, D) == g = [s \in D |-> SumStep(fun, g, s)]
SumsOf(fun, S) == CHOOSE g : Sums(fun, g, SUBSET S)

LEMMA SumUnfolds ==
    ASSUME NEW fun, NEW S
    PROVE  SumFunctionOnSet(fun, S) = SumsOf(fun, S)[S]
BY DEF SumFunctionOnSet, FoldFunctionOnSet, MapThenFoldSet, SumsOf, Sums, SumStep, FirstOf

LEMMA FirstIsMember ==
    ASSUME NEW s, s # {}
    PROVE  FirstOf(s) \in s
BY DEF FirstOf

\* The sums of all subsets exist, those of smaller sets first.
LEMMA SumsExist ==
    ASSUME NEW fun, NEW S, IsFiniteSet(S)
    PROVE  Sums(fun, SumsOf(fun, S), SUBSET S)
<1> DEFINE Upto(n) == {s \in SUBSET S : Cardinality(s) <= n}
           G == {n \in Nat : \E g : Sums(fun, g, Upto(n))}
<1>1. \A s \in SUBSET S : IsFiniteSet(s) /\ Cardinality(s) \in Nat
    BY FS_Subset, FS_CardinalityType
<1>2. 0 \in G
  <2>1. \A s \in Upto(0) : s = {}
      BY <1>1, FS_EmptySet
  <2>2. Sums(fun, [s \in Upto(0) |-> 0], Upto(0))
      BY <2>1 DEF Sums, SumStep
  <2> QED
      BY <2>2
<1>3. ASSUME NEW n \in Nat, n \in G
      PROVE  n + 1 \in G
  <2>1. PICK g : Sums(fun, g, Upto(n))
      BY <1>3
  <2> DEFINE h == [s \in Upto(n + 1) |-> SumStep(fun, g, s)]
  <2>2. ASSUME NEW s \in Upto(n + 1)
        PROVE  h[s] = SumStep(fun, h, s)
    <3>1. CASE s = {}
        BY <3>1 DEF SumStep
    <3>2. CASE s # {}
      <4> DEFINE r == s \ {FirstOf(s)}
      <4>1. Cardinality(r) = Cardinality(s) - 1 /\ IsFiniteSet(r)
          BY <1>1, <3>2, FirstIsMember, FS_RemoveElement
      <4>2. r \in Upto(n) /\ r \in Upto(n + 1)
          BY <1>1, <4>1
      <4>3. g[r] = SumStep(fun, g, r)
          BY <2>1, <4>2 DEF Sums
      <4>4. h[r] = g[r]
          BY <4>2, <4>3
      <4>5. h[s] = fun[FirstOf(s)] + g[r]
          BY <3>2 DEF SumStep
      <4>6. SumStep(fun, h, s) = fun[FirstOf(s)] + h[r]
          BY <3>2 DEF SumStep
      <4> QED
          BY <4>4, <4>5, <4>6
    <3> QED
        BY <3>1, <3>2
  <2>3. h = [s \in Upto(n + 1) |-> SumStep(fun, h, s)]
      BY <2>2
  <2>4. Sums(fun, h, Upto(n + 1))
      BY <2>3 DEF Sums
  <2> HIDE DEF h
  <2>5. \E k : Sums(fun, k, Upto(n + 1))
      BY <2>4
  <2>6. n + 1 \in Nat
      OBVIOUS
  <2> QED
      BY <2>5, <2>6
<1> HIDE DEF G
<1>4. Nat \subseteq G
    BY <1>2, <1>3, AllNumbers
<1>5. Cardinality(S) \in Nat
    BY FS_CardinalityType
<1>6. Upto(Cardinality(S)) = SUBSET S
    BY FS_Subset
<1>7. \E g : Sums(fun, g, SUBSET S)
    BY <1>4, <1>5, <1>6 DEF G
<1> QED
    BY <1>7 DEF SumsOf

\* They do not depend on the set whose subsets they are the sums of.
LEMMA SumsAgree ==
    ASSUME NEW fun, NEW S, IsFiniteSet(S), NEW T \in SUBSET S
    PROVE  SumsOf(fun, S)[T] = SumFunctionOnSet(fun, T)
<1> DEFINE g == SumsOf(fun, S)
           h == SumsOf(fun, T)
           Bad == {s \in SUBSET T : g[s] # h[s]}
<1>1. IsFiniteSet(T)
    BY FS_Subset
<1>2. Sums(fun, g, SUBSET S) /\ Sums(fun, h, SUBSET T)
    BY <1>1, SumsExist
<1> HIDE DEF g, h
<1>3. \A s \in SUBSET T : g[s] = SumStep(fun, g, s) /\ h[s] = SumStep(fun, h, s)
    BY <1>2 DEF Sums
<1>4. ASSUME NEW s \in Bad, \A x \in s : s \ {x} \notin Bad
      PROVE  FALSE
  <2>1. s # {}
      BY <1>3 DEF SumStep
  <2>2. g[s \ {FirstOf(s)}] = h[s \ {FirstOf(s)}]
      BY <1>4, <2>1, FirstIsMember
  <2> QED
      BY <1>3, <2>1, <2>2 DEF SumStep
<1>5. Bad = {}
    BY <1>1, <1>4, SmallestSubset
<1> QED
    BY <1>5, SumUnfolds DEF g, h

\* The sum of nothing, and a sum as the value it starts with and the sum of the rest.
LEMMA SumStarts ==
    ASSUME NEW fun, NEW S, IsFiniteSet(S)
    PROVE  /\ S = {} => SumFunctionOnSet(fun, S) = 0
           /\ S # {} => SumFunctionOnSet(fun, S) = fun[FirstOf(S)] + SumFunctionOnSet(fun, S \ {FirstOf(S)})
<1> DEFINE g == SumsOf(fun, S)
<1>0. Sums(fun, g, SUBSET S)
    BY SumsExist
<1> HIDE DEF g
<1>5. \A s \in SUBSET S : g[s] = SumStep(fun, g, s)
    BY <1>0 DEF Sums
<1>1b. S \in SUBSET S
    OBVIOUS
<1>1. SumsOf(fun, S)[S] = SumStep(fun, SumsOf(fun, S), S)
    BY <1>5, <1>1b DEF g
<1>2. S \ {FirstOf(S)} \in SUBSET S
    OBVIOUS
<1>3. SumsOf(fun, S)[S \ {FirstOf(S)}] = SumFunctionOnSet(fun, S \ {FirstOf(S)})
    BY <1>2, SumsAgree
<1> QED
    BY <1>1, <1>3, SumUnfolds DEF SumStep

\* A sum of integers is one, and one of naturals is a natural.
LEMMA SumIsNumber ==
    ASSUME NEW fun, NEW S, IsFiniteSet(S), \A x \in S : fun[x] \in Int
    PROVE  /\ SumFunctionOnSet(fun, S) \in Int
           /\ (\A x \in S : fun[x] >= 0) => SumFunctionOnSet(fun, S) >= 0
<1> DEFINE Sum(s) == SumFunctionOnSet(fun, s)
           Good(s) == Sum(s) \in Int /\ ((\A x \in S : fun[x] >= 0) => Sum(s) >= 0)
           Bad == {s \in SUBSET S : ~Good(s)}
<1>1. ASSUME NEW s \in Bad, IsFiniteSet(s), \A x \in s : s \ {x} \notin Bad
      PROVE  FALSE
  <2>0. s = {} => Sum(s) = 0
      BY <1>1, SumStarts
  <2>1. s # {}
      BY <2>0
  <2>2. FirstOf(s) \in s
      BY <2>1, FirstIsMember
  <2>3. Sum(s) = fun[FirstOf(s)] + Sum(s \ {FirstOf(s)})
      BY <1>1, <2>1, SumStarts
  <2>4. Good(s \ {FirstOf(s)})
      BY <1>1, <2>2
  <2> HIDE DEF Sum
  <2> QED
      BY <1>1, <2>2, <2>3, <2>4
<1>2. Bad = {}
    BY <1>1, SmallestSubset
<1> QED
    BY <1>2

\* A sum is the value at any of its elements and the sum of the rest: the order is immaterial.
LEMMA SumOfTheRest ==
    ASSUME NEW fun, NEW S, IsFiniteSet(S), \A x \in S : fun[x] \in Int, NEW x \in S
    PROVE  SumFunctionOnSet(fun, S) = fun[x] + SumFunctionOnSet(fun, S \ {x})
<1> DEFINE Sum(s) == SumFunctionOnSet(fun, s)
           Bad == {s \in SUBSET S : \E y \in s : Sum(s) # fun[y] + Sum(s \ {y})}
<1>1. ASSUME NEW s \in Bad, IsFiniteSet(s), \A y \in s : s \ {y} \notin Bad
      PROVE  FALSE
  <2>1. PICK y \in s : Sum(s) # fun[y] + Sum(s \ {y})
      OBVIOUS
  <2> DEFINE p == FirstOf(s)
             r == s \ {p, y}
  <2>2. p \in s
      BY FirstIsMember
  <2>3. Sum(s) = fun[p] + Sum(s \ {p})
      BY <1>1, SumStarts
  <2>4. p # y
      BY <2>1, <2>3
  <2>5. (s \ {p}) \ {y} = r /\ (s \ {y}) \ {p} = r
      OBVIOUS
  <2> HIDE DEF Sum, p, r
  <2>6a. \A x1 \in s : \A z \in s \ {x1} : Sum(s \ {x1}) = fun[z] + Sum((s \ {x1}) \ {z})
      BY <1>1
  <2>6. Sum(s \ {p}) = fun[y] + Sum(r)
      BY <2>6a, <2>1, <2>2, <2>4, <2>5
  <2>7. Sum(s \ {y}) = fun[p] + Sum(r)
      BY <2>6a, <2>1, <2>2, <2>4, <2>5
  <2>8. IsFiniteSet(r) /\ r \subseteq S
      BY <1>1, FS_Subset DEF r
  <2>9. Sum(r) \in Int
      BY <2>8, SumIsNumber DEF Sum
  <2>10. fun[p] \in Int /\ fun[y] \in Int
      BY <2>2
  <2> QED
      BY <2>1, <2>3, <2>6, <2>7, <2>9, <2>10
<1>2. Bad = {}
    BY <1>1, SmallestSubset
<1> QED
    BY <1>2

\* Functions that agree on a set have the same sum over it.
LEMMA SumOfEquals ==
    ASSUME NEW fun, NEW gun, NEW S, IsFiniteSet(S), \A x \in S : fun[x] = gun[x]
    PROVE  SumFunctionOnSet(fun, S) = SumFunctionOnSet(gun, S)
<1> DEFINE Bad == {s \in SUBSET S : SumFunctionOnSet(fun, s) # SumFunctionOnSet(gun, s)}
<1>1. ASSUME NEW s \in Bad, IsFiniteSet(s), \A y \in s : s \ {y} \notin Bad
      PROVE  FALSE
  <2>1. s # {}
      BY <1>1, SumStarts
  <2>2. FirstOf(s) \in s
      BY <2>1, FirstIsMember
  <2>3. SumFunctionOnSet(fun, s \ {FirstOf(s)}) = SumFunctionOnSet(gun, s \ {FirstOf(s)})
      BY <1>1, <2>2
  <2>4. /\ SumFunctionOnSet(fun, s) = fun[FirstOf(s)] + SumFunctionOnSet(fun, s \ {FirstOf(s)})
        /\ SumFunctionOnSet(gun, s) = gun[FirstOf(s)] + SumFunctionOnSet(gun, s \ {FirstOf(s)})
      BY <1>1, <2>1, SumStarts
  <2> QED
      BY <2>2, <2>3, <2>4
<1>2. Bad = {}
    BY <1>1, SmallestSubset
<1> QED
    BY <1>2

\* The sums of a set and of the set with one more element.
LEMMA SumWithOneMore ==
    ASSUME NEW fun, NEW S, IsFiniteSet(S), NEW x, x \notin S, \A y \in S \cup {x} : fun[y] \in Int
    PROVE  SumFunctionOnSet(fun, S \cup {x}) = SumFunctionOnSet(fun, S) + fun[x]
<1>1. IsFiniteSet(S \cup {x}) /\ (S \cup {x}) \ {x} = S
    BY FS_AddElement
<1>2. SumFunctionOnSet(fun, S \cup {x}) = fun[x] + SumFunctionOnSet(fun, S)
    BY <1>1, SumOfTheRest
<1>3. SumFunctionOnSet(fun, S) \in Int /\ fun[x] \in Int
    BY SumIsNumber
<1> QED
    BY <1>2, <1>3

\* A set that gains or loses one element, whose value may change as well.
LEMMA SumChanges ==
    ASSUME NEW fun, NEW gun, NEW S, NEW T, NEW x, IsFiniteSet(S), S \ {x} = T \ {x},
           \A y \in S : fun[y] \in Int, \A y \in T : gun[y] \in Int, \A y \in S \ {x} : fun[y] = gun[y]
    PROVE  SumFunctionOnSet(gun, T) = SumFunctionOnSet(fun, S) + (IF x \in T THEN gun[x] ELSE 0)
                                                               - (IF x \in S THEN fun[x] ELSE 0)
<1> DEFINE U == S \ {x}
           f == SumFunctionOnSet(fun, U)
           g == SumFunctionOnSet(gun, U)
<1>1. IsFiniteSet(U) /\ IsFiniteSet(U \cup {x})
    BY FS_Subset, FS_AddElement
<1>2. IsFiniteSet(T)
    BY <1>1, FS_Subset
<1>3. f = g
    BY <1>1, SumOfEquals
<1>4. f \in Int
    BY <1>1, SumIsNumber
<1>5. SumFunctionOnSet(fun, S) = IF x \in S THEN fun[x] + f ELSE f
  <2>1. x \in S => SumFunctionOnSet(fun, S) = fun[x] + f
      BY SumOfTheRest
  <2>2. x \notin S => U = S
      OBVIOUS
  <2> QED
      BY <2>1, <2>2
<1>6. SumFunctionOnSet(gun, T) = IF x \in T THEN gun[x] + g ELSE g
  <2>1. U = T \ {x}
      OBVIOUS
  <2>2. x \in T => SumFunctionOnSet(gun, T) = gun[x] + g
      BY <1>2, <2>1, SumOfTheRest
  <2>3. x \notin T => U = T
      BY <2>1
  <2> QED
      BY <2>2, <2>3
<1>7. (x \in S => fun[x] \in Int) /\ (x \in T => gun[x] \in Int)
    OBVIOUS
<1> HIDE DEF f, g
<1> QED
    BY <1>3, <1>4, <1>5, <1>6, <1>7

LEMMA SumOfTwo ==
    ASSUME NEW fun, NEW x, NEW y, x # y, fun[x] \in Int, fun[y] \in Int
    PROVE  SumFunctionOnSet(fun, {x, y}) = fun[x] + fun[y]
<1>1. IsFiniteSet({y}) /\ IsFiniteSet({y} \cup {x})
    BY FS_Singleton, FS_AddElement
<1>5. {y} \cup {x} = {x, y} /\ {x, y} \ {x} = {y} /\ {y} \ {y} = {}
    OBVIOUS
<1>2. SumFunctionOnSet(fun, {x, y}) = fun[x] + SumFunctionOnSet(fun, {y})
    BY <1>1, <1>5, SumOfTheRest
<1>3. SumFunctionOnSet(fun, {y}) = fun[y] + SumFunctionOnSet(fun, {})
    BY <1>1, <1>5, SumOfTheRest
<1>4. SumFunctionOnSet(fun, {}) = 0
    BY FS_EmptySet, SumStarts
<1> QED
    BY <1>2, <1>3, <1>4
=============================================================================
