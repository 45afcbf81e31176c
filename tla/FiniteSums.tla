----------------------------- MODULE FiniteSums -----------------------------
(***************************************************************************)
(* What a sum over a finite set is (SumFunctionOnSet of module Functions), *)
(* for the programs that add up counts.  The induction principles of the   *)
(* library take an operator; here they are stated of a set instead: a set  *)
(* of numbers, or of subsets, that is closed under a step.                 *)
(***************************************************************************)
EXTENDS Integers, Functions, FiniteSetTheorems, WellFoundedInduction, TLAPS

-----------------------------------------------------------------------------
\* Induction.

\* A set of numbers that has 0 and the successor of each of its elements has all.
LEMMA NumbersByInduction ==
  ASSUME NEW T, 0 \in T, \A n \in Nat : n \in T => n + 1 \in T
  PROVE  Nat \subseteq T
<1> DEFINE rest == Nat \ T
<1> SUFFICES ASSUME rest # {} PROVE FALSE
  OBVIOUS
<1>1. PICK n \in rest : \A m \in rest : ~(<<m, n>> \in OpToRel(<, Nat))
  BY WFMin, NatLessThanWellFounded
<1>2. \A m \in rest : ~(m < n)
  BY <1>1 DEF OpToRel
<1>3. n \in Nat /\ n # 0
  OBVIOUS
<1>4. n - 1 \in Nat /\ n - 1 < n
  BY <1>3
<1>5. n - 1 \in T
  BY <1>2, <1>4
<1> QED
  BY <1>4, <1>5

\* A set of subsets of a finite set that has each subset whose smaller ones it
\* has, has the finite set itself.
LEMMA SubsetsByInduction ==
  ASSUME NEW S, IsFiniteSet(S), NEW Good,
         \A s \in SUBSET S : (\A t \in SUBSET s : t # s => t \in Good) => s \in Good
  PROVE  SUBSET S \subseteq Good
<1> DEFINE rest == (SUBSET S) \ Good
<1> SUFFICES ASSUME rest # {} PROVE FALSE
  OBVIOUS
<1>1. rest \subseteq FiniteSubsetsOf(S)
  BY FS_Subset DEF FiniteSubsetsOf
<1>2. PICK s \in rest : \A t \in rest : ~(<<t, s>> \in StrictSubsetOrdering(S))
  <2>1. IsWellFoundedOn(StrictSubsetOrdering(S), FiniteSubsetsOf(S))
    BY FS_StrictSubsetOrderingWellFounded
  <2> HIDE DEF rest
  <2> QED
    BY <1>1, <2>1, WFMin
<1>3. \A t \in SUBSET s : t # s => t \in Good
  BY <1>2 DEF StrictSubsetOrdering
<1> QED
  BY <1>3

-----------------------------------------------------------------------------
\* Sums.

\* The recursion a sum is defined by, for the values f and the subsets of S.
SumStep(f, S, g) ==
    [s \in SUBSET S |-> IF s = {} THEN 0
                        ELSE LET x == CHOOSE x \in s : TRUE IN f[x] + g[s \ {x}]]

\* A sum is the value of a function that satisfies the recursion, if there is one.
LEMMA SumDefinition ==
  ASSUME NEW f, NEW S
  PROVE  SumFunctionOnSet(f, S) = (CHOOSE g : g = SumStep(f, S, g))[S]
  BY DEF SumFunctionOnSet, FoldFunctionOnSet, MapThenFoldSet, SumStep

\* For a finite set there is.
LEMMA SumExists ==
  ASSUME NEW f, NEW S, IsFiniteSet(S)
  PROVE  \E g : g = SumStep(f, S, g)
<1> DEFINE upto(n, g) == \A s \in SUBSET S : Cardinality(s) <= n => g[s] = SumStep(f, S, g)[s]
           reached == {n \in Nat : \E g : upto(n, g)}
<1>1. \A s \in SUBSET S : IsFiniteSet(s) /\ Cardinality(s) \in Nat
  BY FS_Subset, FS_CardinalityType
<1>2. 0 \in reached
  <2> DEFINE g == [s \in SUBSET S |-> 0]
  <2>1. ASSUME NEW s \in SUBSET S, Cardinality(s) <= 0 PROVE g[s] = SumStep(f, S, g)[s]
    <3>1. s = {}
      BY <1>1, <2>1, FS_EmptySet
    <3> QED
      BY <3>1 DEF SumStep
  <2> QED
    BY <2>1
<1>3. ASSUME NEW n \in Nat, n \in reached PROVE n + 1 \in reached
  <2>1. PICK g : upto(n, g)
    BY <1>3
  <2> DEFINE h == SumStep(f, S, g)
  <2>2. ASSUME NEW s \in SUBSET S, Cardinality(s) <= n + 1
        PROVE  h[s] = SumStep(f, S, h)[s]
    <3>1. CASE s = {}
      BY <3>1 DEF SumStep
    <3>2. CASE s # {}
      <4> DEFINE x == CHOOSE x \in s : TRUE
      <4>1. x \in s /\ s \ {x} \in SUBSET S
        BY <3>2
      <4>2. Cardinality(s \ {x}) <= n
        <5>1. Cardinality(s \ {x}) = Cardinality(s) - 1
          BY <1>1, <4>1, FS_RemoveElement
        <5> QED
          BY <1>1, <2>2, <5>1
      <4>3. h[s \ {x}] = g[s \ {x}]
        BY <2>1, <4>1, <4>2
      <4>4. SumStep(f, S, h)[s] = f[x] + h[s \ {x}] /\ h[s] = f[x] + g[s \ {x}]
        BY <3>2 DEF SumStep
      <4> QED
        BY <4>3, <4>4
    <3> QED
      BY <3>1, <3>2
  <2> QED
    BY <2>2
<1> HIDE DEF reached
<1>4. Nat \subseteq reached
  BY <1>2, <1>3, NumbersByInduction
<1>5. Cardinality(S) \in reached
  BY <1>4, FS_CardinalityType
<1>6. PICK g : upto(Cardinality(S), g)
  BY <1>5 DEF reached
<1> DEFINE h == SumStep(f, S, g)
<1>7. \A s \in SUBSET S : h[s] = g[s]
  BY <1>6, FS_Subset
<1>8. SumStep(f, S, h) = h
  <2>1. \A s \in SUBSET S : s # {} => s \ {CHOOSE x \in s : TRUE} \in SUBSET S
    OBVIOUS
  <2>2. \A s \in SUBSET S : s # {} =>
          h[s \ {CHOOSE x \in s : TRUE}] = g[s \ {CHOOSE x \in s : TRUE}]
    BY <1>7, <2>1
  <2> HIDE DEF h
  <2>3. SumStep(f, S, h) = SumStep(f, S, g)
    BY <2>2 DEF SumStep
  <2> QED
    BY <2>3 DEF h
<1> QED
  BY <1>8

\* g adds up the values f of the subsets of S, each element by element, in an
\* order that nobody chooses.
OneOf(s) == CHOOSE x \in s : TRUE
AddsUp(g, f, S) == /\ g[{}] = 0
                   /\ \A s \in SUBSET S : s # {} => g[s] = f[OneOf(s)] + g[s \ {OneOf(s)}]

\* A sum is taken apart element by element, all sums over one set in one order.
LEMMA SumUnfolds ==
  ASSUME NEW f, NEW S, IsFiniteSet(S)
  PROVE  \E g : SumFunctionOnSet(f, S) = g[S] /\ AddsUp(g, f, S)
<1> DEFINE g == CHOOSE g : g = SumStep(f, S, g)
<1>1. g = SumStep(f, S, g)
  BY SumExists
<1>2. SumFunctionOnSet(f, S) = g[S]
  BY SumDefinition
<1> HIDE DEF g
<1>3. g[{}] = 0
  BY <1>1 DEF SumStep
<1>4. ASSUME NEW s \in SUBSET S, s # {} PROVE g[s] = f[OneOf(s)] + g[s \ {OneOf(s)}]
  BY <1>1, <1>4 DEF SumStep, OneOf
<1> QED
  BY <1>2, <1>3, <1>4 DEF AddsUp

\* A sum of numbers is a number, and of numbers up to b at most b for each.
THEOREM SumBound ==
  ASSUME NEW S, IsFiniteSet(S), NEW f, \A x \in S : f[x] \in Nat
  PROVE  /\ SumFunctionOnSet(f, S) \in Nat
         /\ \A b \in Nat : (\A x \in S : f[x] <= b)
                              => SumFunctionOnSet(f, S) <= b * Cardinality(S)
<1>1. PICK g : SumFunctionOnSet(f, S) = g[S] /\ AddsUp(g, f, S)
  BY SumUnfolds
<1>2. \A s \in SUBSET S : IsFiniteSet(s) /\ Cardinality(s) \in Nat
  BY FS_Subset, FS_CardinalityType
<1> SUFFICES ASSUME NEW b \in Nat
             PROVE  /\ g[S] \in Nat
                    /\ (\A x \in S : f[x] <= b) => g[S] <= b * Cardinality(S)
  BY <1>1
<1> DEFINE Good == {s \in SUBSET S : /\ g[s] \in Nat
                                     /\ (\A x \in S : f[x] <= b) => g[s] <= b * Cardinality(s)}
<1>3. ASSUME NEW s \in SUBSET S, \A t \in SUBSET s : t # s => t \in Good
      PROVE  s \in Good
  <2>1. CASE s = {}
    BY <1>1, <2>1, FS_EmptySet DEF AddsUp
  <2>2. CASE s # {}
    <3>1. PICK x \in s : g[s] = f[x] + g[s \ {x}]
      BY <1>1, <2>2 DEF AddsUp, OneOf
    <3>2. s \ {x} \in Good
      BY <1>3, <3>1
    <3>3. Cardinality(s \ {x}) = Cardinality(s) - 1 /\ Cardinality(s) \in Nat
      BY <1>2, FS_RemoveElement
    <3>4. b * Cardinality(s) = b + b * (Cardinality(s) - 1)
      BY <3>3
    <3>5. b * (Cardinality(s) - 1) \in Int
      BY <3>3
    <3> QED
      BY <3>1, <3>2, <3>3, <3>4, <3>5
  <2> QED
    BY <2>1, <2>2
<1> HIDE DEF Good
<1>4. S \in Good
  BY <1>3, SubsetsByInduction
<1> QED
  BY <1>4 DEF Good

\* A sum of numbers that are not larger is not larger.
THEOREM SumMonotone ==
  ASSUME NEW S, IsFiniteSet(S), NEW f, NEW h, \A x \in S : f[x] \in Nat /\ h[x] \in Nat /\ f[x] <= h[x]
  PROVE  SumFunctionOnSet(f, S) <= SumFunctionOnSet(h, S)
<1>1. PICK g : SumFunctionOnSet(f, S) = g[S] /\ AddsUp(g, f, S)
  BY SumUnfolds
<1>2. PICK k : SumFunctionOnSet(h, S) = k[S] /\ AddsUp(k, h, S)
  BY SumUnfolds
<1> DEFINE Good == {s \in SUBSET S : g[s] \in Nat /\ k[s] \in Nat /\ g[s] <= k[s]}
<1>3. ASSUME NEW s \in SUBSET S, \A t \in SUBSET s : t # s => t \in Good
      PROVE  s \in Good
  <2>1. CASE s = {}
    BY <1>1, <1>2, <2>1 DEF AddsUp
  <2>2. CASE s # {}
    <3>1. OneOf(s) \in s
      BY <2>2 DEF OneOf
    <3>2. s \ {OneOf(s)} \in Good
      BY <1>3, <3>1
    <3>3. /\ g[s] = f[OneOf(s)] + g[s \ {OneOf(s)}]
          /\ k[s] = h[OneOf(s)] + k[s \ {OneOf(s)}]
      BY <1>1, <1>2, <2>2 DEF AddsUp
    <3> QED
      BY <3>1, <3>2, <3>3
  <2> QED
    BY <2>1, <2>2
<1> HIDE DEF Good
<1>4. S \in Good
  BY <1>3, SubsetsByInduction
<1> QED
  BY <1>1, <1>2, <1>4 DEF Good

\* What the sets A hold together.
Together(A, S) == UNION {A[x] : x \in S}

\* The sizes of finite sets that have nothing in common add up to the size of
\* what they hold together.
THEOREM SumOfSizes ==
  ASSUME NEW S, IsFiniteSet(S), NEW A, NEW f,
         \A x \in S : IsFiniteSet(A[x]) /\ f[x] = Cardinality(A[x]),
         \A x, y \in S : x # y => A[x] \cap A[y] = {}
  PROVE  /\ IsFiniteSet(Together(A, S))
         /\ SumFunctionOnSet(f, S) = Cardinality(Together(A, S))
<1> DEFINE all(s) == Together(A, s)
<1>1. PICK g : SumFunctionOnSet(f, S) = g[S] /\ AddsUp(g, f, S)
  BY SumUnfolds
<1> DEFINE Good == {s \in SUBSET S : IsFiniteSet(all(s)) /\ g[s] = Cardinality(all(s))}
<1>2. ASSUME NEW s \in SUBSET S, \A t \in SUBSET s : t # s => t \in Good
      PROVE  s \in Good
  <2>1. CASE s = {}
    <3>1. all(s) = {}
      BY <2>1 DEF Together
    <3> HIDE DEF all
    <3> QED
      BY <1>1, <2>1, <3>1, FS_EmptySet DEF AddsUp
  <2>2. CASE s # {}
    <3>1. PICK x \in s : g[s] = f[x] + g[s \ {x}]
      BY <1>1, <2>2 DEF AddsUp, OneOf
    <3>2. IsFiniteSet(all(s \ {x})) /\ g[s \ {x}] = Cardinality(all(s \ {x}))
      BY <1>2, <3>1
    <3>3. all(s) = A[x] \cup all(s \ {x}) /\ A[x] \cap all(s \ {x}) = {}
      <4>1. \A y \in s \ {x} : A[x] \cap A[y] = {}
        OBVIOUS
      <4> QED
        BY <4>1 DEF Together
    <3> HIDE DEF all
    <3>4. IsFiniteSet(A[x]) /\ f[x] = Cardinality(A[x])
      OBVIOUS
    <3>5. /\ IsFiniteSet(all(s))
          /\ Cardinality(all(s)) = Cardinality(A[x]) + Cardinality(all(s \ {x}))
                                   - Cardinality({})
      <4> DEFINE rest == all(s \ {x})
      <4>1. IsFiniteSet(A[x] \cup rest) /\ Cardinality(A[x] \cup rest)
               = Cardinality(A[x]) + Cardinality(rest) - Cardinality(A[x] \cap rest)
        BY <3>2, <3>4, FS_Union
      <4> QED
        BY <3>3, <4>1
    <3>6. Cardinality(A[x]) \in Nat /\ Cardinality(all(s \ {x})) \in Nat /\ Cardinality({}) = 0
      BY <3>2, <3>4, FS_CardinalityType, FS_EmptySet
    <3> QED
      BY <3>1, <3>2, <3>4, <3>5, <3>6
  <2> QED
    BY <2>1, <2>2
<1> HIDE DEF Good
<1>3. S \in Good
  BY <1>2, SubsetsByInduction
<1> QED
  BY <1>1, <1>3 DEF Good
=============================================================================
