-------------------------- MODULE CrapScore_proofs --------------------------
(***************************************************************************)
(* Proofs about CrapScore, for every source tree: a tree that passes holds *)
(* its walls, and one whose methods get no worse goes on passing.          *)
(***************************************************************************)
EXTENDS CrapScore, FiniteSums

LEMMA ProductsGrow ==
    ASSUME NEW a \in Nat, NEW b \in Nat, NEW c \in Nat, NEW d \in Nat, a <= b, c <= d
    PROVE  a * c <= b * d
<1>1. a * c <= b * c  OBVIOUS
<1>2. b * c <= b * d  OBVIOUS
<1>3. a * c \in Nat /\ b * c \in Nat /\ b * d \in Nat  OBVIOUS
<1> QED  BY <1>1, <1>2, <1>3

LEMMA ProductIsNat == ASSUME NEW a \in Nat, NEW b \in Nat PROVE a * b \in Nat
OBVIOUS

\* More coverage never makes a score higher.
LEMMA CrapFalls ==
    ASSUME NEW c \in Nat, NEW p \in 0 .. 100, NEW q \in 0 .. 100, p <= q
    PROVE  Crap(c, q) <= Crap(c, p) /\ Crap(c, p) \in Nat /\ Crap(c, q) \in Nat
<1> DEFINE m == 100 - q
<1> DEFINE k == 100 - p
<1>1. m \in Nat /\ k \in Nat /\ m <= k  OBVIOUS
<1> HIDE DEF m, k
<1>2. m * m <= k * k /\ m * m \in Nat /\ k * k \in Nat
  <2>1. m * m <= k * k  BY <1>1, ProductsGrow
  <2> QED  BY <1>1, <2>1, ProductIsNat
<1>3. m * m * m <= k * k * k /\ m * m * m \in Nat /\ k * k * k \in Nat
  <2>1. (m * m) * m <= (k * k) * k  BY <1>1, <1>2, ProductsGrow
  <2>2. (m * m) * m \in Nat /\ (k * k) * k \in Nat  BY <1>1, <1>2, ProductIsNat
  <2> QED  BY <2>1, <2>2
<1>4. c * c \in Nat  OBVIOUS
<1>5. c * c * (m * m * m) <= c * c * (k * k * k)
  BY <1>3, <1>4, ProductsGrow
<1>6. c * c * (m * m * m) \in Nat /\ c * c * (k * k * k) \in Nat /\ c * Scale \in Nat
  BY <1>3, <1>4 DEF Scale
<1>7. Crap(c, q) = c * c * (m * m * m) + c * Scale /\ Crap(c, p) = c * c * (k * k * k) + c * Scale
  BY DEF Crap, m, k
<1> HIDE DEF Scale, Crap
<1> QED  BY <1>5, <1>6, <1>7

\* A tree that passes holds no method above its wall, at its file's coverage.
LEMMA WallsHold ==
    ASSUME NEW t \in Tree, CrapExit(t) = 0, t.analyser,
           NEW kind \in {"src", "test"}, NEW n \in Listed(t, kind),
           t.methods[n].file \in t.answers, ~Shadowed(t, n)
    PROVE  Crap(t.methods[n].complexity, t.coverage[t.methods[n].file])
               <= (IF kind = "src" THEN ProdMax ELSE TestMax) * Scale
<1> DEFINE max == IF kind = "src" THEN ProdMax ELSE TestMax
<1> DEFINE c == t.methods[n].complexity
<1> DEFINE cov == t.coverage[t.methods[n].file]
<1>1. n \in DOMAIN t.methods /\ t.methods[n] \in Method
  BY DEF Listed, Tree
<1>2. c \in Nat /\ cov \in 0 .. 100
  BY <1>1 DEF Tree, Method
<1>3. n \in Scored(t, kind)
  BY DEF Scored
<1>4. Above(t, kind, max) = {}
  BY DEF CrapExit, Passes
<1>5. ~(Score(t, n) > max * Scale)
  BY <1>3, <1>4 DEF Above
<1>6. Crap(c, cov) <= Score(t, n) /\ Crap(c, cov) \in Nat /\ Score(t, n) \in Nat
  <2>1. CASE Joined(t)
    <3>1. Score(t, n) = Crap(c, cov)  BY <2>1 DEF Score, Coverage
    <3>2. cov <= cov  BY <1>2
    <3> QED  BY <1>2, <3>1, <3>2, CrapFalls
  <2>2. CASE ~Joined(t)
    <3>1. Score(t, n) = Crap(c, 0)  BY <2>2 DEF Score, Coverage
    <3>2. 0 \in 0 .. 100 /\ 0 <= cov  BY <1>2
    <3> QED  BY <1>2, <3>1, <3>2, CrapFalls
  <2> QED  BY <2>1, <2>2
<1>7. max * Scale \in Nat
  BY DEF ProdMax, TestMax, Scale
<1> HIDE DEF max, c, cov
<1>8. Crap(c, cov) <= max * Scale
  BY <1>5, <1>6, <1>7
<1> QED  BY <1>8 DEF max, c, cov

(***************************************************************************)
(* Trees.                                                                  *)
(***************************************************************************)
\* What every tree's scores are, and how many of them there may be.
LEMMA ScoresOfTrees ==
    ASSUME NEW t \in Tree, NEW kind
    PROVE  /\ IsFiniteSet(Scored(t, kind))
           /\ \A i \in Scored(t, kind) : /\ i \in DOMAIN t.methods
                                         /\ t.methods[i].complexity \in Nat
                                         /\ Coverage(t, i) \in 0 .. 100
                                         /\ Score(t, i) \in Nat
<1>1. t.methods \in Seq(Method) /\ t.coverage \in [Files -> 0 .. 100]
  BY DEF Tree
<1>2. DOMAIN t.methods = 1 .. Len(t.methods) /\ Len(t.methods) \in Nat
  BY <1>1
<1>3. Scored(t, kind) \subseteq DOMAIN t.methods
  BY DEF Scored, Listed
<1>4. IsFiniteSet(1 .. Len(t.methods))
  <2>1. 1 \in Int /\ Len(t.methods) \in Int
    BY <1>2
  <2> QED
    BY <2>1, FS_Interval
<1>5. IsFiniteSet(Scored(t, kind))
  BY <1>2, <1>3, <1>4, FS_Subset
<1>6. ASSUME NEW i \in Scored(t, kind)
      PROVE  /\ i \in DOMAIN t.methods
             /\ t.methods[i].complexity \in Nat
             /\ Coverage(t, i) \in 0 .. 100
             /\ Score(t, i) \in Nat
  <2>1. i \in DOMAIN t.methods /\ t.methods[i] \in Method
    BY <1>1, <1>3
  <2>2. t.methods[i].complexity \in Nat /\ t.methods[i].file \in Files
    BY <2>1 DEF Method
  <2>3. Coverage(t, i) \in 0 .. 100
    <3>1. t.coverage[t.methods[i].file] \in 0 .. 100
      BY <1>1, <2>2
    <3>2. CASE Joined(t)
      BY <3>1, <3>2 DEF Coverage
    <3>3. CASE ~Joined(t)
      BY <3>3 DEF Coverage
    <3> QED
      BY <3>2, <3>3
  <2>4. Coverage(t, i) <= Coverage(t, i)
    BY <2>3
  <2>5. Crap(t.methods[i].complexity, Coverage(t, i)) \in Nat
    BY <2>2, <2>3, <2>4, CrapFalls
  <2> QED
    BY <2>1, <2>2, <2>3, <2>5 DEF Score
<1> QED
  BY <1>5, <1>6

\* More complexity never makes a score lower.
LEMMA CrapGrows ==
    ASSUME NEW c \in Nat, NEW d \in Nat, NEW p \in 0 .. 100, c <= d
    PROVE  Crap(c, p) <= Crap(d, p)
<1> DEFINE m == 100 - p
           cube == m * m * m
<1>1. m \in Nat
  OBVIOUS
<1> HIDE DEF m
<1>2. m * m \in Nat
  BY <1>1, ProductIsNat
<1>3. cube \in Nat
  BY <1>1, <1>2, ProductIsNat
<1>4. Crap(c, p) = c * c * cube + c * Scale /\ Crap(d, p) = d * d * cube + d * Scale
  BY DEF Crap, m
<1> HIDE DEF cube
<1>5. c * c <= d * d /\ c * c \in Nat /\ d * d \in Nat
  BY ProductsGrow, ProductIsNat
<1>6. c * c * cube <= d * d * cube /\ c * c * cube \in Nat /\ d * d * cube \in Nat
  <2>1. cube <= cube
    BY <1>3
  <2> QED
    BY <1>3, <1>5, <2>1, ProductsGrow, ProductIsNat
<1>7. c * Scale <= d * Scale /\ c * Scale \in Nat /\ d * Scale \in Nat
  BY DEF Scale
<1> HIDE DEF Scale
<1> QED
  BY <1>4, <1>6, <1>7

\* The same methods are scored in u as in t, none of them more complex and none
\* less covered: what a change that only simplifies methods or tests them does.
NoWorse(t, u) ==
    \A kind \in {"src", "test"} :
        /\ Scored(u, kind) = Scored(t, kind)
        /\ \A i \in Scored(t, kind) : /\ u.methods[i].complexity <= t.methods[i].complexity
                                      /\ Coverage(t, i) <= Coverage(u, i)

LEMMA ScoresFall ==
    ASSUME NEW t \in Tree, NEW u \in Tree, NoWorse(t, u),
           NEW kind \in {"src", "test"}, NEW i \in Scored(t, kind)
    PROVE  Score(u, i) <= Score(t, i)
<1>1. i \in Scored(u, kind)
  BY DEF NoWorse
<1>2. /\ t.methods[i].complexity \in Nat /\ u.methods[i].complexity \in Nat
      /\ Coverage(t, i) \in 0 .. 100 /\ Coverage(u, i) \in 0 .. 100
      /\ Score(t, i) \in Nat /\ Score(u, i) \in Nat
  BY <1>1, ScoresOfTrees
<1> DEFINE middle == Crap(u.methods[i].complexity, Coverage(t, i))
<1>3. Score(u, i) <= middle /\ middle \in Nat
  BY <1>2, CrapFalls DEF NoWorse, Score
<1>4. middle <= Score(t, i)
  BY <1>2, CrapGrows DEF NoWorse, Score
<1> HIDE DEF middle
<1> QED
  BY <1>2, <1>3, <1>4

\* A total is a sum that FiniteSums speaks of.
LEMMA TotalIsSum ==
    ASSUME NEW t
    PROVE  Total(t) = SumFunctionOnSet([i \in Scored(t, "src") |-> Score(t, i)], Scored(t, "src"))
BY DEF Total, SumFunction, SumFunctionOnSet, FoldFunction

\* A change that keeps the methods of a tree, makes none of them more complex and
\* none less covered, and leaves every file one that radon parses, cannot turn a
\* passing crap-score run into a failing one: the three thresholds agree with the
\* score (a removed method is another matter: without a simple one the average may
\* rise above its threshold).
THEOREM ImprovingKeepsPassing ==
    ASSUME NEW t \in Tree, NEW u \in Tree, u.language \in Languages,
           NoWorse(t, u), ~Raises(u), CrapExit(t) = 0
    PROVE  CrapExit(u) = 0
<1>1. Passes(t)
  BY DEF CrapExit
<1>2. ASSUME NEW kind \in {"src", "test"}, NEW max \in Nat, Above(t, kind, max) = {}
      PROVE  Above(u, kind, max) = {}
  <2>1. max * Scale \in Nat
    BY DEF Scale
  <2> SUFFICES ASSUME NEW i \in Scored(u, kind), Score(u, i) > max * Scale
               PROVE  FALSE
    BY DEF Above
  <2>2. i \in Scored(t, kind)
    BY DEF NoWorse
  <2>3. Score(u, i) <= Score(t, i) /\ Score(t, i) \in Nat /\ Score(u, i) \in Nat
    BY <2>2, ScoresFall, ScoresOfTrees
  <2>4. ~(Score(t, i) > max * Scale)
    BY <1>2, <2>2 DEF Above
  <2> HIDE DEF Scale
  <2> QED
    BY <2>1, <2>3, <2>4
<1>3. Above(u, "src", ProdMax) = {} /\ Above(u, "test", TestMax) = {}
  <2>1. ProdMax \in Nat /\ TestMax \in Nat
    BY DEF ProdMax, TestMax
  <2> QED
    BY <1>1, <1>2, <2>1 DEF Passes
<1>4. ~AverageFails(u)
  <2> DEFINE S == Scored(t, "src")
             f == [i \in S |-> Score(u, i)]
             h == [i \in S |-> Score(t, i)]
  <2>1. IsFiniteSet(S) /\ Scored(u, "src") = S
    BY ScoresOfTrees DEF NoWorse
  <2>2. \A i \in S : f[i] \in Nat /\ h[i] \in Nat /\ f[i] <= h[i]
    BY <2>1, ScoresOfTrees, ScoresFall
  <2>3. Total(u) = SumFunctionOnSet(f, S) /\ Total(t) = SumFunctionOnSet(h, S)
    BY <2>1, TotalIsSum
  <2>4. Cardinality(S) \in Nat
    BY <2>1, FS_CardinalityType
  <2>5. ~(Total(t) > AverageMax * Scale * Cardinality(S))
    BY <1>1 DEF Passes, AverageFails
  <2> HIDE DEF S, f, h
  <2>6. Total(u) <= Total(t)
    BY <2>1, <2>2, <2>3, SumMonotone
  <2>7. Total(u) \in Nat /\ Total(t) \in Nat
    BY <2>1, <2>2, <2>3, SumBound
  <2>8. AverageMax * Scale * Cardinality(S) \in Nat
    BY <2>4 DEF AverageMax, Scale
  <2>9. ~(Total(u) > AverageMax * Scale * Cardinality(S))
    BY <2>5, <2>6, <2>7, <2>8
  <2> QED
    BY <2>1, <2>9 DEF AverageFails
<1> QED
  BY <1>3, <1>4 DEF CrapExit, Passes

\* A tree whose methods each keep within the average's threshold, and whose files
\* radon parses, passes, however many there are: then the average cannot be what
\* fails a run whose walls hold.
THEOREM SimpleTreesPass ==
    ASSUME NEW t \in Tree, t.language \in Languages, ~Raises(t),
           Above(t, "src", AverageMax) = {}, Above(t, "test", TestMax) = {}
    PROVE  CrapExit(t) = 0
<1> DEFINE S == Scored(t, "src")
           f == [i \in S |-> Score(t, i)]
           b == AverageMax * Scale
<1>1. b \in Nat /\ b < ProdMax * Scale /\ ProdMax * Scale \in Nat
  BY DEF AverageMax, ProdMax, Scale
<1>2. IsFiniteSet(S) /\ \A i \in S : f[i] \in Nat /\ f[i] = Score(t, i)
  BY ScoresOfTrees
<1>3. \A i \in S : ~(Score(t, i) > b)
  BY DEF Above
<1>4. Total(t) = SumFunctionOnSet(f, S)
  BY TotalIsSum
<1>5. AverageFails(t) <=> Total(t) > b * Cardinality(S)
  BY DEF AverageFails
<1>6. ASSUME Above(t, "src", ProdMax) # {} PROVE FALSE
  <2>1. PICK i \in S : Score(t, i) > ProdMax * Scale
    BY <1>6 DEF Above
  <2> HIDE DEF S, f, b, Scale, ProdMax
  <2> QED
    BY <1>1, <1>2, <1>3, <2>1
<1>7. Cardinality(S) \in Nat
  BY <1>2, FS_CardinalityType
<1> HIDE DEF S, f, b
<1>8. \A i \in S : f[i] <= b
  BY <1>1, <1>2, <1>3
<1>9. Total(t) \in Nat /\ Total(t) <= b * Cardinality(S)
  BY <1>1, <1>2, <1>4, <1>8, SumBound
<1>10. b * Cardinality(S) \in Nat
  BY <1>1, <1>7
<1>11. ~AverageFails(t)
  BY <1>5, <1>9, <1>10
<1> QED
  BY <1>6, <1>11 DEF CrapExit, Passes
=============================================================================
