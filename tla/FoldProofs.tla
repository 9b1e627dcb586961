----------------------------- MODULE FoldProofs -----------------------------
(***************************************************************************)
(* What the folds of the community modules compute.  The induction theorems*)
(* of the library take a predicate as a parameter; here the predicate is a *)
(* set (of numbers, of subsets), which the provers can instantiate.        *)
(***************************************************************************)
EXTENDS Integers, FiniteSets, FiniteSetsExt, Functions, FiniteSetTheorems,
        WellFoundedInduction, TLAPS

-----------------------------------------------------------------------------
(* Induction *)

\* Natural induction for a set of numbers, from the well-foundedness of <.
LEMMA SetInduction ==
    ASSUME NEW T, 0 \in T, \A n \in Nat : n \in T => n + 1 \in T
    PROVE  Nat \subseteq T
<1> DEFINE B == Nat \ T
<1>1. IsWellFoundedOn(OpToRel(<, Nat), Nat)
  BY NatLessThanWellFounded
<1>2. SUFFICES ASSUME B # {} PROVE FALSE
  OBVIOUS
<1>3. PICK x \in B : \A y \in B : ~(<<y, x>> \in OpToRel(<, Nat))
  BY <1>1, <1>2, WFMin
<1>4. \A y \in B : ~(y < x)
  BY <1>3 DEF OpToRel
<1>5. x # 0 /\ x - 1 \in Nat
  OBVIOUS
<1>6. x - 1 \in T
  BY <1>4, <1>5
<1> QED
  BY <1>5, <1>6

\* The element that a fold over a set takes first.
Pick(s) == CHOOSE x \in s : TRUE

\* It is in the set, which is one smaller without it.
LEMMA Picked ==
    ASSUME NEW S, IsFiniteSet(S), NEW s \in SUBSET S, s # {}
    PROVE  /\ Pick(s) \in s /\ Pick(s) \in S /\ s \ {Pick(s)} \in SUBSET S
           /\ Cardinality(s) \in Nat \ {0}
           /\ Cardinality(s \ {Pick(s)}) = Cardinality(s) - 1
<1>1. Pick(s) \in s
  BY DEF Pick
<1>2. IsFiniteSet(s)
  BY FS_Subset
<1>3. Cardinality(s) \in Nat /\ Cardinality(s) # 0
  BY <1>2, FS_CardinalityType, FS_EmptySet
<1>4. Cardinality(s \ {Pick(s)}) = Cardinality(s) - 1
  BY <1>1, <1>2, FS_RemoveElement
<1> QED
  BY <1>1, <1>3, <1>4

\* Induction along a fold: every subset is reached by adding what Pick takes.
LEMMA SubsetInduction ==
    ASSUME NEW S, IsFiniteSet(S), NEW T,
           {} \in T,
           \A s \in SUBSET S : s # {} /\ s \ {Pick(s)} \in T => s \in T
    PROVE  \A s \in SUBSET S : s \in T
<1> DEFINE N == {n \in Nat : \A s \in SUBSET S : Cardinality(s) = n => s \in T}
<1>1. 0 \in N
  <2> SUFFICES ASSUME NEW s \in SUBSET S, Cardinality(s) = 0 PROVE s \in T
    OBVIOUS
  <2>1. s = {}
    BY FS_Subset, FS_EmptySet
  <2> QED
    BY <2>1
<1>2. ASSUME NEW n \in Nat, n \in N PROVE n + 1 \in N
  <2> SUFFICES ASSUME NEW s \in SUBSET S, Cardinality(s) = n + 1 PROVE s \in T
    OBVIOUS
  <2>1. s # {}
    BY FS_EmptySet
  <2>2. s \ {Pick(s)} \in SUBSET S /\ Cardinality(s \ {Pick(s)}) = n
    BY <2>1, Picked
  <2> QED
    BY <1>2, <2>1, <2>2
<1>3. Nat \subseteq N
  <2> HIDE DEF N
  <2> QED
    BY <1>1, <1>2, SetInduction
<1> QED
  BY <1>3, FS_Subset, FS_CardinalityType

-----------------------------------------------------------------------------
(* FoldFunction(+, 0, F) *)

SumOf(F) == FoldFunction(+, 0, F)

\* The body of the recursion of MapThenFoldSet for a sum, and its solution.
SumStep(F, g, s) == IF s = {} THEN 0 ELSE F[Pick(s)] + g[s \ {Pick(s)}]

Sums(F, S) == CHOOSE g : g = [s \in SUBSET S |-> SumStep(F, g, s)]

\* FoldFunction is that solution.
LEMMA SumIs ==
    ASSUME NEW F
    PROVE  SumOf(F) = Sums(F, DOMAIN F)[DOMAIN F]
  BY DEF SumOf, FoldFunction, FoldFunctionOnSet, MapThenFoldSet, Sums, SumStep, Pick

\* The recursion has a solution, by induction over the size of the subsets.
LEMMA SumsExist ==
    ASSUME NEW S, IsFiniteSet(S), NEW F
    PROVE  \E g : g = [s \in SUBSET S |-> SumStep(F, g, s)]
<1> DEFINE Good(g, n) == \A s \in SUBSET S : Cardinality(s) <= n => g[s] = SumStep(F, g, s)
           N == {n \in Nat : \E g : g = [s \in SUBSET S |-> g[s]] /\ Good(g, n)}
<1>0. \A s \in SUBSET S : Cardinality(s) \in Nat /\ (Cardinality(s) = 0 <=> s = {})
  BY FS_Subset, FS_CardinalityType, FS_EmptySet
<1>1. 0 \in N
  <2> DEFINE g == [s \in SUBSET S |-> 0]
  <2>1. Good(g, 0)
    BY <1>0 DEF SumStep
  <2>2. g = [s \in SUBSET S |-> g[s]]
    OBVIOUS
  <2> QED
    BY <2>1, <2>2
<1>2. ASSUME NEW n \in Nat, n \in N PROVE n + 1 \in N
  <2>1. PICK g : g = [s \in SUBSET S |-> g[s]] /\ Good(g, n)
    BY <1>2
  <2> DEFINE h == [s \in SUBSET S |-> IF Cardinality(s) <= n THEN g[s] ELSE SumStep(F, g, s)]
  <2>2. ASSUME NEW s \in SUBSET S, Cardinality(s) <= n + 1 PROVE h[s] = SumStep(F, h, s)
    <3>1. CASE s = {}
      BY <3>1, <2>1, <1>0 DEF SumStep
    <3>2. CASE s # {}
      <4>1. /\ s \ {Pick(s)} \in SUBSET S
            /\ Cardinality(s) \in Nat \ {0}
            /\ Cardinality(s \ {Pick(s)}) = Cardinality(s) - 1
        BY <3>2, Picked
      <4>2. h[s \ {Pick(s)}] = g[s \ {Pick(s)}]
        BY <4>1, <2>2
      <4>3. h[s] = SumStep(F, g, s)
        BY <2>1
      <4> QED
        BY <4>2, <4>3, <3>2 DEF SumStep
    <3> QED
      BY <3>1, <3>2
  <2>3. h = [s \in SUBSET S |-> h[s]]
    OBVIOUS
  <2> HIDE DEF h
  <2>4. Good(h, n + 1)
    BY <2>2
  <2> HIDE DEF Good
  <2> QED
    BY <2>3, <2>4
<1>3. Nat \subseteq N
  <2> HIDE DEF N
  <2> QED
    BY <1>1, <1>2, SetInduction
<1>4. Cardinality(S) \in N
  BY <1>3, FS_CardinalityType
<1>5. PICK g : g = [s \in SUBSET S |-> g[s]] /\ Good(g, Cardinality(S))
  BY <1>4
<1>6. \A s \in SUBSET S : Cardinality(s) <= Cardinality(S)
  BY FS_Subset
<1>7. \A s \in SUBSET S : g[s] = SumStep(F, g, s)
  BY <1>5, <1>6
<1>8. g = [s \in SUBSET S |-> SumStep(F, g, s)]
  BY <1>5, <1>7
<1> QED
  BY <1>8

\* So the sum over a set is its first element plus the sum over the others.
LEMMA SumsUnfold ==
    ASSUME NEW S, IsFiniteSet(S), NEW F
    PROVE  \A s \in SUBSET S : Sums(F, S)[s] = SumStep(F, Sums(F, S), s)
<1> DEFINE g == Sums(F, S)
<1>1. g = [s \in SUBSET S |-> SumStep(F, g, s)]
  BY SumsExist DEF Sums
<1> HIDE DEF g
<1>2. \A s \in SUBSET S : g[s] = SumStep(F, g, s)
  BY <1>1
<1> QED
  BY <1>2 DEF g

\* A sum changes by what one of its elements changes.
LEMMA SumChanges ==
    ASSUME NEW S, IsFiniteSet(S), NEW F \in [S -> Int], NEW G \in [S -> Int], NEW x \in S,
           \A y \in S : y # x => G[y] = F[y]
    PROVE  /\ SumOf(F) \in Int
           /\ SumOf(G) = SumOf(F) + G[x] - F[x]
<1> DEFINE f == Sums(F, S)
           g == Sums(G, S)
           delta(s) == IF x \in s THEN G[x] - F[x] ELSE 0
           T == {s \in SUBSET S : f[s] \in Int /\ g[s] = f[s] + delta(s)}
<1>1. \A s \in SUBSET S : f[s] = SumStep(F, f, s) /\ g[s] = SumStep(G, g, s)
  BY SumsUnfold
<1>2. G[x] \in Int /\ F[x] \in Int
  OBVIOUS
<1> HIDE DEF f, g
<1>3. {} \in T
  <2>1. f[{}] = 0 /\ g[{}] = 0
    BY <1>1 DEF SumStep
  <2> QED
    BY <2>1
<1>4. ASSUME NEW s \in SUBSET S, s # {}, s \ {Pick(s)} \in T PROVE s \in T
  <2> DEFINE p == Pick(s)
             r == s \ {p}
  <2>1. p \in s /\ p \in S /\ r \in SUBSET S
    BY <1>4, Picked
  <2>2. f[s] = F[p] + f[r] /\ g[s] = G[p] + g[r]
    BY <1>1, <1>4 DEF SumStep
  <2>3. f[r] \in Int /\ g[r] = f[r] + delta(r)
    BY <1>4
  <2>4. F[p] \in Int /\ G[p] \in Int
    BY <2>1
  <2> HIDE DEF p
  <2>5. CASE p = x
    <3>1. x \in s /\ x \notin r
      BY <2>1, <2>5
    <3> HIDE DEF r
    <3>2. f[s] \in Int /\ g[s] = f[s] + (G[x] - F[x])
      BY <3>1, <2>2, <2>3, <2>4, <2>5
    <3> QED
      BY <3>1, <3>2
  <2>6. CASE p # x
    <3>1. G[p] = F[p] /\ (x \in s <=> x \in r)
      BY <2>1, <2>6
    <3>2. delta(r) = delta(s) /\ delta(s) \in Int
      BY <3>1, <1>2
    <3> HIDE DEF r, delta
    <3>3. f[s] \in Int /\ g[s] = f[s] + delta(s)
      BY <3>1, <3>2, <2>2, <2>3, <2>4
    <3> QED
      BY <3>3
  <2> QED
    BY <2>5, <2>6
<1>5. S \in T
  <2> HIDE DEF T
  <2> QED
    BY <1>3, <1>4, SubsetInduction
<1>6. SumOf(F) = f[S] /\ SumOf(G) = g[S]
  <2>1. DOMAIN F = S /\ DOMAIN G = S
    OBVIOUS
  <2> QED
    BY <2>1, SumIs DEF f, g
<1> QED
  BY <1>2, <1>5, <1>6

\* A sum of zeros.
LEMMA SumOfZeros ==
    ASSUME NEW S, IsFiniteSet(S), NEW F \in [S -> {0}]
    PROVE  SumOf(F) = 0
<1> DEFINE f == Sums(F, S)
           T == {s \in SUBSET S : f[s] = 0}
<1>1. \A s \in SUBSET S : f[s] = SumStep(F, f, s)
  BY SumsUnfold
<1> HIDE DEF f
<1>2. {} \in T
  BY <1>1 DEF SumStep
<1>3. ASSUME NEW s \in SUBSET S, s # {}, s \ {Pick(s)} \in T PROVE s \in T
  <2>1. Pick(s) \in S
    BY <1>3, Picked
  <2>2. F[Pick(s)] = 0 /\ f[s \ {Pick(s)}] = 0
    BY <1>3, <2>1
  <2>3. f[s] = 0
    BY <1>1, <1>3, <2>2 DEF SumStep
  <2> QED
    BY <2>3
<1>4. S \in T
  <2> HIDE DEF T
  <2> QED
    BY <1>2, <1>3, SubsetInduction
<1>5. SumOf(F) = f[S]
  <2>1. DOMAIN F = S
    OBVIOUS
  <2> QED
    BY <2>1, SumIs DEF f
<1> QED
  BY <1>4, <1>5

-----------------------------------------------------------------------------
(* Folds in an order of their own, such as FoldLeft of SequencesExt *)

\* A nonempty set of integers with an upper bound has a greatest element.
LEMMA HasGreatest ==
    ASSUME NEW s \in SUBSET Int, s # {}, NEW n \in Int, \A y \in s : y <= n
    PROVE  \E m \in s : \A y \in s : y <= m
<1> DEFINE B == {k \in Nat : n - k \in s}
<1>1. IsWellFoundedOn(OpToRel(<, Nat), Nat)
  BY NatLessThanWellFounded
<1>2. B # {} /\ B \subseteq Nat
  <2>1. PICK y \in s : TRUE
    OBVIOUS
  <2>2. n - y \in Nat /\ n - (n - y) = y
    OBVIOUS
  <2> QED
    BY <2>1, <2>2
<1> HIDE DEF B
<1>3. PICK k \in B : \A j \in B : ~(<<j, k>> \in OpToRel(<, Nat))
  BY <1>1, <1>2, WFMin
<1>4. k \in Nat /\ n - k \in s
  BY <1>3 DEF B
<1>5. \A j \in B : ~(j < k)
  BY <1>2, <1>3 DEF OpToRel
<1>6. ASSUME NEW y \in s PROVE y <= n - k
  <2>1. n - y \in Nat /\ n - (n - y) = y
    OBVIOUS
  <2>2. n - y \in B
    BY <2>1 DEF B
  <2> QED
    BY <1>4, <1>5, <2>1, <2>2
<1> QED
  BY <1>4, <1>6

\* The body of the recursion of MapThenFoldSet: first[s] is the element of s
\* that is taken, step[x, v] what becomes of the value v for the others.
FoldStep(base, first, step, g, s) ==
    IF s = {} THEN base ELSE step[<<first[s], g[s \ {first[s]}]>>]

Foldable(S, V, base, first, step) ==
    /\ IsFiniteSet(S) /\ base \in V /\ step \in [S \X V -> V]
    /\ \A s \in SUBSET S : s # {} => first[s] \in s

IsFold(S, V, base, first, step, g) ==
    g \in [SUBSET S -> V] /\ \A s \in SUBSET S : g[s] = FoldStep(base, first, step, g, s)

\* It has a solution, by induction over the size of the subsets.
LEMMA FoldsExist ==
    ASSUME NEW S, NEW V, NEW base, NEW first, NEW step, Foldable(S, V, base, first, step)
    PROVE  \E g : IsFold(S, V, base, first, step, g)
<1> DEFINE Good(g, n) ==
               \A s \in SUBSET S : Cardinality(s) <= n => g[s] = FoldStep(base, first, step, g, s)
           N == {n \in Nat : \E g \in [SUBSET S -> V] : Good(g, n)}
<1>a. IsFiniteSet(S) /\ base \in V /\ step \in [S \X V -> V]
  BY DEF Foldable
<1>b. \A s \in SUBSET S : s # {} => first[s] \in s
  BY DEF Foldable
<1>0. \A s \in SUBSET S : Cardinality(s) \in Nat /\ (Cardinality(s) = 0 <=> s = {})
  BY <1>a, FS_Subset, FS_CardinalityType, FS_EmptySet
<1>1. 0 \in N
  <2> DEFINE g == [s \in SUBSET S |-> base]
  <2>1. Good(g, 0)
    BY <1>0 DEF FoldStep
  <2>2. g \in [SUBSET S -> V]
    BY <1>a
  <2> QED
    BY <2>1, <2>2
<1>2. ASSUME NEW n \in Nat, n \in N PROVE n + 1 \in N
  <2>1. PICK g \in [SUBSET S -> V] : Good(g, n)
    BY <1>2
  <2> DEFINE h == [s \in SUBSET S |-> IF Cardinality(s) <= n THEN g[s]
                                      ELSE FoldStep(base, first, step, g, s)]
  <2>0. ASSUME NEW s \in SUBSET S, s # {}
        PROVE  /\ first[s] \in s /\ first[s] \in S /\ s \ {first[s]} \in SUBSET S
               /\ Cardinality(s) \in Nat \ {0}
               /\ Cardinality(s \ {first[s]}) = Cardinality(s) - 1
    <3>1. first[s] \in s /\ IsFiniteSet(s)
      BY <1>a, <1>b, <2>0, FS_Subset
    <3>2. Cardinality(s \ {first[s]}) = Cardinality(s) - 1
      <4> DEFINE x == first[s]
      <4>1. x \in s
        BY <3>1
      <4> HIDE DEF x
      <4>2. Cardinality(s \ {x}) = Cardinality(s) - 1
        BY <3>1, <4>1, FS_RemoveElement
      <4> QED
        BY <4>2 DEF x
    <3>3. Cardinality(s) \in Nat \ {0}
      BY <1>0, <2>0
    <3>4. first[s] \in S /\ s \ {first[s]} \in SUBSET S
      BY <3>1
    <3> QED
      BY <3>1, <3>2, <3>3, <3>4
  <2>2. \A s \in SUBSET S : h[s] = IF Cardinality(s) <= n THEN g[s]
                                   ELSE FoldStep(base, first, step, g, s)
    OBVIOUS
  <2>3. h \in [SUBSET S -> V]
    <3>1. ASSUME NEW s \in SUBSET S PROVE FoldStep(base, first, step, g, s) \in V
      <4>1. CASE s = {}
        BY <1>a, <4>1 DEF FoldStep
      <4>2. CASE s # {}
        <5>1. first[s] \in S /\ g[s \ {first[s]}] \in V
          BY <2>0, <4>2
        <5>2. step[<<first[s], g[s \ {first[s]}]>>] \in V
          BY <1>a, <5>1
        <5> QED
          BY <4>2, <5>2 DEF FoldStep
      <4> QED
        BY <4>1, <4>2
    <3> QED
      BY <3>1
  <2> HIDE DEF h
  <2>4. ASSUME NEW s \in SUBSET S, Cardinality(s) <= n + 1
        PROVE  h[s] = FoldStep(base, first, step, h, s)
    <3>1. CASE s = {}
      <4>1. Cardinality(s) <= n
        BY <1>0, <3>1
      <4>2. h[s] = g[s]
        BY <2>2, <4>1
      <4>3. g[s] = FoldStep(base, first, step, g, s)
        BY <2>1, <4>1
      <4> QED
        BY <3>1, <4>2, <4>3 DEF FoldStep
    <3>2. CASE s # {}
      <4>0. s \ {first[s]} \in SUBSET S /\ Cardinality(s \ {first[s]}) <= n
        BY <2>0, <2>4, <3>2
      <4>1. h[s \ {first[s]}] = g[s \ {first[s]}]
        BY <2>2, <4>0
      <4>2. h[s] = FoldStep(base, first, step, g, s)
        BY <2>1, <2>2
      <4> QED
        BY <3>2, <4>1, <4>2 DEF FoldStep
    <3> QED
      BY <3>1, <3>2
  <2>5. Good(h, n + 1)
    BY <2>4
  <2> HIDE DEF Good
  <2> QED
    BY <2>3, <2>5
<1>3. Nat \subseteq N
  <2> HIDE DEF N
  <2> QED
    BY <1>1, <1>2, SetInduction
<1>4. Cardinality(S) \in N
  BY <1>a, <1>3, FS_CardinalityType
<1>5. PICK g \in [SUBSET S -> V] : Good(g, Cardinality(S))
  BY <1>4
<1>6. \A s \in SUBSET S : Cardinality(s) <= Cardinality(S)
  BY <1>a, FS_Subset
<1> QED
  BY <1>5, <1>6 DEF IsFold

-----------------------------------------------------------------------------
(* Least elements, and sums of powers of two: Min and MapThenSumSet *)

\* A nonempty set of numbers has a least element.
LEMMA MinOfNumbers ==
    ASSUME NEW s \in SUBSET Nat, s # {}
    PROVE  Min(s) \in s /\ \A y \in s : Min(s) <= y
<1>1. IsWellFoundedOn(OpToRel(<, Nat), Nat)
  BY NatLessThanWellFounded
<1>2. PICK m \in s : \A j \in s : ~(<<j, m>> \in OpToRel(<, Nat))
  BY <1>1, WFMin
<1>3. \A j \in s : m =< j
  <2>1. \A j \in s : j \in Nat /\ m \in Nat
    OBVIOUS
  <2>2. \A j \in s : ~(j < m)
    BY <1>2, <2>1 DEF OpToRel
  <2> QED
    BY <2>1, <2>2
<1>4. Min(s) \in s /\ \A y \in s : Min(s) =< y
  BY <1>3 DEF Min
<1> QED
  BY <1>4

\* A sum of numbers by a fold, and what it is to be one.
IsSum(F, S, g) ==
    /\ IsFiniteSet(S) /\ F \in [S -> Int]
    /\ g \in [SUBSET S -> Int]
    /\ \A s \in SUBSET S : g[s] = IF s = {} THEN 0 ELSE F[Pick(s)] + g[s \ {Pick(s)}]

TakesAny(F, S, g) == \A s \in SUBSET S : \A x \in s : g[s] = F[x] + g[s \ {x}]

\* It does not matter which element is taken first.
LEMMA SumTakesAny ==
    ASSUME NEW S, NEW F, NEW g, IsSum(F, S, g)
    PROVE  TakesAny(F, S, g)
<1> DEFINE Any(t) == \A y \in t : g[t] = F[y] + g[t \ {y}]
           N == {n \in Nat : \A t \in SUBSET S : Cardinality(t) = n => Any(t)}
<1>b. IsFiniteSet(S) /\ F \in [S -> Int]
  BY DEF IsSum
<1>0. \A t \in SUBSET S : IsFiniteSet(t) /\ Cardinality(t) \in Nat /\ (Cardinality(t) = 0 <=> t = {})
  BY <1>b, FS_Subset, FS_CardinalityType, FS_EmptySet
<1>a. /\ g \in [SUBSET S -> Int]
      /\ \A t \in SUBSET S : t # {} => g[t] = F[Pick(t)] + g[t \ {Pick(t)}]
  BY DEF IsSum
<1>1. 0 \in N
  BY <1>0
<1>2. ASSUME NEW n \in Nat, n \in N PROVE n + 1 \in N
  <2> SUFFICES ASSUME NEW t \in SUBSET S, Cardinality(t) = n + 1, NEW y \in t
               PROVE  g[t] = F[y] + g[t \ {y}]
    OBVIOUS
  <2> DEFINE p == Pick(t)
  <2>1. p \in t /\ p \in S /\ y \in S /\ t # {}
    BY DEF Pick
  <2>2. g[t] = F[p] + g[t \ {p}]
    BY <1>a, <2>1
  <2> HIDE DEF p
  <2>3. CASE y = p
    BY <2>2, <2>3
  <2>4. CASE y # p
    <3>1. Cardinality(t \ {p}) = n /\ Cardinality(t \ {y}) = n
      <4>1. Cardinality(t \ {p}) = Cardinality(t) - 1
        BY <1>0, <2>1, FS_RemoveElement
      <4>2. Cardinality(t \ {y}) = Cardinality(t) - 1
        BY <1>0, <2>1, FS_RemoveElement
      <4> QED
        BY <4>1, <4>2
    <3>2. Any(t \ {p}) /\ Any(t \ {y})
      BY <1>2, <3>1
    <3>3. g[t \ {p}] = F[y] + g[(t \ {p}) \ {y}]
      BY <2>4, <3>2
    <3>4. g[t \ {y}] = F[p] + g[(t \ {y}) \ {p}]
      BY <2>1, <2>4, <3>2
    <3>5. (t \ {p}) \ {y} = (t \ {y}) \ {p}
      OBVIOUS
    <3> DEFINE r == g[(t \ {y}) \ {p}]
    <3>6. r \in Int /\ F[p] \in Int /\ F[y] \in Int
      BY <1>a, <1>b, <2>1
    <3>7. g[t] = F[p] + (F[y] + r) /\ g[t \ {y}] = F[p] + r
      BY <2>2, <3>3, <3>4, <3>5
    <3> HIDE DEF r
    <3> QED
      BY <3>6, <3>7
  <2> QED
    BY <2>3, <2>4
<1>3. Nat \subseteq N
  <2> HIDE DEF N
  <2> QED
    BY <1>1, <1>2, SetInduction
<1> QED
  BY <1>0, <1>3 DEF TakesAny

\* The sum of powers of two over a set is such a sum.
LEMMA PowerSumIs ==
    ASSUME NEW S, IsFiniteSet(S), \A b \in S : 2^b \in Int
    PROVE  \E g : IsSum([b \in S |-> 2^b], S, g) /\ MapThenSumSet(LAMBDA b : 2^b, S) = g[S]
<1> DEFINE F == [b \in S |-> 2^b]
           P(g) == g = [s \in SUBSET S |-> IF s = {} THEN 0 ELSE 2^Pick(s) + g[s \ {Pick(s)}]]
           first == [s \in SUBSET S |-> Pick(s)]
           step == [u \in S \X Int |-> F[u[1]] + u[2]]
<1>0. F \in [S -> Int] /\ \A s \in SUBSET S : s # {} => Pick(s) \in S /\ F[Pick(s)] = 2^Pick(s)
  BY DEF Pick
<1> HIDE DEF F
<1>1. Foldable(S, Int, 0, first, step)
  <2>1. step \in [S \X Int -> Int]
    BY <1>0
  <2>2. \A s \in SUBSET S : s # {} => first[s] \in s
    BY DEF Pick
  <2> HIDE DEF step, first
  <2> QED
    BY <2>1, <2>2 DEF Foldable
<1>2. PICK h : IsFold(S, Int, 0, first, step, h)
  <2> HIDE DEF first, step
  <2> QED
    BY <1>1, FoldsExist
<1>3. P(h)
  <2>1. h \in [SUBSET S -> Int]
    BY <1>2 DEF IsFold
  <2>2. ASSUME NEW s \in SUBSET S
        PROVE  h[s] = IF s = {} THEN 0 ELSE F[Pick(s)] + h[s \ {Pick(s)}]
    <3>1. h[s] = FoldStep(0, first, step, h, s)
      BY <1>2 DEF IsFold
    <3>2. CASE s = {}
      BY <3>1, <3>2 DEF FoldStep
    <3>3. CASE s # {}
      <4>1. Pick(s) \in S /\ h[s \ {Pick(s)}] \in Int /\ first[s] = Pick(s)
        BY <2>1, <3>3 DEF Pick
      <4>2. h[s] = step[<<Pick(s), h[s \ {Pick(s)}]>>]
        BY <3>1, <3>3, <4>1 DEF FoldStep
      <4>3. step[<<Pick(s), h[s \ {Pick(s)}]>>] = F[Pick(s)] + h[s \ {Pick(s)}]
        BY <4>1
      <4> QED
        BY <3>3, <4>2, <4>3
    <3> QED
      BY <3>2, <3>3
  <2>3. \A s \in SUBSET S : h[s] = IF s = {} THEN 0 ELSE 2^Pick(s) + h[s \ {Pick(s)}]
    BY <1>0, <2>2
  <2> QED
    BY <2>1, <2>3
<1> DEFINE g == CHOOSE f : P(f)
<1>4. P(g)
  <2> HIDE DEF P
  <2> QED
    BY <1>3
<1>5. MapThenSumSet(LAMBDA b : 2^b, S) = g[S]
  BY DEF MapThenSumSet, MapThenFoldSet, Pick
<1> HIDE DEF g
<1>6. \A s \in SUBSET S : g[s] = IF s = {} THEN 0 ELSE F[Pick(s)] + g[s \ {Pick(s)}]
  <2>1. \A s \in SUBSET S : g[s] = IF s = {} THEN 0 ELSE 2^Pick(s) + g[s \ {Pick(s)}]
    BY <1>4
  <2> QED
    BY <1>0, <2>1
<1>7. g = [s \in SUBSET S |-> g[s]]
  BY <1>4
<1>8. \A s \in SUBSET S : g[s] \in Int
  <2> DEFINE T == {s \in SUBSET S : g[s] \in Int}
  <2>1. {} \in T
    <3>1. g[{}] = 0
      BY <1>6
    <3> QED
      BY <3>1
  <2>2. ASSUME NEW s \in SUBSET S, s # {}, s \ {Pick(s)} \in T PROVE s \in T
    <3>1. F[Pick(s)] \in Int
      BY <1>0, <2>2
    <3>2. g[s] = F[Pick(s)] + g[s \ {Pick(s)}]
      BY <1>6, <2>2
    <3>3. g[s \ {Pick(s)}] \in Int
      BY <2>2
    <3>4. g[s] \in Int
      BY <3>1, <3>2, <3>3
    <3> QED
      BY <3>4
  <2> HIDE DEF T
  <2>3. \A s \in SUBSET S : s \in T
    BY <2>1, <2>2, SubsetInduction
  <2> QED
    BY <2>3 DEF T
<1>9. IsSum(F, S, g)
  BY <1>0, <1>6, <1>7, <1>8 DEF IsSum
<1> QED
  BY <1>5, <1>9 DEF F
=============================================================================
