------------------------------ MODULE Induction ------------------------------
(***************************************************************************)
(* Induction over the natural numbers for the proofs of this project, stated  *)
(* with a set where the library's theorems have an operator: to show P(n) for  *)
(* every n, take {n \in Nat : P(n)}. And what follows by it about the greatest  *)
(* and the least element of a finite set, the sums of functions and what a     *)
(* sequence runs through.                                                     *)
(***************************************************************************)
EXTENDS Integers, FiniteSetsExt, FiniteSetTheorems, TLAPS

\* A set that holds 0, and with each number the next, holds them all: the least
\* number outside it would have a predecessor outside it.
LEMMA NatInductionSet ==
  ASSUME NEW S, 0 \in S, \A n \in Nat : n \in S => n + 1 \in S
  PROVE  Nat \subseteq S
<1> DEFINE R == OpToRel(<, Nat)
           T == Nat \ S
<1>1. IsWellFoundedOn(R, Nat)
  BY NatLessThanWellFounded
<1>2. \A x, y \in Nat : x < y => <<x, y>> \in R
  BY DEF OpToRel
<1> HIDE DEF R
<1>3. SUFFICES ASSUME T # {} PROVE FALSE
  OBVIOUS
<1>4. PICK x \in T : \A y \in T : <<y, x>> \notin R
  BY <1>1, <1>3, WFMin
<1>5. x \in Nat /\ x # 0 /\ x - 1 \in Nat /\ x - 1 < x /\ (x - 1) + 1 = x
  BY <1>4
<1>6. x - 1 \notin T
  BY <1>2, <1>4, <1>5
<1> QED BY <1>4, <1>5, <1>6

\* A finite set of integers that is not empty has a greatest element.
LEMMA MaxIsGreatest ==
  ASSUME NEW T \in SUBSET Int, IsFiniteSet(T), T # {}
  PROVE  Max(T) \in T /\ \A y \in T : y <= Max(T)
<1> DEFINE HasMax(U) == \E x \in U : \A y \in U : x >= y
           S == {n \in Nat : \A U \in SUBSET Int :
                               IsFiniteSet(U) /\ Cardinality(U) = n + 1 => HasMax(U)}
<1>1. 0 \in S
  <2> SUFFICES ASSUME NEW U \in SUBSET Int, IsFiniteSet(U), Cardinality(U) = 1
               PROVE  HasMax(U)
    OBVIOUS
  <2>1. PICK x : U = {x}
    BY FS_Singleton
  <2> QED BY <2>1
<1>2. ASSUME NEW n \in Nat, n \in S
      PROVE  n + 1 \in S
  <2> SUFFICES ASSUME NEW U \in SUBSET Int, IsFiniteSet(U), Cardinality(U) = n + 2
               PROVE  HasMax(U)
    OBVIOUS
  <2>1. U # {}
    BY FS_EmptySet
  <2>2. PICK x \in U : TRUE
    BY <2>1
  <2>3. IsFiniteSet(U \ {x}) /\ Cardinality(U \ {x}) = n + 1 /\ U \ {x} \in SUBSET Int
    BY FS_RemoveElement
  <2>4. PICK y \in U \ {x} : \A z \in U \ {x} : y >= z
    BY <1>2, <2>3
  <2> QED BY <2>4
<1>3. Nat \subseteq S
  <2> HIDE DEF S
  <2> QED BY <1>1, <1>2, NatInductionSet
<1>4. Cardinality(T) \in Nat /\ Cardinality(T) # 0
  BY FS_CardinalityType, FS_EmptySet
<1>5. HasMax(T)
  <2>1. Cardinality(T) - 1 \in S /\ (Cardinality(T) - 1) + 1 = Cardinality(T)
    BY <1>3, <1>4
  <2> QED BY <2>1
<1>6. Max(T) \in T /\ \A y \in T : Max(T) >= y
  BY <1>5 DEF Max
<1>7. Max(T) \in Int /\ \A y \in T : y \in Int
  BY <1>6
<1> QED BY <1>6, <1>7

\* A set of natural numbers that is not empty has a least element.
LEMMA MinIsLeast ==
  ASSUME NEW T \in SUBSET Nat, T # {}
  PROVE  Min(T) \in T /\ \A y \in T : Min(T) <= y
<1> DEFINE R == OpToRel(<, Nat)
<1>1. IsWellFoundedOn(R, Nat)
  BY NatLessThanWellFounded
<1>2. \A x, y \in Nat : x < y => <<x, y>> \in R
  BY DEF OpToRel
<1> HIDE DEF R
<1>5. T \subseteq Nat
  OBVIOUS
<1>6. T # {}
  OBVIOUS
<1>3. PICK x \in T : \A y \in T : ~(<<y, x>> \in R)
  BY <1>1, <1>5, <1>6, WFMin, Zenon
<1>4. ASSUME NEW y \in T
      PROVE  x <= y
  <2>1. x \in Nat /\ y \in Nat /\ ~(<<y, x>> \in R)
    BY <1>3, <1>5
  <2>2. y < x => <<y, x>> \in R
    BY <1>2, <2>1
  <2> QED BY <2>1, <2>2
<1> QED BY <1>3, <1>4 DEF Min

\* What a sequence runs through is finite, and as many as it is long exactly when
\* no value comes twice.
LEMMA RangeIsFinite ==
  ASSUME NEW n \in Nat, NEW f, f = [i \in 1..n |-> f[i]]
  PROVE  /\ IsFiniteSet(Range(f))
         /\ (\A i, j \in 1..n : f[i] = f[j] => i = j) => Cardinality(Range(f)) = n
<1>1. f \in Surjection(1..n, Range(f))
  BY DEF Surjection, Range
<1>2. IsFiniteSet(1..n) /\ Cardinality(1..n) = n
  BY FS_Interval
<1>3. /\ IsFiniteSet(Range(f))
      /\ Cardinality(Range(f)) = Cardinality(1..n) <=> f \in Injection(1..n, Range(f))
  BY <1>1, <1>2, FS_Surjection
<1>4. ASSUME \A i, j \in 1..n : f[i] = f[j] => i = j
      PROVE  f \in Injection(1..n, Range(f))
  <2>1. f \in [1..n -> Range(f)]
    BY DEF Range
  <2>2. IsInjective(f)
    BY <1>4 DEF IsInjective
  <2> QED BY <2>1, <2>2 DEF Injection
<1> QED BY <1>2, <1>3, <1>4

\* What is kept through every step of a loop holds of its outcome.
LEMMA LoopKeeps ==
  ASSUME NEW n \in Nat, NEW g, NEW G, g[0] \in G[0],
         \A i \in 1..n : g[i - 1] \in G[i - 1] => g[i] \in G[i]
  PROVE  g[n] \in G[n]
<1> DEFINE S == {k \in Nat : k <= n => g[k] \in G[k]}
<1>1. 0 \in S
  OBVIOUS
<1>2. ASSUME NEW k \in Nat, k \in S
      PROVE  k + 1 \in S
  <2> SUFFICES ASSUME k + 1 <= n PROVE g[k + 1] \in G[k + 1]
    OBVIOUS
  <2>1. k + 1 \in 1..n /\ (k + 1) - 1 = k /\ g[k] \in G[k]
    BY <1>2
  <2> QED BY <2>1
<1>3. n \in S
  <2> HIDE DEF S
  <2> QED BY <1>1, <1>2, NatInductionSet
<1> QED BY <1>3

\* A loop of n steps over the values D: F gives what a step makes of a value. g[i] is
\* its value after i steps, beginning with d.
LoopBody(F, n, D) == F \in [D \X (1..n) -> D]
LoopRuns(g, F, n, d, D) ==
  /\ g \in [0..n -> D] /\ g[0] = d
  /\ \A i \in 1..n : g[i] = F[<<g[i - 1], i>>]

\* A loop has an outcome: the function its body defines, step by step, exists.
LEMMA LoopExists ==
  ASSUME NEW n \in Nat, NEW D, NEW d \in D, NEW F, LoopBody(F, n, D)
  PROVE  \E g : LoopRuns(g, F, n, d, D)
<1> USE DEF LoopBody
<1> DEFINE Runs(g, k) == /\ g \in [0..k -> D] /\ g[0] = d
                         /\ \A i \in 1..k : g[i] = F[<<g[i - 1], i>>]
           S == {k \in Nat : k <= n => \E g : Runs(g, k)}
<1>1. 0 \in S
  <2> DEFINE g == [i \in 0..0 |-> d]
  <2>1. Runs(g, 0)
    OBVIOUS
  <2> QED BY <2>1
<1>2. ASSUME NEW k \in Nat, k \in S
      PROVE  k + 1 \in S
  <2> SUFFICES ASSUME k + 1 <= n PROVE \E g : Runs(g, k + 1)
    OBVIOUS
  <2>1. PICK g : Runs(g, k)
    BY <1>2
  <2> DEFINE h == [i \in 0..k + 1 |-> IF i <= k THEN g[i] ELSE F[<<g[k], k + 1>>]]
  <2>2. <<g[k], k + 1>> \in D \X (1..n)
    BY <2>1
  <2>3. h \in [0..k + 1 -> D]
    <3>1. F[<<g[k], k + 1>>] \in D
      BY <2>2
    <3>2. \A i \in 0..k + 1 : (IF i <= k THEN g[i] ELSE F[<<g[k], k + 1>>]) \in D
      BY <2>1, <3>1
    <3> QED BY <3>2
  <2>4. h[0] = d
    BY <2>1
  <2>5. ASSUME NEW i \in 1..k + 1
        PROVE  h[i] = F[<<h[i - 1], i>>]
    <3>1. h[i - 1] = g[i - 1]
      BY <2>5
    <3>2. CASE i <= k
      <4>1. i \in 1..k /\ h[i] = g[i]
        BY <3>2
      <4> HIDE DEF h
      <4> QED BY <2>1, <3>1, <4>1
    <3>3. CASE i = k + 1
      <4>1. h[i] = F[<<g[k], k + 1>>] /\ i - 1 = k
        BY <3>3
      <4> HIDE DEF h
      <4> QED BY <3>1, <3>3, <4>1
    <3> QED BY <3>2, <3>3
  <2> HIDE DEF h
  <2> QED BY <2>3, <2>4, <2>5
<1>3. \E g : Runs(g, n)
  <2>1. n \in S
    <3> HIDE DEF S
    <3> QED BY <1>1, <1>2, NatInductionSet
  <2> QED BY <2>1
<1> QED BY <1>3 DEF LoopRuns

-----------------------------------------------------------------------------
(* Sums over a finite set *)

\* The element SumFunction takes out of s next.
Picked(s) == CHOOSE x \in s : TRUE

\* Induction over the subsets of a finite set, by the element picked.
LEMMA SubsetInduction ==
  ASSUME NEW D, IsFiniteSet(D), NEW S, {} \in S,
         \A s \in SUBSET D : s # {} /\ s \ {Picked(s)} \in S => s \in S
  PROVE  \A s \in SUBSET D : s \in S
<1> DEFINE T == {n \in Nat : \A s \in SUBSET D : Cardinality(s) <= n => s \in S}
<1>1. \A s \in SUBSET D : IsFiniteSet(s) /\ Cardinality(s) \in Nat
  BY FS_Subset, FS_CardinalityType
<1>2. \A s \in SUBSET D : s # {} => /\ Picked(s) \in s
                                    /\ s \ {Picked(s)} \in SUBSET D
                                    /\ Cardinality(s \ {Picked(s)}) = Cardinality(s) - 1
  BY <1>1, FS_RemoveElement DEF Picked
<1>3. 0 \in T
  <2> SUFFICES ASSUME NEW s \in SUBSET D, Cardinality(s) <= 0 PROVE s \in S
    OBVIOUS
  <2>1. Cardinality(s) = 0 /\ IsFiniteSet(s)
    BY <1>1
  <2>2. s = {}
    BY <2>1, FS_EmptySet
  <2> QED BY <2>2
<1>4. ASSUME NEW n \in Nat, n \in T
      PROVE  n + 1 \in T
  <2> SUFFICES ASSUME NEW s \in SUBSET D, Cardinality(s) <= n + 1
               PROVE  s \in S
    OBVIOUS
  <2> SUFFICES ASSUME s # {} PROVE s \in S
    OBVIOUS
  <2>1. Cardinality(s \ {Picked(s)}) <= n
    BY <1>1, <1>2
  <2>2. s \ {Picked(s)} \in S
    BY <1>2, <1>4, <2>1
  <2> QED BY <2>2
<1>5. Nat \subseteq T
  <2> HIDE DEF T
  <2> QED BY <1>3, <1>4, NatInductionSet
<1> QED BY <1>1, <1>5

\* What SumFunction computes, subset by subset.
SumsTo(f, D, it) ==
  /\ it \in [SUBSET D -> Int] /\ it[{}] = 0
  /\ \A s \in SUBSET D : s # {} => it[s] = f[Picked(s)] + it[s \ {Picked(s)}]

LEMMA SumExists ==
  ASSUME NEW D, IsFiniteSet(D), NEW f \in [D -> Int]
  PROVE  \E it : SumsTo(f, D, it)
<1> DEFINE Body(g, s) == IF s = {} THEN 0 ELSE f[Picked(s)] + g[s \ {Picked(s)}]
           S == {n \in Nat : \E g \in [SUBSET D -> Int] :
                               \A s \in SUBSET D : Cardinality(s) <= n => g[s] = Body(g, s)}
<1>1. \A s \in SUBSET D : IsFiniteSet(s) /\ Cardinality(s) \in Nat
  BY FS_Subset, FS_CardinalityType
<1>2. \A s \in SUBSET D : s # {} => /\ Picked(s) \in D
                                    /\ s \ {Picked(s)} \in SUBSET D
                                    /\ Cardinality(s \ {Picked(s)}) = Cardinality(s) - 1
  BY <1>1, FS_RemoveElement DEF Picked
<1>3. 0 \in S
  <2> DEFINE g == [s \in SUBSET D |-> 0]
  <2>1. ASSUME NEW s \in SUBSET D, Cardinality(s) <= 0
        PROVE  g[s] = Body(g, s)
    <3>1. Cardinality(s) = 0 /\ IsFiniteSet(s)
      BY <1>1, <2>1
    <3>2. s = {}
      BY <3>1, FS_EmptySet
    <3> QED BY <3>2
  <2>2. g \in [SUBSET D -> Int]
    OBVIOUS
  <2> HIDE DEF Body, g
  <2> QED BY <2>1, <2>2
<1>4. ASSUME NEW n \in Nat, n \in S
      PROVE  n + 1 \in S
  <2>1. PICK g \in [SUBSET D -> Int] :
               \A s \in SUBSET D : Cardinality(s) <= n => g[s] = Body(g, s)
    BY <1>4
  <2> DEFINE h == [s \in SUBSET D |-> Body(g, s)]
  <2>2. ASSUME NEW s \in SUBSET D
        PROVE  Body(g, s) \in Int
    <3>1. CASE s = {}
      BY <3>1
    <3>2. CASE s # {}
      <4>1. f[Picked(s)] \in Int /\ g[s \ {Picked(s)}] \in Int
        BY <1>2, <2>1, <3>2
      <4> QED BY <3>2, <4>1
    <3> QED BY <3>1, <3>2
  <2>3. h \in [SUBSET D -> Int]
    <3> HIDE DEF Body
    <3> QED BY <2>2
  <2>4. ASSUME NEW s \in SUBSET D, Cardinality(s) <= n + 1
        PROVE  h[s] = Body(h, s)
    <3>1. CASE s = {}
      BY <3>1
    <3>2. CASE s # {}
      <4>1. s \ {Picked(s)} \in SUBSET D /\ Cardinality(s \ {Picked(s)}) <= n
        BY <1>1, <1>2, <2>4, <3>2
      <4>2. h[s \ {Picked(s)}] = Body(g, s \ {Picked(s)})
        <5> HIDE DEF Body
        <5> QED BY <4>1
      <4>3. Body(g, s \ {Picked(s)}) = g[s \ {Picked(s)}]
        <5> HIDE DEF Body
        <5> QED BY <2>1, <4>1
      <4>4. h[s] = Body(g, s)
        <5> HIDE DEF Body
        <5> QED OBVIOUS
      <4> HIDE DEF h
      <4> QED BY <3>2, <4>2, <4>3, <4>4
    <3> QED BY <3>1, <3>2
  <2> HIDE DEF Body, h
  <2> QED BY <2>3, <2>4
<1>5. Cardinality(D) \in S
  <2>1. Cardinality(D) \in Nat
    BY FS_CardinalityType
  <2> HIDE DEF S
  <2> QED BY <1>3, <1>4, <2>1, NatInductionSet
<1>6. PICK g \in [SUBSET D -> Int] :
             \A s \in SUBSET D : Cardinality(s) <= Cardinality(D) => g[s] = Body(g, s)
  BY <1>5
<1>7. \A s \in SUBSET D : Cardinality(s) <= Cardinality(D)
  BY FS_Subset
<1>8. \A s \in SUBSET D : g[s] = Body(g, s)
  BY <1>6, <1>7
<1>9. SumsTo(f, D, g)
  BY <1>6, <1>8 DEF SumsTo
<1> QED BY <1>9

LEMMA SumIs ==
  ASSUME NEW D, IsFiniteSet(D), NEW f \in [D -> Int]
  PROVE  \E it : SumsTo(f, D, it) /\ SumFunction(f) = it[D]
<1> DEFINE Built(g) == g = [s \in SUBSET DOMAIN f |->
                              IF s = {} THEN 0
                              ELSE f[CHOOSE x \in s : TRUE] + g[s \ {CHOOSE x \in s : TRUE}]]
<1>1. PICK it : it = CHOOSE g : Built(g)
  OBVIOUS
<1>2. SumFunction(f) = it[DOMAIN f]
  BY <1>1 DEF SumFunction, SumFunctionOnSet, FoldFunctionOnSet, MapThenFoldSet
<1>3. PICK g : SumsTo(f, D, g)
  BY SumExists
<1>4. Built(g)
  <2>1. \A s \in SUBSET D : g[s] = IF s = {} THEN 0 ELSE f[Picked(s)] + g[s \ {Picked(s)}]
    BY <1>3 DEF SumsTo
  <2>2. g = [s \in SUBSET D |-> g[s]] /\ DOMAIN f = D
    BY <1>3 DEF SumsTo
  <2> QED BY <2>1, <2>2 DEF Picked
<1>5. Built(it)
  <2> HIDE DEF Built
  <2> QED BY <1>1, <1>4
<1>6. /\ DOMAIN f = D /\ it = [s \in SUBSET D |-> it[s]]
      /\ \A s \in SUBSET D : it[s] = IF s = {} THEN 0 ELSE f[Picked(s)] + it[s \ {Picked(s)}]
  <2>1. DOMAIN f = D
    OBVIOUS
  <2>2. it = [s \in SUBSET D |-> IF s = {} THEN 0 ELSE f[Picked(s)] + it[s \ {Picked(s)}]]
    BY <1>5, <2>1 DEF Picked
  <2>3. \A s \in SUBSET D : it[s] = IF s = {} THEN 0 ELSE f[Picked(s)] + it[s \ {Picked(s)}]
    BY <2>2
  <2>4. DOMAIN it = SUBSET D
    BY <2>2
  <2>5. it = [s \in SUBSET D |-> it[s]]
    BY <2>2, <2>4
  <2> QED BY <2>1, <2>3, <2>5
<1>7. \A s \in SUBSET D : it[s] \in Int
  <2> DEFINE S == {s \in SUBSET D : it[s] \in Int}
  <2>1. {} \in S
    <3>1. it[{}] = 0
      BY <1>6
    <3> QED BY <3>1
  <2>2. ASSUME NEW s \in SUBSET D, s # {}, s \ {Picked(s)} \in S
        PROVE  s \in S
    <3>1. Picked(s) \in D
      BY <2>2 DEF Picked
    <3>2. f[Picked(s)] \in Int /\ it[s \ {Picked(s)}] \in Int
      BY <2>2, <3>1
    <3>3. it[s] = f[Picked(s)] + it[s \ {Picked(s)}]
      BY <1>6, <2>2
    <3> QED BY <3>2, <3>3
  <2>3. \A s \in SUBSET D : s \in S
    <3> HIDE DEF S
    <3> QED BY <2>1, <2>2, SubsetInduction
  <2> QED BY <2>3
<1>8. SumsTo(f, D, it)
  BY <1>6, <1>7 DEF SumsTo
<1> QED BY <1>2, <1>6, <1>8

\* A sum changes by as much as the one entry that changes.
LEMMA SumStep ==
  ASSUME NEW D, IsFiniteSet(D), NEW f \in [D -> Int], NEW g \in [D -> Int], NEW a \in D,
         \A x \in D : x # a => g[x] = f[x]
  PROVE  SumFunction(g) = SumFunction(f) + g[a] - f[a]
<1>1. PICK u : SumsTo(f, D, u) /\ SumFunction(f) = u[D]
  BY SumIs
<1>2. PICK v : SumsTo(g, D, v) /\ SumFunction(g) = v[D]
  BY SumIs
<1> DEFINE S == {s \in SUBSET D : v[s] = u[s] + IF a \in s THEN g[a] - f[a] ELSE 0}
<1>3. {} \in S
  BY <1>1, <1>2 DEF SumsTo
<1>4. ASSUME NEW s \in SUBSET D, s # {}, s \ {Picked(s)} \in S
      PROVE  s \in S
  <2> DEFINE x == Picked(s)
             r == s \ {x}
  <2>1. x \in s /\ x \in D /\ r \in SUBSET D
    BY <1>4 DEF Picked
  <2>2. v[s] = g[x] + v[r] /\ u[s] = f[x] + u[r]
    BY <1>1, <1>2, <1>4 DEF SumsTo
  <2>3. v[r] = u[r] + IF a \in r THEN g[a] - f[a] ELSE 0
    BY <1>4
  <2>4. u[r] \in Int /\ f[x] \in Int /\ g[x] \in Int /\ f[a] \in Int /\ g[a] \in Int
    BY <1>1, <2>1 DEF SumsTo
  <2>5. a \in r <=> a \in s /\ a # x
    OBVIOUS
  <2> HIDE DEF x, r
  <2>6. CASE a = x
    BY <2>1, <2>2, <2>3, <2>4, <2>5, <2>6
  <2>7. CASE a # x
    <3>1. g[x] = f[x]
      BY <2>1, <2>7
    <3> QED BY <2>2, <2>3, <2>4, <2>5, <2>7, <3>1
  <2> QED BY <2>6, <2>7
<1>5. D \in S
  <2> HIDE DEF S
  <2> QED BY <1>3, <1>4, SubsetInduction
<1>6. u[D] \in Int /\ f[a] \in Int /\ g[a] \in Int
  BY <1>1 DEF SumsTo
<1> QED BY <1>1, <1>2, <1>5, <1>6

\* A sum of natural numbers is one, and nothing when they all are.
LEMMA SumOfNats ==
  ASSUME NEW D, IsFiniteSet(D), NEW f \in [D -> Nat]
  PROVE  /\ SumFunction(f) \in Nat
         /\ (\A x \in D : f[x] = 0) => SumFunction(f) = 0
<1>1. PICK u : SumsTo(f, D, u) /\ SumFunction(f) = u[D]
  BY SumIs
<1> DEFINE S == {s \in SUBSET D : u[s] \in Nat /\ ((\A x \in D : f[x] = 0) => u[s] = 0)}
<1>2. {} \in S
  BY <1>1 DEF SumsTo
<1>3. ASSUME NEW s \in SUBSET D, s # {}, s \ {Picked(s)} \in S
      PROVE  s \in S
  <2>1. Picked(s) \in D /\ f[Picked(s)] \in Nat
    BY <1>3 DEF Picked
  <2>2. u[s] = f[Picked(s)] + u[s \ {Picked(s)}]
    BY <1>1, <1>3 DEF SumsTo
  <2> QED BY <1>3, <2>1, <2>2
<1>4. D \in S
  <2> HIDE DEF S
  <2> QED BY <1>2, <1>3, SubsetInduction
<1> QED BY <1>1, <1>4

\* No entry of a sum of natural numbers is more than the sum.
LEMMA PartOfSum ==
  ASSUME NEW D, IsFiniteSet(D), NEW f \in [D -> Nat], NEW a \in D
  PROVE  f[a] <= SumFunction(f)
<1> DEFINE g == [f EXCEPT ![a] = 0]
<1>1. g \in [D -> Nat] /\ g[a] = 0 /\ \A x \in D : x # a => g[x] = f[x]
  OBVIOUS
<1> HIDE DEF g
<1>2. f \in [D -> Int] /\ g \in [D -> Int]
  BY <1>1
<1>3. SumFunction(g) = SumFunction(f) + g[a] - f[a]
  BY <1>1, <1>2, SumStep
<1>4. SumFunction(f) \in Nat /\ SumFunction(g) \in Nat
  BY <1>1, SumOfNats
<1>5. f[a] \in Nat
  OBVIOUS
<1> QED BY <1>1, <1>3, <1>4, <1>5

=============================================================================
