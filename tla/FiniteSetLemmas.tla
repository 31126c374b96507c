-------------------------- MODULE FiniteSetLemmas --------------------------
(* Facts about finite sets of numbers, and about sums over finite sets,    *)
(* that the proofs have in common.                                         *)
EXTENDS Aggregates, FiniteSetTheorems, TLAPS

\* Every finite non-empty set of numbers has a largest one: a smallest
\* subset without one would lose nothing by losing an element.
LEMMA MaxExists ==
    ASSUME NEW S, IsFiniteSet(S), S # {}, S \subseteq Nat
    PROVE  Max(S) \in S /\ \A y \in S : Max(S) >= y
<1> DEFINE HasMax(T) == \E x \in T : \A y \in T : x >= y
           Bad == {T \in SUBSET S : T # {} /\ ~HasMax(T)}
<1>1. SUFFICES HasMax(S)
  BY DEF Max
<1>2. SUFFICES ASSUME Bad # {} PROVE FALSE
  OBVIOUS
<1>3. IsWellFoundedOn(StrictSubsetOrdering(S), SUBSET S)
  BY FS_StrictSubsetOrderingWellFounded, FS_FiniteSubsetsOfFinite
<1>4. \E T \in Bad : \A U \in Bad : <<U, T>> \notin StrictSubsetOrdering(S)
  <2>1. Bad \subseteq SUBSET S
    OBVIOUS
  <2> HIDE DEF Bad
  <2> QED
    BY <1>2, <1>3, <2>1, WFMin
<1> PICK T \in Bad : \A U \in Bad : <<U, T>> \notin StrictSubsetOrdering(S)
  BY <1>4
<1>5. PICK x \in T : TRUE
  OBVIOUS
<1>6. T \ {x} \notin Bad
  <2>1. T \in SUBSET S /\ T \ {x} \in SUBSET S /\ T \ {x} # T
    OBVIOUS
  <2>2. <<T \ {x}, T>> \in StrictSubsetOrdering(S)
    BY <2>1 DEF StrictSubsetOrdering
  <2> HIDE DEF Bad
  <2> QED
    BY <2>2
<1>7. CASE T \ {x} = {}
  <2>1. T = {x} /\ x \in Nat
    BY <1>5, <1>7
  <2> QED
    BY <2>1
<1>8. CASE T \ {x} # {}
  <2>1. PICK m \in T \ {x} : \A y \in T \ {x} : m >= y
    BY <1>6, <1>8
  <2>2. m \in Nat /\ x \in Nat /\ T \subseteq Nat
    BY <1>5
  <2>3. CASE m >= x
    BY <2>1, <2>2, <2>3
  <2>4. CASE ~(m >= x)
    <3>1. \A y \in T : x >= y
      BY <2>1, <2>2, <2>4
    <3> QED
      BY <3>1
  <2> QED
    BY <2>3, <2>4
<1> QED
  BY <1>7, <1>8

\* The larger and the smaller of two numbers.
LEMMA MaxOfTwo ==
    ASSUME NEW a \in Nat, NEW b \in Nat
    PROVE  Max({a, b}) \in {a, b} /\ Max({a, b}) >= a /\ Max({a, b}) >= b
  BY DEF Max

LEMMA MinOfTwo ==
    ASSUME NEW a \in Nat, NEW b \in Nat
    PROVE  Min({a, b}) \in {a, b} /\ Min({a, b}) <= a /\ Min({a, b}) <= b
  BY DEF Min

\* A set without two different elements has at most one.
LEMMA AtMostOne ==
    ASSUME NEW T, \A x, y \in T : x = y
    PROVE  IsFiniteSet(T) /\ Cardinality(T) = IF T = {} THEN 0 ELSE 1
<1>1. CASE T = {}
  BY <1>1, FS_EmptySet
<1>2. CASE T # {}
  <2>1. PICK x \in T : TRUE
    BY <1>2
  <2>2. T = {x}
    BY <2>1
  <2> QED
    BY <1>2, <2>2, FS_Singleton
<1> QED
  BY <1>1, <1>2

\* A finite set of numbers can be listed in ascending order: the rank of an
\* element, the number of smaller ones, is a bijection, and its inverse a list.
LEMMA AscendingExists ==
    ASSUME NEW S, IsFiniteSet(S), S \subseteq Nat
    PROVE  \E s \in [1 .. Cardinality(S) -> S] :
               \A i, j \in 1 .. Cardinality(S) : i < j => s[i] < s[j]
<1> DEFINE n == Cardinality(S)
           below(x) == {y \in S : y < x}
           rank == [x \in S |-> Cardinality(below(x)) + 1]
<1>1. n \in Nat
  BY FS_CardinalityType
<1>2. \A x \in S : /\ IsFiniteSet(below(x)) /\ Cardinality(below(x)) \in Nat
                     /\ Cardinality(below(x)) < n
  <2> SUFFICES ASSUME NEW x \in S
               PROVE  /\ IsFiniteSet(below(x)) /\ Cardinality(below(x)) \in Nat
                      /\ Cardinality(below(x)) < n
    OBVIOUS
  <2>1. below(x) \in SUBSET S /\ x \notin below(x)
    OBVIOUS
  <2>2. IsFiniteSet(below(x)) /\ Cardinality(below(x)) <= n /\ below(x) # S
    BY <2>1, FS_Subset
  <2>3. Cardinality(below(x)) # n
    BY <2>1, <2>2, FS_Subset
  <2>4. Cardinality(below(x)) \in Nat
    BY <2>2, FS_CardinalityType
  <2> HIDE DEF below, n
  <2> QED
    BY <1>1, <2>2, <2>3, <2>4
<1>3. rank \in [S -> 1 .. n]
  <2> HIDE DEF below, n
  <2> QED
    BY <1>1, <1>2
<1>4. \A x, y \in S : x < y => rank[x] < rank[y]
  <2> SUFFICES ASSUME NEW x \in S, NEW y \in S, x < y
               PROVE  Cardinality(below(x)) < Cardinality(below(y))
    BY <1>2
  <2>1. below(x) \in SUBSET below(y) /\ x \in below(y) /\ x \notin below(x)
    <3>1. \A z \in S : z \in Nat
      OBVIOUS
    <3>2. ~(x < x) /\ \A z \in S : z < x => z < y
      BY <3>1
    <3> QED
      BY <3>2
  <2>2. Cardinality(below(x)) <= Cardinality(below(y))
        /\ Cardinality(below(x)) # Cardinality(below(y))
    BY <1>2, <2>1, FS_Subset
  <2> HIDE DEF below
  <2> QED
    BY <1>2, <2>2
<1> HIDE DEF rank, below
<1>5. \A x, y \in S : x = y \/ x < y \/ y < x
  OBVIOUS
<1>6. rank \in Injection(S, 1 .. n)
  <2>1. \A x, y \in S : rank[x] = rank[y] => x = y
    BY <1>1, <1>3, <1>4, <1>5
  <2> QED
    BY <1>3, <2>1 DEF Injection, IsInjective
<1>7. rank \in Surjection(S, 1 .. n)
  <2>1. IsFiniteSet(1 .. n) /\ Cardinality(1 .. n) = n
    BY <1>1, FS_Interval
  <2> QED
    BY <1>6, <2>1, FS_Injection
<1>8. \A i \in 1 .. n : \E x \in S : rank[x] = i
  BY <1>7 DEF Surjection
<1> DEFINE list == [i \in 1 .. n |-> CHOOSE x \in S : rank[x] = i]
<1>9. \A i \in 1 .. n : list[i] \in S /\ rank[list[i]] = i
  BY <1>8
<1>10. list \in [1 .. n -> S]
  BY <1>9
<1>11. ASSUME NEW i \in 1 .. n, NEW j \in 1 .. n, i < j
       PROVE  list[i] < list[j]
  <2> HIDE DEF list
  <2>1. list[i] \in S /\ list[j] \in S /\ rank[list[i]] = i /\ rank[list[j]] = j
    BY <1>9
  <2>2. i # j /\ ~(j < i)
    BY <1>1, <1>11
  <2>3. list[j] < list[i] => rank[list[j]] < rank[list[i]]
    BY <1>4, <2>1
  <2> QED
    BY <1>5, <2>1, <2>2, <2>3
<1> QED
  BY <1>10, <1>11

\* An ascending list as long as the set has every element, the largest last.
LEMMA AscendingCovers ==
    ASSUME NEW S, IsFiniteSet(S), S \subseteq Nat,
           NEW s \in [1 .. Cardinality(S) -> S],
           \A i, j \in 1 .. Cardinality(S) : i < j => s[i] < s[j]
    PROVE  \A x \in S : \E i \in 1 .. Cardinality(S) : s[i] = x
<1> DEFINE n == Cardinality(S)
<1>1. n \in Nat /\ IsFiniteSet(1 .. n) /\ Cardinality(1 .. n) = n
  BY FS_CardinalityType, FS_Interval
<1>2. \A i, j \in 1 .. n : s[i] = s[j] => i = j
  <2>1. \A i, j \in 1 .. n : i = j \/ i < j \/ j < i
    BY <1>1
  <2>2. \A i \in 1 .. n : s[i] \in Nat
    OBVIOUS
  <2> QED
    BY <2>1, <2>2
<1>3. s \in Injection(1 .. n, S)
  BY <1>2 DEF Injection, IsInjective
<1>4. s \in Surjection(1 .. n, S)
  BY <1>1, <1>3, FS_Injection
<1> QED
  BY <1>4 DEF Surjection

----------------------------------------------------------------------------
(* Induction.                                                              *)

\* Induction over the subsets of a finite set, for a property that is given as
\* the set of those that have it.
LEMMA SubsetInduction ==
    ASSUME NEW S, IsFiniteSet(S), NEW Good,
           \A T \in SUBSET S : (\A U \in SUBSET T : U # T => U \in Good) => T \in Good
    PROVE  S \in Good
<1> DEFINE Bad == {T \in SUBSET S : T \notin Good}
<1>1. SUFFICES ASSUME S \notin Good PROVE FALSE
  OBVIOUS
<1>2. IsWellFoundedOn(StrictSubsetOrdering(S), SUBSET S)
  BY FS_StrictSubsetOrderingWellFounded, FS_FiniteSubsetsOfFinite
<1>3. S \in Bad /\ Bad \subseteq SUBSET S
  BY <1>1
<1>4. \E T \in Bad : \A U \in Bad : <<U, T>> \notin StrictSubsetOrdering(S)
  <2> HIDE DEF Bad
  <2> QED
    BY <1>2, <1>3, WFMin
<1>5. PICK T \in Bad : \A U \in Bad : <<U, T>> \notin StrictSubsetOrdering(S)
  BY <1>4
<1>6. \A U \in SUBSET T : U # T => U \in Good
  <2> SUFFICES ASSUME NEW U \in SUBSET T, U # T, U \notin Good PROVE FALSE
    OBVIOUS
  <2>1. U \in Bad /\ U \in SUBSET S /\ T \in SUBSET S
    OBVIOUS
  <2>2. <<U, T>> \in StrictSubsetOrdering(S)
    BY <2>1 DEF StrictSubsetOrdering
  <2> HIDE DEF Bad
  <2> QED
    BY <1>5, <2>1, <2>2
<1> QED
  BY <1>6

\* The same, adding one element at a time.
LEMMA AddingInduction ==
    ASSUME NEW S, IsFiniteSet(S), NEW Good, {} \in Good,
           \A T \in SUBSET S : \A x \in S \ T : T \in Good => T \cup {x} \in Good
    PROVE  S \in Good
<1>1. ASSUME NEW T \in SUBSET S, \A U \in SUBSET T : U # T => U \in Good
      PROVE  T \in Good
  <2>1. CASE T = {}
    BY <2>1
  <2>2. CASE T # {}
    <3>1. PICK x \in T : TRUE
      BY <2>2
    <3> DEFINE U == T \ {x}
    <3>2. U \in SUBSET T /\ U # T /\ U \in SUBSET S /\ x \in S \ U /\ U \cup {x} = T
      BY <3>1
    <3> HIDE DEF U
    <3> QED
      BY <1>1, <3>2
  <2> QED
    BY <2>1, <2>2
<1> QED
  BY <1>1, SubsetInduction

----------------------------------------------------------------------------
(* The function that MapThenSumSet chooses.                                *)

Pick(S) == CHOOSE x \in S : TRUE
Adds(f, g, T) == g = [s \in SUBSET T |-> IF s = {} THEN 0 ELSE f[Pick(s)] + g[s \ {Pick(s)}]]
Chosen(f, T) == CHOOSE g : Adds(f, g, T)

LEMMA SumIsChosen == ASSUME NEW f, NEW S PROVE Total(f, S) = Chosen(f, S)[S]
  BY DEF Total, MapThenSumSet, MapThenFoldSet, Adds, Pick, Chosen

LEMMA Picked == ASSUME NEW S, S # {} PROVE Pick(S) \in S
  BY DEF Pick

\* Part of such a function is one for a part of the set.
LEMMA AddsPart ==
    ASSUME NEW f, NEW g, NEW T, Adds(f, g, T), NEW U \in SUBSET T
    PROVE  Adds(f, [s \in SUBSET U |-> g[s]], U)
<1> DEFINE h == [s \in SUBSET U |-> g[s]]
<1>1. \A s \in SUBSET U : s \in SUBSET T /\ s \ {Pick(s)} \in SUBSET U
  OBVIOUS
<1>2. \A s \in SUBSET T : g[s] = IF s = {} THEN 0 ELSE f[Pick(s)] + g[s \ {Pick(s)}]
  BY DEF Adds
<1>3. \A s \in SUBSET U : h[s] = IF s = {} THEN 0 ELSE f[Pick(s)] + h[s \ {Pick(s)}]
  BY <1>1, <1>2
<1>4. h = [s \in SUBSET U |-> IF s = {} THEN 0 ELSE f[Pick(s)] + h[s \ {Pick(s)}]]
  BY <1>3
<1> QED
  BY <1>4 DEF Adds

\* There is at most one.
LEMMA AddsOnce ==
    ASSUME NEW f, NEW g, NEW h, NEW T, IsFiniteSet(T), Adds(f, g, T), Adds(f, h, T)
    PROVE  g[T] = h[T]
<1> DEFINE Good == {s \in SUBSET T : g[s] = h[s]}
<1>1. ASSUME NEW s \in SUBSET T, \A U \in SUBSET s : U # s => U \in Good
      PROVE  s \in Good
  <2>1. /\ g[s] = IF s = {} THEN 0 ELSE f[Pick(s)] + g[s \ {Pick(s)}]
        /\ h[s] = IF s = {} THEN 0 ELSE f[Pick(s)] + h[s \ {Pick(s)}]
    BY DEF Adds
  <2>2. CASE s = {}
    BY <2>1, <2>2
  <2>3. CASE s # {}
    <3>1. s \ {Pick(s)} \in SUBSET s /\ s \ {Pick(s)} # s
      BY <2>3, Picked
    <3>2. g[s \ {Pick(s)}] = h[s \ {Pick(s)}]
      BY <1>1, <3>1
    <3> QED
      BY <2>1, <2>3, <3>2
  <2> QED
    BY <2>2, <2>3
<1> HIDE DEF Good
<1>2. T \in Good
  BY <1>1, SubsetInduction
<1> QED
  BY <1>2 DEF Good

\* There is one.
LEMMA AddsExists ==
    ASSUME NEW f, NEW S, IsFiniteSet(S)
    PROVE  Adds(f, Chosen(f, S), S)
<1> DEFINE Good == {T \in SUBSET S : \E g : Adds(f, g, T)}
<1>1. ASSUME NEW T \in SUBSET S, \A U \in SUBSET T : U # T => U \in Good
      PROVE  T \in Good
  <2> DEFINE V(s) == Chosen(f, s)[s]
             G == [s \in SUBSET T |-> IF s = {} THEN 0 ELSE f[Pick(s)] + V(s \ {Pick(s)})]
  <2>1. \A U \in SUBSET T : U # T => Adds(f, Chosen(f, U), U)
    BY <1>1 DEF Chosen
  <2>2. ASSUME NEW U \in SUBSET T, U # T
        PROVE  G[U] = V(U)
    <3>1. Chosen(f, U)[U] = IF U = {} THEN 0 ELSE f[Pick(U)] + Chosen(f, U)[U \ {Pick(U)}]
      BY <2>1, <2>2 DEF Adds
    <3>2. CASE U = {}
      BY <3>1, <3>2
    <3>3. CASE U # {}
      <4> DEFINE W == U \ {Pick(U)}
                 g == Chosen(f, U)
                 h == [s \in SUBSET W |-> g[s]]
      <4>1. W \in SUBSET U /\ W \in SUBSET T /\ W # T
        BY <2>2
      <4>2. IsFiniteSet(W)
        BY <4>1, FS_Subset
      <4>3. Adds(f, h, W)
        BY <2>1, <2>2, <4>1, AddsPart
      <4>4. Adds(f, Chosen(f, W), W)
        BY <2>1, <4>1
      <4>5. h[W] = Chosen(f, W)[W]
        <5> HIDE DEF h, W
        <5> QED
          BY <4>2, <4>3, <4>4, AddsOnce
      <4>6. g[W] = V(W)
        BY <4>5
      <4> QED
        BY <3>1, <3>3, <4>6
    <3> QED
      BY <3>2, <3>3
  <2>3. \A s \in SUBSET T : s # {} => s \ {Pick(s)} \in SUBSET T /\ s \ {Pick(s)} # T
    BY Picked
  <2>4. \A s \in SUBSET T : s # {} => G[s \ {Pick(s)}] = V(s \ {Pick(s)})
    <3> HIDE DEF G, V
    <3> QED
      BY <2>2, <2>3
  <2>5. G = [s \in SUBSET T |-> IF s = {} THEN 0 ELSE f[Pick(s)] + G[s \ {Pick(s)}]]
    <3> HIDE DEF V
    <3> QED
      BY <2>4
  <2>6. Adds(f, G, T)
    BY <2>5 DEF Adds
  <2> HIDE DEF G
  <2> QED
    BY <2>6
<1>2. S \in Good
  <2> HIDE DEF Good
  <2> QED
    BY <1>1, SubsetInduction
<1> QED
  BY <1>2 DEF Chosen

----------------------------------------------------------------------------
(* Sums.                                                                   *)

LEMMA SumEmpty == ASSUME NEW f PROVE Total(f, {}) = 0
<1>1. Adds(f, Chosen(f, {}), {})
  BY AddsExists, FS_EmptySet
<1>2. {} \in SUBSET {}
  OBVIOUS
<1>3. Chosen(f, {})[{}] = 0
  BY <1>1, <1>2 DEF Adds
<1> QED
  BY <1>3, SumIsChosen

LEMMA SumPicked ==
    ASSUME NEW f, NEW S, IsFiniteSet(S), S # {}
    PROVE  Total(f, S) = f[Pick(S)] + Total(f, S \ {Pick(S)})
<1> DEFINE g == Chosen(f, S)
           W == S \ {Pick(S)}
           h == [s \in SUBSET W |-> g[s]]
<1>1. Adds(f, g, S)
  BY AddsExists
<1>2. g[S] = f[Pick(S)] + g[W]
  <2>1. S \in SUBSET S
    OBVIOUS
  <2> QED
    BY <1>1, <2>1 DEF Adds
<1>3. W \in SUBSET S /\ IsFiniteSet(W)
  BY FS_Subset
<1>4. Adds(f, h, W)
  BY <1>1, <1>3, AddsPart
<1>5. Adds(f, Chosen(f, W), W)
  BY <1>3, AddsExists
<1>6. h[W] = Chosen(f, W)[W]
  <2> HIDE DEF h, W
  <2> QED
    BY <1>3, <1>4, <1>5, AddsOnce
<1>7. g[W] = Total(f, W)
  BY <1>6, SumIsChosen
<1> QED
  BY <1>2, <1>7, SumIsChosen

LEMMA SumInt ==
    ASSUME NEW S, IsFiniteSet(S), NEW f, \A x \in S : f[x] \in Int
    PROVE  Total(f, S) \in Int
<1> DEFINE Good == {T \in SUBSET S : Total(f, T) \in Int}
<1>1. ASSUME NEW T \in SUBSET S, \A U \in SUBSET T : U # T => U \in Good
      PROVE  T \in Good
  <2>1. CASE T = {}
    BY <2>1, SumEmpty
  <2>2. CASE T # {}
    <3>1. Pick(T) \in T
      BY <2>2, Picked
    <3> DEFINE U == T \ {Pick(T)}
    <3>2. U \in SUBSET T /\ U # T
      BY <3>1
    <3>3. Total(f, U) \in Int /\ f[Pick(T)] \in Int
      BY <1>1, <3>1, <3>2
    <3>4. IsFiniteSet(T)
      BY FS_Subset
    <3>5. Total(f, T) = f[Pick(T)] + Total(f, U)
      BY <2>2, <3>4, SumPicked
    <3> QED
      BY <3>3, <3>5
  <2> QED
    BY <2>1, <2>2
<1> HIDE DEF Good
<1>2. S \in Good
  BY <1>1, SubsetInduction
<1> QED
  BY <1>2 DEF Good

\* It does not matter which element is taken out of a sum.
LEMMA SumRemove ==
    ASSUME NEW S, IsFiniteSet(S), NEW f, \A x \in S : f[x] \in Int, NEW y \in S
    PROVE  Total(f, S) = f[y] + Total(f, S \ {y})
<1> DEFINE Good == {T \in SUBSET S : \A x \in T : Total(f, T) = f[x] + Total(f, T \ {x})}
<1>1. ASSUME NEW T \in SUBSET S, \A U \in SUBSET T : U # T => U \in Good
      PROVE  T \in Good
  <2> SUFFICES ASSUME NEW x \in T PROVE Total(f, T) = f[x] + Total(f, T \ {x})
    OBVIOUS
  <2>1. IsFiniteSet(T) /\ T # {}
    BY FS_Subset
  <2> DEFINE p == Pick(T)
             U == T \ {p}
             V == T \ {x}
             W == U \ {x}
  <2>2. p \in T /\ Total(f, T) = f[p] + Total(f, U)
    BY <2>1, Picked, SumPicked
  <2>3. CASE x = p
    BY <2>2, <2>3
  <2>4. CASE x # p
    <3>1. U \in SUBSET T /\ U # T /\ x \in U
      BY <2>2, <2>4
    <3>2. V \in SUBSET T /\ V # T /\ p \in V /\ V \ {p} = W
      BY <2>2, <2>4
    <3>3. Total(f, U) = f[x] + Total(f, W)
      BY <1>1, <3>1
    <3>4. Total(f, V) = f[p] + Total(f, W)
      BY <1>1, <3>2
    <3>5. f[x] \in Int /\ f[p] \in Int /\ Total(f, W) \in Int
      <4>1. W \in SUBSET S /\ IsFiniteSet(W)
        BY FS_Subset
      <4> QED
        BY <2>2, <4>1, SumInt
    <3> HIDE DEF p, U, V, W
    <3> QED
      BY <2>2, <3>3, <3>4, <3>5 DEF V
  <2> QED
    BY <2>3, <2>4
<1> HIDE DEF Good
<1>2. S \in Good
  BY <1>1, SubsetInduction
<1> QED
  BY <1>2 DEF Good

LEMMA SumAdd ==
    ASSUME NEW T, IsFiniteSet(T), NEW f, NEW y, y \notin T, \A x \in T \cup {y} : f[x] \in Int
    PROVE  Total(f, T \cup {y}) = f[y] + Total(f, T)
<1> DEFINE S == T \cup {y}
<1>1. IsFiniteSet(S) /\ y \in S /\ S \ {y} = T
  BY FS_AddElement
<1> HIDE DEF S
<1>2. \A x \in S : f[x] \in Int
  BY DEF S
<1>3. Total(f, S) = f[y] + Total(f, S \ {y})
  BY <1>1, <1>2, SumRemove
<1> QED
  BY <1>1, <1>3 DEF S

\* Functions that agree have the same sum.
LEMMA SumEqual ==
    ASSUME NEW S, IsFiniteSet(S), NEW f, NEW g, \A x \in S : f[x] \in Int /\ f[x] = g[x]
    PROVE  Total(f, S) = Total(g, S)
<1> DEFINE Good == {T \in SUBSET S : Total(f, T) = Total(g, T)}
<1>1. {} \in Good
  BY SumEmpty
<1>2. ASSUME NEW T \in SUBSET S, NEW y \in S \ T, T \in Good
      PROVE  T \cup {y} \in Good
  <2>1. IsFiniteSet(T)
    BY FS_Subset
  <2>2. Total(f, T \cup {y}) = f[y] + Total(f, T) /\ Total(g, T \cup {y}) = g[y] + Total(g, T)
    BY <2>1, SumAdd
  <2> QED
    BY <1>2, <2>2
<1> HIDE DEF Good
<1>3. S \in Good
  BY <1>1, <1>2, AddingInduction
<1> QED
  BY <1>3 DEF Good

\* Sums add up term by term.
LEMMA SumPlus ==
    ASSUME NEW S, IsFiniteSet(S), NEW f, NEW g, NEW h,
           \A x \in S : f[x] \in Int /\ g[x] \in Int /\ h[x] = f[x] + g[x]
    PROVE  Total(h, S) = Total(f, S) + Total(g, S)
<1> DEFINE Good == {T \in SUBSET S : Total(h, T) = Total(f, T) + Total(g, T)}
<1>1. {} \in Good
  BY SumEmpty
<1>2. ASSUME NEW T \in SUBSET S, NEW y \in S \ T, T \in Good
      PROVE  T \cup {y} \in Good
  <2>1. IsFiniteSet(T) /\ \A x \in S : h[x] \in Int
    BY FS_Subset
  <2>2. /\ Total(f, T \cup {y}) = f[y] + Total(f, T) /\ Total(g, T \cup {y}) = g[y] + Total(g, T)
        /\ Total(h, T \cup {y}) = h[y] + Total(h, T)
    BY <2>1, SumAdd
  <2>3. Total(f, T) \in Int /\ Total(g, T) \in Int
    BY <2>1, SumInt
  <2> QED
    BY <1>2, <2>2, <2>3
<1> HIDE DEF Good
<1>3. S \in Good
  BY <1>1, <1>2, AddingInduction
<1> QED
  BY <1>3 DEF Good

\* A smaller function has no larger sum.
LEMMA SumAtMost ==
    ASSUME NEW S, IsFiniteSet(S), NEW f, NEW g,
           \A x \in S : f[x] \in Int /\ g[x] \in Int /\ f[x] <= g[x]
    PROVE  Total(f, S) <= Total(g, S)
<1> DEFINE Good == {T \in SUBSET S : Total(f, T) <= Total(g, T)}
<1>1. {} \in Good
  BY SumEmpty
<1>2. ASSUME NEW T \in SUBSET S, NEW y \in S \ T, T \in Good
      PROVE  T \cup {y} \in Good
  <2>1. IsFiniteSet(T)
    BY FS_Subset
  <2>2. Total(f, T \cup {y}) = f[y] + Total(f, T) /\ Total(g, T \cup {y}) = g[y] + Total(g, T)
    BY <2>1, SumAdd
  <2>3. Total(f, T) \in Int /\ Total(g, T) \in Int
    BY <2>1, SumInt
  <2> QED
    BY <1>2, <2>2, <2>3
<1> HIDE DEF Good
<1>3. S \in Good
  BY <1>1, <1>2, AddingInduction
<1> QED
  BY <1>3 DEF Good

LEMMA SumConstant ==
    ASSUME NEW S, IsFiniteSet(S), NEW f, NEW c \in Int, \A x \in S : f[x] = c
    PROVE  Total(f, S) = Cardinality(S) * c
<1> DEFINE Good == {T \in SUBSET S : Total(f, T) = Cardinality(T) * c}
<1>1. {} \in Good
  BY SumEmpty, FS_EmptySet
<1>2. ASSUME NEW T \in SUBSET S, NEW y \in S \ T, T \in Good
      PROVE  T \cup {y} \in Good
  <2>1. IsFiniteSet(T)
    BY FS_Subset
  <2>2. Total(f, T \cup {y}) = c + Total(f, T)
    BY <2>1, SumAdd, ZenonT(60)
  <2>3. Cardinality(T \cup {y}) = Cardinality(T) + 1 /\ Cardinality(T) \in Nat
    BY <2>1, FS_AddElement, FS_CardinalityType
  <2>4. (Cardinality(T) + 1) * c = Cardinality(T) * c + c
    BY <2>3
  <2> QED
    BY <1>2, <2>2, <2>3, <2>4
<1> HIDE DEF Good
<1>3. S \in Good
  BY <1>1, <1>2, AddingInduction
<1> QED
  BY <1>3 DEF Good

LEMMA SumZero ==
    ASSUME NEW S, IsFiniteSet(S), NEW f, \A x \in S : f[x] = 0
    PROVE  Total(f, S) = 0
<1>1. Total(f, S) = Cardinality(S) * 0 /\ Cardinality(S) \in Nat
  BY SumConstant, FS_CardinalityType
<1> QED
  BY <1>1

\* Sums of natural numbers.
LEMMA SumNat ==
    ASSUME NEW S, IsFiniteSet(S), NEW f, \A x \in S : f[x] \in Nat
    PROVE  Total(f, S) \in Nat
<1> DEFINE z == [x \in S |-> 0]
<1>1. \A x \in S : z[x] = 0 /\ z[x] \in Int /\ f[x] \in Int /\ z[x] <= f[x]
  OBVIOUS
<1> HIDE DEF z
<1>2. Total(z, S) = 0 /\ Total(z, S) <= Total(f, S) /\ Total(f, S) \in Int
  BY <1>1, SumZero, SumAtMost, SumInt
<1> QED
  BY <1>2

\* A factor of every term is a factor of the sum.
LEMMA SumTimes ==
    ASSUME NEW S, IsFiniteSet(S), NEW f, NEW g, NEW c \in Int,
           \A x \in S : f[x] \in Int /\ g[x] = c * f[x]
    PROVE  Total(g, S) = c * Total(f, S)
<1> DEFINE Good == {T \in SUBSET S : Total(g, T) = c * Total(f, T)}
<1>1. {} \in Good
  BY SumEmpty
<1>2. ASSUME NEW T \in SUBSET S, NEW y \in S \ T, T \in Good
      PROVE  T \cup {y} \in Good
  <2>1. IsFiniteSet(T) /\ \A x \in S : g[x] \in Int
    BY FS_Subset
  <2>2. Total(f, T \cup {y}) = f[y] + Total(f, T) /\ Total(g, T \cup {y}) = g[y] + Total(g, T)
    BY <2>1, SumAdd
  <2>3. Total(f, T) \in Int /\ f[y] \in Int
    BY <2>1, SumInt
  <2>4. c * (f[y] + Total(f, T)) = c * f[y] + c * Total(f, T)
    BY <2>3
  <2> QED
    BY <1>2, <2>2, <2>4
<1> HIDE DEF Good
<1>3. S \in Good
  BY <1>1, <1>2, AddingInduction
<1> QED
  BY <1>3 DEF Good

\* The sum over two sets that have nothing in common.
LEMMA SumUnion ==
    ASSUME NEW S, IsFiniteSet(S), NEW R, IsFiniteSet(R), S \cap R = {},
           NEW f, \A x \in S \cup R : f[x] \in Int
    PROVE  Total(f, S \cup R) = Total(f, S) + Total(f, R)
<1> DEFINE Good == {T \in SUBSET S : Total(f, T \cup R) = Total(f, T) + Total(f, R)}
<1>0. Total(f, R) \in Int
  BY SumInt
<1>1. {} \in Good
  <2>1. {} \cup R = R
    OBVIOUS
  <2> QED
    BY <1>0, <2>1, SumEmpty
<1>2. ASSUME NEW T \in SUBSET S, NEW y \in S \ T, T \in Good
      PROVE  T \cup {y} \in Good
  <2>1. IsFiniteSet(T) /\ IsFiniteSet(T \cup R)
    BY FS_Subset, FS_Union
  <2>2. y \notin T \cup R /\ (T \cup {y}) \cup R = (T \cup R) \cup {y}
    OBVIOUS
  <2>3. Total(f, T \cup {y}) = f[y] + Total(f, T)
    BY <2>1, SumAdd
  <2>4. Total(f, (T \cup R) \cup {y}) = f[y] + Total(f, T \cup R)
    BY <2>1, <2>2, SumAdd
  <2>5. Total(f, T) \in Int /\ f[y] \in Int
    BY <2>1, SumInt
  <2>6. Total(f, (T \cup {y}) \cup R) = f[y] + Total(f, T \cup R)
    BY <2>2, <2>4, Zenon
  <2>7. Total(f, T \cup R) = Total(f, T) + Total(f, R)
    BY <1>2
  <2>8. Total(f, (T \cup {y}) \cup R) = Total(f, T \cup {y}) + Total(f, R)
    BY <1>0, <2>3, <2>5, <2>6, <2>7
  <2> QED
    BY <2>8
<1> HIDE DEF Good
<1>3. S \in Good
  BY <1>1, <1>2, AddingInduction
<1> QED
  BY <1>3 DEF Good

\* Terms that are zero can be left out.
LEMMA SumSupport ==
    ASSUME NEW S, IsFiniteSet(S), NEW R \in SUBSET S,
           NEW f, \A x \in S : f[x] \in Int, \A x \in S \ R : f[x] = 0
    PROVE  Total(f, S) = Total(f, R)
<1> DEFINE Q == S \ R
<1>1. Q \cup R = S /\ Q \cap R = {} /\ IsFiniteSet(Q) /\ IsFiniteSet(R)
  BY FS_Subset
<1>2. \A x \in Q : f[x] = 0
  OBVIOUS
<1> HIDE DEF Q
<1>3. Total(f, Q) = 0 /\ Total(f, R) \in Int
  BY <1>1, <1>2, SumZero, SumInt
<1>4. Total(f, Q \cup R) = Total(f, Q) + Total(f, R)
  BY <1>1, SumUnion
<1>5. Total(f, S) = Total(f, Q) + Total(f, R)
  BY <1>1, <1>4, Zenon
<1> QED
  BY <1>3, <1>5

\* Another value for one element.
LEMMA SumChange ==
    ASSUME NEW S, IsFiniteSet(S), NEW y \in S, NEW f, NEW g,
           \A x \in S : f[x] \in Int /\ g[x] \in Int, \A x \in S \ {y} : f[x] = g[x]
    PROVE  Total(g, S) = Total(f, S) - f[y] + g[y]
<1> DEFINE T == S \ {y}
<1>1. IsFiniteSet(T)
  BY FS_Subset
<1>2. Total(f, S) = f[y] + Total(f, T) /\ Total(g, S) = g[y] + Total(g, T)
  BY SumRemove
<1>3. Total(f, T) = Total(g, T) /\ Total(f, T) \in Int
  BY <1>1, SumEqual, SumInt
<1> QED
  BY <1>2, <1>3

\* A matrix of numbers, the same matrix by columns, and the sums of its rows.
Matrix(F, S, R) == \A x \in S, y \in R : F[x][y] \in Int
Transposed(G, F, S, R) == \A x \in S, y \in R : G[y][x] = F[x][y]
RowSums(row, F, S, R) == \A x \in S : row[x] = Total(F[x], R)

\* The order of two sums does not matter.
LEMMA SumSwap ==
    ASSUME NEW S, IsFiniteSet(S), NEW R, IsFiniteSet(R),
           NEW F, Matrix(F, S, R), NEW G, Transposed(G, F, S, R),
           NEW row, RowSums(row, F, S, R), NEW col, RowSums(col, G, R, S)
    PROVE  Total(row, S) = Total(col, R)
<1> USE DEF Matrix, Transposed, RowSums
<1> DEFINE Part(T) == [y \in R |-> Total(G[y], T)]
           Good == {T \in SUBSET S : Total(row, T) = Total(Part(T), R)}
<1>1. \A x \in S : row[x] \in Int
  BY SumInt
<1>2. {} \in Good
  <2>1. \A y \in R : Part({})[y] = 0
    BY SumEmpty
  <2> QED
    BY <2>1, SumEmpty, SumZero
<1>3. ASSUME NEW T \in SUBSET S, NEW z \in S \ T, T \in Good
      PROVE  T \cup {z} \in Good
  <2>1. IsFiniteSet(T)
    BY FS_Subset
  <2>2. Total(row, T \cup {z}) = row[z] + Total(row, T)
    BY <1>1, <2>1, SumAdd
  <2>3. ASSUME NEW y \in R
        PROVE  Part(T)[y] \in Int /\ Part(T \cup {z})[y] = F[z][y] + Part(T)[y]
    <3>1. \A x \in S : G[y][x] \in Int /\ G[y][x] = F[x][y]
      OBVIOUS
    <3>2. Total(G[y], T) \in Int /\ Total(G[y], T \cup {z}) = G[y][z] + Total(G[y], T)
      BY <2>1, <3>1, SumInt, SumAdd
    <3> QED
      BY <3>1, <3>2
  <2>4. Total(Part(T \cup {z}), R) = Total(F[z], R) + Total(Part(T), R)
    <3> HIDE DEF Part
    <3>1. \A y \in R : F[z][y] \in Int
      OBVIOUS
    <3>2. \A y \in R : /\ F[z][y] \in Int /\ Part(T)[y] \in Int
                       /\ Part(T \cup {z})[y] = F[z][y] + Part(T)[y]
      BY <2>3, <3>1
    <3> DEFINE a == F[z]
               b == Part(T)
               c == Part(T \cup {z})
    <3>3. \A y \in R : a[y] \in Int /\ b[y] \in Int /\ c[y] = a[y] + b[y]
      BY <3>2
    <3> HIDE DEF a, b, c
    <3>4. Total(c, R) = Total(a, R) + Total(b, R)
      BY <3>3, SumPlus
    <3> QED
      BY <3>4 DEF a, b, c
  <2> HIDE DEF Part
  <2> QED
    BY <1>3, <2>2, <2>4
<1>4. S \in Good
  <2> HIDE DEF Good
  <2> QED
    BY <1>2, <1>3, AddingInduction
<1>5. Total(Part(S), R) = Total(col, R)
  <2>1. \A y \in R : Part(S)[y] \in Int /\ Part(S)[y] = col[y]
    BY SumInt
  <2> HIDE DEF Part
  <2> QED
    BY <2>1, SumEqual
<1> QED
  BY <1>4, <1>5

\* The terms of a sum under other names.
LEMMA SumRename ==
    ASSUME NEW S, IsFiniteSet(S), NEW R, NEW m \in [S -> R],
           \A x, y \in S : m[x] = m[y] => x = y, \A z \in R : \E x \in S : m[x] = z,
           NEW f, NEW g, \A x \in S : f[x] \in Int /\ g[m[x]] = f[x]
    PROVE  Total(f, S) = Total(g, R)
<1> DEFINE Image(T) == {m[x] : x \in T}
           Good == {T \in SUBSET S : IsFiniteSet(Image(T)) /\ Total(f, T) = Total(g, Image(T))}
<1>1. {} \in Good
  <2>1. Image({}) = {}
    OBVIOUS
  <2> QED
    BY <2>1, SumEmpty, FS_EmptySet
<1>2. ASSUME NEW T \in SUBSET S, NEW y \in S \ T, T \in Good
      PROVE  T \cup {y} \in Good
  <2>1. IsFiniteSet(T)
    BY FS_Subset
  <2>2. Image(T \cup {y}) = Image(T) \cup {m[y]} /\ m[y] \notin Image(T)
    OBVIOUS
  <2>3. \A z \in Image(T) \cup {m[y]} : g[z] \in Int
    OBVIOUS
  <2>4. IsFiniteSet(Image(T)) /\ Total(f, T) = Total(g, Image(T))
    BY <1>2
  <2> HIDE DEF Image, Good
  <2>5. Total(f, T \cup {y}) = f[y] + Total(f, T)
    BY <2>1, SumAdd
  <2>6. Total(g, Image(T) \cup {m[y]}) = g[m[y]] + Total(g, Image(T))
    BY <2>2, <2>3, <2>4, SumAdd
  <2>7. IsFiniteSet(Image(T) \cup {m[y]})
    BY <2>4, FS_AddElement
  <2>8. Total(f, T \cup {y}) = Total(g, Image(T \cup {y})) /\ IsFiniteSet(Image(T \cup {y}))
    BY <2>2, <2>4, <2>5, <2>6, <2>7
  <2> QED
    BY <2>8 DEF Good
<1>3. S \in Good
  <2> HIDE DEF Good
  <2> QED
    BY <1>1, <1>2, AddingInduction
<1>4. Image(S) = R
  OBVIOUS
<1> QED
  BY <1>3, <1>4

\* The list of the elements of a set.
LEMMA AscendingIs ==
    ASSUME NEW S, IsFiniteSet(S), S \subseteq Nat
    PROVE  /\ Ascending(S) \in [1 .. Cardinality(S) -> S]
           /\ \A j, k \in 1 .. Cardinality(S) : j < k => Ascending(S)[j] < Ascending(S)[k]
           /\ \A j, k \in 1 .. Cardinality(S) : Ascending(S)[j] = Ascending(S)[k] => j = k
           /\ \A x \in S : \E k \in 1 .. Cardinality(S) : Ascending(S)[k] = x
<1> DEFINE a == Ascending(S)
           n == Cardinality(S)
           Sorted(s) == \A j, k \in DOMAIN s : j < k => s[j] < s[k]
<1>1. n \in Nat
  BY FS_CardinalityType
<1>2. \E s \in [1 .. n -> S] : Sorted(s)
  BY AscendingExists
<1>3. a = CHOOSE s \in [1 .. n -> S] : Sorted(s)
  BY DEF Ascending
<1> HIDE DEF a, Sorted, n
<1>4. a \in [1 .. n -> S] /\ Sorted(a)
  BY <1>2, <1>3
<1>5. \A j, k \in 1 .. n : j < k => a[j] < a[k]
  BY <1>4 DEF Sorted
<1>6. \A j, k \in 1 .. n : a[j] = a[k] => j = k
  <2>1. \A j, k \in 1 .. n : j = k \/ j < k \/ k < j
    BY <1>1
  <2>2. \A j \in 1 .. n : a[j] \in Nat
    BY <1>4
  <2> QED
    BY <1>5, <2>1, <2>2
<1>7. \A x \in S : \E k \in 1 .. n : a[k] = x
  BY <1>4, <1>5, AscendingCovers DEF n
<1> QED
  BY <1>4, <1>5, <1>6, <1>7 DEF a, n

\* The sum over part of a set of numbers.
LEMMA SumPart ==
    ASSUME NEW S, IsFiniteSet(S), NEW R, R \subseteq S, NEW f, \A x \in S : f[x] \in Nat
    PROVE  Total(f, R) <= Total(f, S) /\ Total(f, R) \in Nat /\ Total(f, S) \in Nat
<1> DEFINE D == S \ R
<1>1. IsFiniteSet(R) /\ IsFiniteSet(D) /\ R \cap D = {} /\ R \cup D = S
  BY FS_Subset
<1>2. (\A x \in R : f[x] \in Nat) /\ (\A x \in D : f[x] \in Nat) /\ \A x \in R \cup D : f[x] \in Int
  OBVIOUS
<1> HIDE DEF D
<1>3. Total(f, R) \in Nat /\ Total(f, D) \in Nat
  BY <1>1, <1>2, SumNat
<1>4. Total(f, R \cup D) = Total(f, R) + Total(f, D)
  BY <1>1, <1>2, SumUnion
<1>5. Total(f, S) = Total(f, R) + Total(f, D)
  BY <1>1, <1>4, Zenon
<1> QED
  BY <1>3, <1>5

LEMMA ImageFinite ==
    ASSUME NEW S, IsFiniteSet(S), NEW f
    PROVE  IsFiniteSet({f[x] : x \in S})
<1> DEFINE g == [x \in S |-> f[x]]
<1>1. g \in Surjection(S, {f[x] : x \in S})
  BY DEF Surjection
<1> QED
  BY <1>1, FS_Surjection

\* The smallest number is the farthest from the largest.
LEMMA MinExists ==
    ASSUME NEW S, IsFiniteSet(S), S # {}, S \subseteq Nat
    PROVE  Min(S) \in S /\ \A y \in S : Min(S) <= y
<1> DEFINE m == Max(S)
           f == [x \in S |-> m - x]
           T == {f[x] : x \in S}
<1>1. m \in Nat /\ \A y \in S : m >= y
  BY MaxExists
<1>2. IsFiniteSet(T)
  <2> HIDE DEF f
  <2> QED
    BY ImageFinite
<1> HIDE DEF m
<1>3. T # {} /\ T \subseteq Nat
  <2>1. \A x \in S : f[x] \in Nat
    BY <1>1
  <2> HIDE DEF f
  <2> QED
    BY <2>1
<1>4. Max(T) \in T /\ \A y \in T : Max(T) >= y
  <2> HIDE DEF T
  <2> QED
    BY <1>2, <1>3, MaxExists
<1>5. PICK x \in S : Max(T) = m - x
  BY <1>4
<1>6. \A y \in S : m - x >= m - y
  BY <1>4, <1>5
<1>7. \A y \in S : x <= y
  BY <1>1, <1>6
<1> QED
  BY <1>7 DEF Min
=============================================================================
