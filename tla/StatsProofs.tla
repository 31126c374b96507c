---------------------------- MODULE StatsProofs ----------------------------
(***************************************************************************)
(* Proofs about Stats, for all grids, intervals, batches and crashes: what *)
(* the cache shows, how often the history counts a batch, and when all     *)
(* that was written to the log is counted.                                 *)
(***************************************************************************)
EXTENDS Stats, FiniteSetLemmas, SequenceTheorems

Work == [Messages -> Nat]

Records == {r \in [id : Nat, msg : Messages, begin : Nat, end : Nat] : r.begin <= r.end}

LogFiles == [name : Nat, last : Nat, records : Seq(Records)]

IsCells(f) == IsFiniteSet(DOMAIN f) /\ f \in [DOMAIN f -> Work]

IsCache(f) == IsFiniteSet(DOMAIN f) /\ f \in [DOMAIN f -> [last : Nat, work : Work]]

\* A series with work has an interval, and has accepted what it has saved.
IsSeries(x) ==
    /\ x = [current |-> x.current, begin |-> x.begin, end |-> x.end,
            accepted |-> x.accepted, saved |-> x.saved, recent |-> x.recent]
    /\ x.current \subseteq Messages
    /\ {x.begin, x.end, x.accepted, x.saved} \subseteq Nat
    /\ x.saved <= x.accepted
    /\ x.current # {} => x.begin <= x.end
    /\ IsCells(x.recent)

Typed ==
    /\ now \in Nat /\ up \in 0 .. Up
    /\ DOMAIN series = Series /\ DOMAIN cache = Series /\ DOMAIN history = Series
    /\ \A s \in Series : IsSeries(series[s]) /\ IsCache(cache[s]) /\ IsCells(history[s])
    /\ logs \in Seq(LogFiles) /\ logs # <<>>
    /\ buffer \in Seq(Records) /\ nextId \in Nat \ {0}
    /\ received \in 0 .. MaxMessages /\ doubling \in Nat

\* The files are the recent cells, and the history has all they show.
Cached(x, f) == x.recent = [c \in DOMAIN f |-> f[c].work]

InCells(f, h) ==
    \A c \in DOMAIN f : c \in DOMAIN h /\ \A m \in Messages : f[c].work[m] <= h[c][m]

CacheInv ==
    /\ up # 0 => \A s \in Series : Cached(series[s], cache[s])
    /\ \A s \in Series : InCells(cache[s], history[s])

Logged(fs) == UNION {Range(fs[i].records) : i \in DOMAIN fs}
Kept == Logged(logs) \cup Range(buffer)

\* The last id that series s has saved, as far as the process knows it now or
\* will know it after the start.
SavedId(s) == IF up = 0 THEN Load(cache[s]).saved ELSE series[s].saved

\* The work of batch m in some cells.
CellSum(f, m) == Total([c \in DOMAIN f |-> f[c][m]], DOMAIN f)

\* The series x and its history h know only the first n batches.
Known(x, h, n) ==
    /\ \A m \in x.current : m <= n
    /\ \A m \in Messages : m > n => CellSum(h, m) = 0

FromMessages ==
    /\ \A r \in Kept : r.msg <= received
    /\ \A s \in Series : Known(series[s], history[s], received)

OneRecord == \A r, q \in Kept : r.msg = q.msg => r = q

\* The history h counts every batch at most once, and once more for each of d
\* crashes.  A batch that waits in the series x has one less, and a batch of
\* the log K that has them all is not replayed.
Counted(x, h, K, saved, d) ==
    /\ \A m \in Messages : CellSum(h, m) <= Units * d + Units
    /\ \A m \in x.current : CellSum(h, m) <= Units * d
    /\ \A r \in K : CellSum(h, r.msg) > Units * d => r.id <= saved
    /\ \A r \in K : r.msg \in x.current => r.id <= x.accepted

CountInv == \A s \in Series : Counted(series[s], history[s], Kept, SavedId(s), doubling)

StatsInv == Typed /\ CacheInv /\ FromMessages /\ OneRecord /\ CountInv

LEMMA GridIs ==
    /\ Series = 1 .. Len(GridInterval) /\ Len(GridInterval) \in Nat \ {0}
    /\ Up = Len(GridInterval) + 1
    /\ \A s \in Series : GridInterval[s] \in Nat \ {0} /\ s \in 1 .. Up - 1
<1>1. GridInterval \in Seq(Nat \ {0}) /\ GridInterval # <<>>
  BY StatsAssumptions
<1> QED
  BY <1>1 DEF Series, Up

----------------------------------------------------------------------------
(* A flush spreads the work of an interval over cells: the shares of a     *)
(* batch in the cells are no more than the whole.                          *)

LEMMA MaxInt ==
    ASSUME NEW a \in Int, NEW b \in Int
    PROVE  Max({a, b}) = IF a >= b THEN a ELSE b
<1>1. \E x \in {a, b} : \A y \in {a, b} : x >= y
  OBVIOUS
<1>2. Max({a, b}) \in {a, b} /\ \A y \in {a, b} : Max({a, b}) >= y
  BY <1>1 DEF Max
<1> QED
  BY <1>2

LEMMA MinInt ==
    ASSUME NEW a \in Int, NEW b \in Int
    PROVE  Min({a, b}) = IF a <= b THEN a ELSE b
<1>1. \E x \in {a, b} : \A y \in {a, b} : x <= y
  OBVIOUS
<1>2. Min({a, b}) \in {a, b} /\ \A y \in {a, b} : Min({a, b}) <= y
  BY <1>1 DEF Min
<1> QED
  BY <1>2

\* Cells of one grid do not overlap.
LEMMA CellsApart ==
    ASSUME NEW g \in Nat \ {0}, NEW c \in Nat, NEW e \in Nat, c % g = 0, e % g = 0,
           NEW t \in Int, c - g <= t, t < c, e - g <= t, t < e
    PROVE  c = e
<1>1. PICK i \in Nat : c = i * g
  OBVIOUS
<1>2. PICK j \in Nat : e = j * g
  OBVIOUS
<1>3. ASSUME NEW k \in Nat, NEW l \in Nat, k < l PROVE k * g + g <= l * g
  <2>1. (l - k) * g >= g
    BY <1>3
  <2>2. (l - k) * g = l * g - k * g
    OBVIOUS
  <2> QED
    BY <2>1, <2>2
<1>4. ~(i < j) /\ ~(j < i)
  BY <1>1, <1>2, <1>3
<1> QED
  BY <1>1, <1>2, <1>4

\* A sum is at least each of its terms.
LEMMA SumTerm ==
    ASSUME NEW S, IsFiniteSet(S), NEW f, \A x \in S : f[x] \in Nat, NEW y \in S
    PROVE  f[y] <= Total(f, S)
<1> DEFINE T == S \ {y}
<1>1. IsFiniteSet(T) /\ \A x \in T : f[x] \in Nat
  BY FS_Subset
<1>2. Total(f, S) = f[y] + Total(f, T)
  BY SumRemove
<1> HIDE DEF T
<1>3. Total(f, T) \in Nat
  BY <1>1, SumNat
<1> QED
  BY <1>2, <1>3

\* A sum with at most one term.
LEMMA OneTerm ==
    ASSUME NEW S, IsFiniteSet(S), NEW f, NEW k \in Nat, \A x \in S : f[x] \in Nat /\ f[x] <= k,
           \A x, y \in S : f[x] # 0 /\ f[y] # 0 => x = y
    PROVE  Total(f, S) <= k
<1>1. CASE \A x \in S : f[x] = 0
  BY <1>1, SumZero
<1>2. CASE \E x \in S : f[x] # 0
  <2>1. PICK y \in S : f[y] # 0
    BY <1>2
  <2> DEFINE T == S \ {y}
  <2>2. IsFiniteSet(T) /\ \A x \in T : f[x] = 0
    BY <2>1, FS_Subset
  <2> HIDE DEF T
  <2>3. Total(f, T) = 0
    BY <2>2, SumZero
  <2>4. Total(f, S) = f[y] + Total(f, S \ {y})
    BY SumRemove
  <2> QED
    BY <2>3, <2>4 DEF T
<1> QED
  BY <1>1, <1>2

OnGrid(D, g) == IsFiniteSet(D) /\ \A c \in D : c \in Nat /\ c % g = 0

\* len[c] is how much of the interval from b to e lies in cell c.
Lengths(len, D, b, e, g) ==
    \A c \in D : len[c] = Max({0, Min({e, c}) - Max({b, c - g})})

\* Every moment from b to e is in a cell of D.
Covered(D, b, e, g) == \A t \in b .. e - 1 : \E c \in D : c - g <= t /\ t < c

\* The parts of an interval that lie in different cells are no longer than the
\* interval, and as long when the cells cover it: count the moments of the
\* interval by cell, or the cells by moment.
LEMMA LengthSum ==
    ASSUME NEW b \in Nat, NEW e \in Nat, b < e, NEW g \in Nat \ {0},
           NEW D, OnGrid(D, g), NEW len, Lengths(len, D, b, e, g)
    PROVE  /\ Total(len, D) <= e - b
           /\ Covered(D, b, e, g) => Total(len, D) >= e - b
<1> DEFINE M == b .. e - 1
           In(c, t) == IF c - g <= t /\ t < c THEN 1 ELSE 0
           F == [c \in D |-> [t \in M |-> In(c, t)]]
           G == [t \in M |-> [c \in D |-> In(c, t)]]
           row == [c \in D |-> Total(F[c], M)]
           col == [t \in M |-> Total(G[t], D)]
           one == [t \in M |-> 1]
<1>1. IsFiniteSet(M) /\ Cardinality(M) = e - b
  <2> DEFINE last == e - 1
  <2>1. b \in Int /\ last \in Int
    OBVIOUS
  <2> HIDE DEF last
  <2>2. IsFiniteSet(b .. last) /\ Cardinality(b .. last) = IF b > last THEN 0 ELSE last - b + 1
    BY <2>1, FS_Interval
  <2> QED
    BY <2>2 DEF last
<1>0. IsFiniteSet(D)
  BY DEF OnGrid
<1>2. ASSUME NEW c \in D PROVE row[c] = len[c] /\ len[c] \in Int
  <2> DEFINE lo == IF b >= c - g THEN b ELSE c - g
             hi == IF e <= c THEN e ELSE c
             R == lo .. hi - 1
             f == F[c]
  <2>1. c \in Nat /\ len[c] = Max({0, hi - lo})
    <3>0. len[c] = Max({0, Min({e, c}) - Max({b, c - g})})
      BY DEF Lengths
    <3>1. c \in Nat /\ c - g \in Int
      BY DEF OnGrid
    <3>2. Max({b, c - g}) = lo
      BY <3>1, MaxInt
    <3>3. Min({e, c}) = hi
      BY <3>1, MinInt
    <3> QED
      BY <3>0, <3>1, <3>2, <3>3
  <2>2. lo \in Int /\ hi \in Int /\ len[c] = IF 0 >= hi - lo THEN 0 ELSE hi - lo
    BY <2>1, MaxInt
  <2>3. R \in SUBSET M /\ IsFiniteSet(R) /\ Cardinality(R) = len[c]
    <3>1. \A t \in R : t \in M
      BY <2>1, <2>2
    <3>2. IsFiniteSet(R) /\ Cardinality(R) = IF lo > hi - 1 THEN 0 ELSE hi - 1 - lo + 1
      <4> DEFINE last == hi - 1
      <4>1. lo \in Int /\ last \in Int
        BY <2>2
      <4> HIDE DEF lo, hi, last
      <4>2. IsFiniteSet(lo .. last) /\ Cardinality(lo .. last) = IF lo > last THEN 0 ELSE last - lo + 1
        BY <4>1, FS_Interval
      <4> QED
        BY <4>2 DEF last
    <3>3. Cardinality(R) = len[c]
      <4> HIDE DEF lo, hi
      <4> QED
        BY <2>2, <3>2
    <3> QED
      BY <3>1, <3>2, <3>3
  <2>4. /\ \A t \in M : f[t] \in Int
        /\ \A t \in M \ R : f[t] = 0
        /\ \A t \in R : f[t] = 1
    BY <2>1, <2>3
  <2>5. row[c] = Total(f, M)
    OBVIOUS
  <2> HIDE DEF R, f, M, row, lo, hi
  <2>6. Total(f, M) = Total(f, R)
    BY <1>1, <2>3, <2>4, SumSupport
  <2>7. Total(f, R) = Cardinality(R) * 1
    BY <2>3, <2>4, SumConstant
  <2> QED
    BY <2>2, <2>3, <2>5, <2>6, <2>7
<1>3. ASSUME NEW t \in M
      PROVE  /\ col[t] <= 1 /\ col[t] \in Int
             /\ (\E c \in D : c - g <= t /\ t < c) => col[t] >= 1
  <2> DEFINE f == G[t]
  <2>1. \A c \in D : f[c] \in Nat /\ f[c] <= 1
    OBVIOUS
  <2>2. \A c, d \in D : f[c] # 0 /\ f[d] # 0 => c = d
    <3> SUFFICES ASSUME NEW c \in D, NEW d \in D, f[c] # 0, f[d] # 0 PROVE c = d
      OBVIOUS
    <3>1. /\ c \in Nat /\ d \in Nat /\ c % g = 0 /\ d % g = 0 /\ t \in Int
          /\ c - g <= t /\ t < c /\ d - g <= t /\ t < d
      BY DEF OnGrid
    <3> HIDE DEF f
    <3> QED
      BY <3>1, CellsApart
  <2>3. col[t] = Total(f, D)
    OBVIOUS
  <2>4. \A c \in D : c - g <= t /\ t < c => f[c] = 1
    OBVIOUS
  <2> HIDE DEF f, col, M
  <2>5. Total(f, D) <= 1 /\ Total(f, D) \in Nat
    BY <1>0, <2>1, <2>2, OneTerm, SumNat
  <2>6. ASSUME NEW c \in D, c - g <= t, t < c PROVE Total(f, D) >= 1
    <3>1. \A d \in D : f[d] \in Nat
      BY <2>1
    <3> QED
      BY <1>0, <2>4, <2>6, <3>1, SumTerm
  <2> QED
    BY <2>3, <2>5, <2>6
<1>4. Matrix(F, D, M) /\ Transposed(G, F, D, M) /\ RowSums(row, F, D, M) /\ RowSums(col, G, M, D)
  BY DEF Matrix, Transposed, RowSums
<1>5. \A t \in M : one[t] = 1 /\ one[t] \in Int
  OBVIOUS
<1> HIDE DEF M, F, G, row, col, one
<1>6. Total(row, D) = Total(col, M)
  <2>1. IsFiniteSet(M)
    BY <1>1
  <2> QED
    BY <1>0, <1>4, <2>1, SumSwap
<1>7. Total(len, D) = Total(row, D)
  BY <1>0, <1>2, SumEqual
<1>8. Total(col, M) <= Total(one, M)
  BY <1>1, <1>3, <1>5, SumAtMost
<1>9. Total(one, M) = Cardinality(M) * 1
  BY <1>1, <1>5, SumConstant
<1>10. ASSUME Covered(D, b, e, g) PROVE Total(one, M) <= Total(col, M)
  <2>1. \A t \in M : one[t] <= col[t]
    BY <1>3, <1>5, <1>10 DEF Covered, M
  <2> QED
    BY <1>1, <1>3, <1>5, <2>1, SumAtMost
<1> QED
  BY <1>1, <1>6, <1>7, <1>8, <1>9, <1>10

Length(b, e, c, g) == Max({0, Min({e, c}) - Max({b, c - g})})

LEMMA LengthNat ==
    ASSUME NEW b \in Nat, NEW e \in Nat, NEW c \in Nat, NEW g \in Nat
    PROVE  Length(b, e, c, g) \in Nat
<1>1. c - g \in Int
  OBVIOUS
<1>2. Min({e, c}) \in Int /\ Max({b, c - g}) \in Int
  BY <1>1, MinInt, MaxInt
<1> DEFINE d == Min({e, c}) - Max({b, c - g})
<1>3. d \in Int
  BY <1>2
<1> HIDE DEF d
<1>4. Max({0, d}) \in Nat
  BY <1>3, MaxInt
<1> QED
  BY <1>4 DEF d, Length

LEMMA OverlapNat ==
    ASSUME NEW b \in Nat, NEW e \in Nat, b <= e, NEW c \in Nat, NEW g \in Nat
    PROVE  /\ Overlap(b, e, c - g, c) \in Nat
           /\ b # e => Overlap(b, e, c - g, c) * (e - b) <= Length(b, e, c, g) * Units
<1>0. Units \in Nat
  BY StatsAssumptions
<1>1. CASE b = e
  BY <1>0, <1>1 DEF Overlap
<1>2. CASE b # e
  <2> DEFINE n == Length(b, e, c, g) * Units
             d == e - b
  <2>0. Length(b, e, c, g) \in Nat
    BY LengthNat
  <2>1. n \in Nat /\ d \in Nat \ {0}
    BY <1>0, <1>2, <2>0
  <2>2. Overlap(b, e, c - g, c) = n \div d
    BY <1>2 DEF Overlap, Length
  <2> HIDE DEF n, d
  <2>3. n \div d \in Nat /\ (n \div d) * d <= n
    BY <2>1
  <2> QED
    BY <1>2, <2>2, <2>3 DEF n, d
<1> QED
  BY <1>1, <1>2

\* The cells that a flush adds to.
Touched(x, g) == DOMAIN Contribution(x, g)

LEMMA ContributionIs ==
    ASSUME NEW x, IsSeries(x), NEW g \in Nat \ {0}
    PROVE  /\ IsFiniteSet(Touched(x, g)) /\ Touched(x, g) \subseteq Nat
           /\ \A c \in Touched(x, g) : c % g = 0
           /\ Touched(x, g) # {} => x.current # {}
           /\ Contribution(x, g) =
                [c \in Touched(x, g) |-> [m \in Messages |->
                    IF m \in x.current THEN Overlap(x.begin, x.end, c - g, c) ELSE 0]]
<1> DEFINE a == AlignUp(x.begin + 1, g)
           z == AlignUp(x.end, g)
<1>1. x.begin \in Nat /\ x.end \in Nat
  BY DEF IsSeries
<1>2. a \in Nat /\ z \in Nat
  <2>1. ASSUME NEW t \in Nat PROVE AlignUp(t, g) \in Nat
    <3> DEFINE q == (t + g - 1) \div g
    <3>1. q \in Nat
      OBVIOUS
    <3> HIDE DEF q
    <3>2. q * g \in Nat
      BY <3>1
    <3> QED
      BY <3>2 DEF q, AlignUp
  <2> QED
    BY <1>1, <2>1
<1> HIDE DEF a, z
<1>3. IsFiniteSet(a .. z) /\ a .. z \subseteq Nat
  BY <1>2, FS_Interval
<1>4. Touched(x, g) \subseteq {c \in a .. z : c % g = 0}
  BY DEF Touched, Contribution, a, z
<1>5. Touched(x, g) # {} => x.current # {}
  BY DEF Touched, Contribution
<1>6. Contribution(x, g) =
        [c \in Touched(x, g) |-> [m \in Messages |->
            IF m \in x.current THEN Overlap(x.begin, x.end, c - g, c) ELSE 0]]
  BY DEF Touched, Contribution
<1>7. IsFiniteSet(Touched(x, g))
  <2>1. Touched(x, g) \subseteq a .. z
    BY <1>4
  <2> QED
    BY <1>3, <2>1, FS_Subset
<1>8. Touched(x, g) \subseteq Nat /\ \A c \in Touched(x, g) : c % g = 0
  BY <1>3, <1>4
<1> QED
  BY <1>5, <1>6, <1>7, <1>8

LEMMA ContributionCells ==
    ASSUME NEW x, IsSeries(x), NEW g \in Nat \ {0}
    PROVE  /\ IsCells(Contribution(x, g)) /\ DOMAIN Contribution(x, g) \subseteq Nat
           /\ \A c \in DOMAIN Contribution(x, g), m \in Messages :
                m \notin x.current => Contribution(x, g)[c][m] = 0
<1> DEFINE D == Touched(x, g)
           C == Contribution(x, g)
           part(c) == Overlap(x.begin, x.end, c - g, c)
<1>1. /\ IsFiniteSet(D) /\ D \subseteq Nat /\ DOMAIN C = D
      /\ D # {} => x.current # {}
      /\ C = [c \in D |-> [m \in Messages |-> IF m \in x.current THEN part(c) ELSE 0]]
  BY ContributionIs DEF Touched
<1>2. ASSUME NEW c \in D PROVE part(c) \in Nat
  <2>1. x.begin \in Nat /\ x.end \in Nat /\ x.begin <= x.end /\ c \in Nat
    BY <1>1 DEF IsSeries
  <2> QED
    BY <2>1, OverlapNat
<1> HIDE DEF D, C, part
<1>3. C \in [D -> Work]
  BY <1>1, <1>2 DEF Work
<1>4. \A c \in D, m \in Messages : m \notin x.current => C[c][m] = 0
  BY <1>1
<1> QED
  BY <1>1, <1>3, <1>4 DEF IsCells, C

\* A flush adds a batch to the history at most once.
LEMMA ContributionSum ==
    ASSUME NEW x, IsSeries(x), NEW g \in Nat \ {0}, NEW m \in Messages
    PROVE  /\ CellSum(Contribution(x, g), m) \in Nat
           /\ CellSum(Contribution(x, g), m) <= Units
           /\ m \notin x.current => CellSum(Contribution(x, g), m) = 0
<1> DEFINE D == Touched(x, g)
           C == Contribution(x, g)
           part(c) == Overlap(x.begin, x.end, c - g, c)
           f == [c \in D |-> C[c][m]]
<1>1. /\ IsFiniteSet(D) /\ D \subseteq Nat /\ DOMAIN C = D
      /\ \A c \in D : c % g = 0
      /\ D # {} => x.current # {}
      /\ C = [c \in D |-> [n \in Messages |-> IF n \in x.current THEN part(c) ELSE 0]]
  BY ContributionIs DEF Touched
<1>2. CellSum(C, m) = Total(f, D)
  BY DEF CellSum, Touched
<1>3. \A c \in D : f[c] = IF m \in x.current THEN part(c) ELSE 0
  <2> HIDE DEF C, D, part
  <2> QED
    BY <1>1
<1>4. x.begin \in Nat /\ x.end \in Nat /\ Units \in Nat
  BY StatsAssumptions DEF IsSeries
<1>5. CASE D = {}
  <2>1. Total(f, D) = 0
    BY <1>5, SumEmpty
  <2> QED
    BY <1>2, <1>4, <2>1
<1>6. CASE D # {} /\ m \notin x.current
  <2> HIDE DEF f, D
  <2>1. \A c \in D : f[c] = 0
    BY <1>3, <1>6
  <2>2. Total(f, D) = 0
    BY <1>1, <2>1, SumZero
  <2> QED
    BY <1>2, <1>4, <2>2
<1>7. CASE D # {} /\ m \in x.current
  <2>1. x.begin <= x.end
    BY <1>7 DEF IsSeries
  <2>2. \A c \in D : /\ f[c] = part(c) /\ f[c] \in Nat
                     /\ x.begin # x.end => f[c] * (x.end - x.begin) <= Length(x.begin, x.end, c, g) * Units
    <3> HIDE DEF f, D
    <3>1. \A c \in D : c \in Nat /\ f[c] = part(c)
      BY <1>1, <1>3, <1>7
    <3> SUFFICES ASSUME NEW c \in D
                 PROVE  /\ f[c] = part(c) /\ f[c] \in Nat
                        /\ x.begin # x.end => f[c] * (x.end - x.begin) <= Length(x.begin, x.end, c, g) * Units
      OBVIOUS
    <3>2. c \in Nat /\ f[c] = Overlap(x.begin, x.end, c - g, c)
      BY <3>1
    <3>3. /\ Overlap(x.begin, x.end, c - g, c) \in Nat
          /\ x.begin # x.end =>
               Overlap(x.begin, x.end, c - g, c) * (x.end - x.begin) <= Length(x.begin, x.end, c, g) * Units
      BY <1>4, <2>1, <3>2, OverlapNat
    <3> QED
      BY <3>1, <3>2, <3>3
  <2> HIDE DEF f, D, part
  <2>3. Total(f, D) \in Nat
    BY <1>1, <2>2, SumNat
  <2>4. CASE x.begin = x.end
    <3>1. \A c \in D : f[c] \in Nat /\ f[c] <= Units /\ (f[c] # 0 => c - g <= x.begin /\ x.begin < c)
      <4>1. \A c \in D : part(c) \in {0, Units} /\ (part(c) # 0 => c - g <= x.begin /\ x.begin < c)
        BY <1>1, <1>4, <2>4 DEF part, Overlap
      <4> QED
        BY <1>4, <2>2, <4>1
    <3>2. \A c, e \in D : f[c] # 0 /\ f[e] # 0 => c = e
      <4> SUFFICES ASSUME NEW c \in D, NEW e \in D, f[c] # 0, f[e] # 0 PROVE c = e
        OBVIOUS
      <4>1. /\ c \in Nat /\ e \in Nat /\ c % g = 0 /\ e % g = 0 /\ x.begin \in Int
            /\ c - g <= x.begin /\ x.begin < c /\ e - g <= x.begin /\ x.begin < e
        BY <1>1, <1>4, <3>1
      <4> QED
        BY <4>1, CellsApart
    <3>3. Total(f, D) <= Units
      <4>1. \A c \in D : f[c] \in Nat /\ f[c] <= Units
        BY <3>1
      <4>2. IsFiniteSet(D) /\ Units \in Nat
        BY <1>1, <1>4
      <4> QED
        BY <3>2, <4>1, <4>2, OneTerm
    <3> QED
      BY <1>2, <1>7, <2>3, <3>3
  <2>5. CASE x.begin # x.end
    <3> DEFINE b == x.begin
               e == x.end
               d == e - b
               len == [c \in D |-> Length(b, e, c, g)]
               fd == [c \in D |-> d * f[c]]
               lu == [c \in D |-> Units * len[c]]
    <3>1. b \in Nat /\ e \in Nat /\ b < e /\ d \in Nat \ {0}
      BY <1>4, <2>1, <2>5
    <3>2. \A c \in D : len[c] = Length(b, e, c, g) /\ len[c] \in Nat
      BY <1>1, <3>1, LengthNat
    <3>3. \A c \in D : fd[c] = d * f[c] /\ lu[c] = Units * len[c]
      OBVIOUS
    <3>4. \A c \in D : f[c] * d <= len[c] * Units
      BY <2>2, <2>5
    <3> HIDE DEF fd, lu, len, d, b, e
    <3>5. \A c \in D : fd[c] \in Int /\ lu[c] \in Int /\ fd[c] <= lu[c]
      BY <1>4, <2>2, <3>1, <3>2, <3>3, <3>4
    <3>6. Total(fd, D) = d * Total(f, D)
      BY <1>1, <2>2, <3>1, <3>3, SumTimes
    <3>7. Total(lu, D) = Units * Total(len, D)
      BY <1>1, <1>4, <3>2, <3>3, SumTimes
    <3>8. Total(fd, D) <= Total(lu, D)
      BY <1>1, <3>5, SumAtMost
    <3>9. Total(len, D) <= d
      <4>1. OnGrid(D, g) /\ Lengths(len, D, b, e, g)
        BY <1>1, <3>2 DEF OnGrid, Lengths, Length
      <4> QED
        BY <3>1, <4>1, LengthSum DEF d
    <3>10. Total(len, D) \in Nat
      BY <1>1, <3>2, SumNat
    <3> DEFINE u == Total(f, D)
               v == Total(len, D)
    <3>11. u \in Nat /\ v \in Nat /\ v <= d /\ d * u <= Units * v
      BY <2>3, <3>6, <3>7, <3>8, <3>9, <3>10
    <3> HIDE DEF u, v
    <3>12. Units * v <= Units * d
      BY <1>4, <3>1, <3>11
    <3>13. d * u <= d * Units
      BY <1>4, <3>1, <3>11, <3>12
    <3>14. u <= Units
      <4> SUFFICES ASSUME u >= Units + 1 PROVE FALSE
        BY <1>4, <3>11
      <4>1. d * u >= d * (Units + 1)
        BY <1>4, <3>1, <3>11
      <4>2. d * (Units + 1) = d * Units + d
        BY <1>4, <3>1
      <4> QED
        BY <1>4, <3>1, <3>11, <3>13, <4>1, <4>2
    <3> QED
      BY <1>2, <1>7, <2>3, <3>14 DEF u
  <2> QED
    BY <2>4, <2>5
<1> QED
  BY <1>5, <1>6, <1>7

LEMMA MultipleMod ==
    ASSUME NEW q \in Nat, NEW g \in Nat \ {0}
    PROVE  q * g \in Nat /\ q * g = g * q /\ (q * g) % g = 0
<1> DEFINE p == q * g
           k == p \div g
           r == p % g
<1>1. p \in Nat /\ p = g * q
  OBVIOUS
<1>2. k \in Nat /\ r \in 0 .. g - 1 /\ p = g * k + r
  BY <1>1
<1> HIDE DEF p, k, r
<1>3. q \in Nat /\ k \in Nat /\ g * q = g * k + r
  BY <1>1, <1>2
<1>4. g * (q - k) = r
  <2>1. g * (q - k) = g * q - g * k
    BY <1>3
  <2>2. g * k \in Int /\ r \in Int
    BY <1>2, <1>3
  <2> QED
    BY <1>3, <2>1, <2>2
<1> DEFINE i == q - k
<1>5. i \in Int /\ g * i = r
  BY <1>3, <1>4
<1> HIDE DEF i
<1>6. ~(i > 0)
  <2>1. i > 0 => g * i >= g
    BY <1>5
  <2> QED
    BY <1>2, <1>5, <2>1
<1>7. r = 0
  <2>1. i <= 0 => g * i <= 0
    BY <1>5
  <2> QED
    BY <1>2, <1>5, <1>6, <2>1
<1> QED
  BY <1>1, <1>7 DEF p, r

\* Rounding up to the grid.
LEMMA AlignUpIs ==
    ASSUME NEW t \in Nat, NEW g \in Nat \ {0}
    PROVE  /\ AlignUp(t, g) \in Nat /\ AlignUp(t, g) % g = 0
           /\ AlignUp(t, g) >= t /\ AlignUp(t, g) < t + g
<1> DEFINE a == t + g - 1
           q == a \div g
<1>1. a \in Nat /\ q \in Nat /\ a = g * q + (a % g) /\ a % g \in 0 .. g - 1
  OBVIOUS
<1> HIDE DEF q
<1>2. q * g \in Nat /\ q * g = g * q /\ (q * g) % g = 0
  BY <1>1, MultipleMod
<1>3. AlignUp(t, g) = q * g
  BY DEF AlignUp, a, q
<1> QED
  BY <1>1, <1>2, <1>3

\* A moment lies before the cell's end that it rounds up to, and a cell of the
\* grid that ends later ends no earlier than that.
LEMMA AlignUpFirst ==
    ASSUME NEW t \in Nat, NEW g \in Nat \ {0}, NEW c \in Nat, c % g = 0, t <= c
    PROVE  AlignUp(t, g) <= c
<1> DEFINE a == AlignUp(t, g)
<1>1. a \in Nat /\ a % g = 0 /\ a < t + g
  BY AlignUpIs
<1> HIDE DEF a
<1>2. PICK i \in Nat : a = i * g
  BY <1>1
<1>3. PICK j \in Nat : c = j * g
  OBVIOUS
<1>4. ASSUME j < i PROVE FALSE
  <2>1. (i - j) * g >= g
    BY <1>4
  <2>2. (i - j) * g = i * g - j * g
    OBVIOUS
  <2> QED
    BY <1>1, <1>2, <1>3, <2>1, <2>2
<1>5. j >= i => j * g >= i * g
  <2>1. j >= i => (j - i) * g >= 0
    OBVIOUS
  <2>2. (j - i) * g = j * g - i * g
    OBVIOUS
  <2>3. j * g \in Int /\ i * g \in Int
    OBVIOUS
  <2> QED
    BY <2>1, <2>2, <2>3
<1> QED
  BY <1>2, <1>3, <1>4, <1>5 DEF a

\* The shares of an interval, or of a moment, that is not on the grid.
OffGrid(b, e) == b < e \/ \A s \in Series : b % GridInterval[s] # 0

\* The cells that a flush looks at.
Looked(x, g) == {c \in AlignUp(x.begin + 1, g) .. AlignUp(x.end, g) : c % g = 0}

LEMMA TouchedIs ==
    ASSUME NEW x, NEW g, x.current # {}, ~(x.end - x.begin > MaxBatchTimeInterval)
    PROVE  Touched(x, g) = {c \in Looked(x, g) : Overlap(x.begin, x.end, c - g, c) > 0}
  BY DEF Touched, Contribution, Looked

\* Shares of one moment go to the cell behind it.
LEMMA MomentWhole ==
    ASSUME NEW b \in Nat, NEW g \in Nat \ {0}, b % g # 0
    PROVE  /\ AlignUp(b + 1, g) = AlignUp(b, g)
           /\ Overlap(b, b, AlignUp(b, g) - g, AlignUp(b, g)) = Units
<1> DEFINE a == AlignUp(b, g)
           z == AlignUp(b + 1, g)
<1>1. /\ a \in Nat /\ a % g = 0 /\ b <= a /\ a < b + g
      /\ z \in Nat /\ z % g = 0 /\ b + 1 <= z /\ z < b + 1 + g
  <2>1. b + 1 \in Nat
    OBVIOUS
  <2> QED
    BY <2>1, AlignUpIs
<1>2. b < a
  <2>1. a # b
    BY <1>1
  <2> HIDE DEF a
  <2> QED
    BY <1>1, <2>1
<1>3. z <= a
  <2>1. b + 1 \in Nat /\ b + 1 <= a
    BY <1>1, <1>2
  <2> QED
    BY <1>1, <2>1, AlignUpFirst
<1>4. a <= z
  BY <1>1, AlignUpFirst
<1> HIDE DEF a, z
<1>5. a = z
  BY <1>1, <1>3, <1>4
<1>6. Overlap(b, b, a - g, a) = Units
  BY <1>1, <1>2 DEF Overlap
<1> QED
  BY <1>5, <1>6 DEF a, z

\* When the length of the interval divides the work, the share of a cell is its
\* length, u for each moment of it.
LEMMA ShareOfCell ==
    ASSUME NEW b \in Nat, NEW e \in Nat, b < e, NEW u \in Nat, Units = u * (e - b),
           NEW c \in Nat, NEW g \in Nat
    PROVE  Overlap(b, e, c - g, c) = u * Length(b, e, c, g)
<1> DEFINE d == e - b
           n == Length(b, e, c, g)
<1>1. n \in Nat /\ d \in Nat \ {0}
  BY LengthNat
<1>2. Overlap(b, e, c - g, c) = (n * Units) \div d
  BY DEF Overlap, Length
<1>3. Units = u * d
  OBVIOUS
<1> HIDE DEF n, d
<1>4. n * Units = (u * n) * d
  BY <1>1, <1>3
<1> DEFINE v == u * n
<1>5. v \in Nat
  BY <1>1
<1>6. n * Units = v * d
  BY <1>4
<1> HIDE DEF v
<1>7. (v * d) \div d = v
  BY <1>1, <1>5
<1> QED
  BY <1>2, <1>6, <1>7 DEF v, n

\* A moment of the interval lies in a cell that a flush looks at.
LEMMA MomentLooked ==
    ASSUME NEW x, IsSeries(x), NEW g \in Nat \ {0}, NEW t \in x.begin .. x.end - 1
    PROVE  \E c \in Looked(x, g) :
             /\ c \in Nat /\ c - g <= t /\ t < c
             /\ x.begin < x.end => Length(x.begin, x.end, c, g) > 0
<1> DEFINE c == AlignUp(t + 1, g)
           a == AlignUp(x.begin + 1, g)
           z == AlignUp(x.end, g)
<1>1. x.begin \in Nat /\ x.end \in Nat /\ t \in Nat /\ x.begin <= t /\ t < x.end
  BY DEF IsSeries
<1>2. /\ c \in Nat /\ c % g = 0 /\ t + 1 <= c /\ c < t + 1 + g
      /\ a \in Nat /\ z \in Nat /\ z % g = 0 /\ x.end <= z
  <2>1. t + 1 \in Nat /\ x.begin + 1 \in Nat
    BY <1>1
  <2> QED
    BY <1>1, <2>1, AlignUpIs
<1>3. a <= c
  <2>1. x.begin + 1 \in Nat /\ x.begin + 1 <= c
    BY <1>1, <1>2
  <2> QED
    BY <1>2, <2>1, AlignUpFirst
<1>4. c <= z
  <2>1. t + 1 \in Nat /\ t + 1 <= z
    BY <1>1, <1>2
  <2> QED
    BY <1>2, <2>1, AlignUpFirst
<1> HIDE DEF c
<1>5. c \in Looked(x, g)
  BY <1>2, <1>3, <1>4 DEF Looked
<1>6. Length(x.begin, x.end, c, g) > 0
  <2> DEFINE lo == IF x.begin >= c - g THEN x.begin ELSE c - g
             hi == IF x.end <= c THEN x.end ELSE c
  <2>1. Max({x.begin, c - g}) = lo /\ Min({x.end, c}) = hi
    BY <1>1, <1>2, MaxInt, MinInt
  <2>2. lo \in Int /\ hi \in Int /\ lo <= t /\ t < hi
    BY <1>1, <1>2
  <2> HIDE DEF lo, hi
  <2>3. hi - lo \in Int /\ hi - lo > 0
    BY <1>1, <2>2
  <2>4. Max({0, hi - lo}) = hi - lo
    BY <2>3, MaxInt
  <2> QED
    BY <2>1, <2>3, <2>4 DEF Length
<1> QED
  BY <1>1, <1>2, <1>5, <1>6

\* A flush gives all of a batch to the history.
LEMMA ContributionWhole ==
    ASSUME NEW x, IsSeries(x), NEW s \in Series, NEW m \in x.current, x.end <= MaxTime,
           OffGrid(x.begin, x.end), ~(x.end - x.begin > MaxBatchTimeInterval)
    PROVE  CellSum(Contribution(x, GridInterval[s]), m) >= Units
<1> DEFINE g == GridInterval[s]
           b == x.begin
           e == x.end
           C == Contribution(x, g)
           D == Touched(x, g)
           part(c) == Overlap(b, e, c - g, c)
           f == [c \in D |-> C[c][m]]
<1>1. /\ g \in Nat \ {0} /\ b \in Nat /\ e \in Nat /\ b <= e /\ e <= MaxTime
      /\ m \in Messages /\ MaxTime \in Nat /\ Units \in Nat
      /\ \A d \in 1 .. MaxTime : Units % d = 0
  BY GridIs, StatsAssumptions DEF IsSeries
<1>2. b < e \/ b % g # 0
  BY DEF OffGrid
<1>3. /\ IsFiniteSet(D) /\ D \subseteq Nat /\ DOMAIN C = D /\ \A c \in D : c % g = 0
      /\ C = [c \in D |-> [n \in Messages |-> IF n \in x.current THEN part(c) ELSE 0]]
  BY <1>1, ContributionIs DEF Touched
<1>4. CellSum(C, m) = Total(f, D)
  BY DEF CellSum, Touched
<1>5. D = {c \in Looked(x, g) : part(c) > 0}
  BY TouchedIs
<1>6. \A c \in D : f[c] = part(c)
  <2> HIDE DEF C, D, part
  <2> QED
    BY <1>1, <1>3
<1> HIDE DEF g
<1>7. \A c \in D : f[c] = part(c) /\ f[c] \in Nat
  <2> SUFFICES ASSUME NEW c \in D PROVE f[c] = part(c) /\ f[c] \in Nat
    OBVIOUS
  <2>1. f[c] = part(c) /\ c \in Nat /\ g \in Nat
    BY <1>1, <1>3, <1>6
  <2> HIDE DEF f, C, D, b, e
  <2>2. Overlap(b, e, c - g, c) \in Nat
    BY <1>1, <2>1, OverlapNat
  <2> QED
    BY <2>1, <2>2
<1> HIDE DEF C, D, f, b, e
<1>8. CASE Units = 0
  <2>1. Total(f, D) \in Nat
    BY <1>3, <1>7, SumNat
  <2> QED
    BY <1>4, <1>8, <2>1 DEF C, g
<1>9. CASE Units > 0 /\ b = e
  <2> DEFINE a == AlignUp(b, g)
  <2>1. AlignUp(b + 1, g) = a /\ Overlap(b, b, a - g, a) = Units
    BY <1>1, <1>2, <1>9, MomentWhole
  <2>2. a \in Nat /\ a % g = 0
    BY <1>1, AlignUpIs
  <2> HIDE DEF a
  <2>3. a \in a .. a
    BY <2>2
  <2>4. Looked(x, g) = {c \in a .. a : c % g = 0}
    BY <1>9, <2>1 DEF Looked, a, b, e
  <2>5. a \in D /\ f[a] = Units
    BY <1>5, <1>7, <1>9, <2>1, <2>2, <2>3, <2>4
  <2>6. f[a] <= Total(f, D)
    BY <1>3, <1>7, <2>5, SumTerm
  <2>7. Total(f, D) \in Nat
    BY <1>3, <1>7, SumNat
  <2> QED
    BY <1>1, <1>4, <2>5, <2>6, <2>7 DEF C, g
<1>10. CASE Units > 0 /\ b < e
  <2> DEFINE d == e - b
             u == Units \div d
             len == [c \in D |-> Length(b, e, c, g)]
  <2>1. d \in 1 .. MaxTime /\ d \in Nat \ {0}
    BY <1>1, <1>10
  <2>2. Units = u * d /\ u \in Nat /\ u > 0
    <3> DEFINE r == Units % d
    <3>1. r = 0
      BY <1>1, <2>1
    <3>2. Units = d * u + r /\ u \in Nat
      BY <1>1, <2>1
    <3> HIDE DEF r, d, u
    <3> QED
      BY <1>10, <2>1, <3>1, <3>2
  <2> HIDE DEF u
  <2>3. \A c \in Nat : part(c) = u * Length(b, e, c, g) /\ Length(b, e, c, g) \in Nat
    <3> SUFFICES ASSUME NEW c \in Nat
                 PROVE  part(c) = u * Length(b, e, c, g) /\ Length(b, e, c, g) \in Nat
      OBVIOUS
    <3>1. g \in Nat /\ Units = u * (e - b)
      BY <1>1, <2>2
    <3>2. Overlap(b, e, c - g, c) = u * Length(b, e, c, g)
      BY <1>1, <1>10, <2>2, <3>1, ShareOfCell
    <3> QED
      BY <1>1, <3>1, <3>2, LengthNat
  <2>4. \A c \in D : len[c] = Length(b, e, c, g) /\ len[c] \in Nat /\ f[c] = u * len[c]
    BY <1>3, <1>7, <2>3
  <2>5. Covered(D, b, e, g)
    <3> SUFFICES ASSUME NEW t \in b .. e - 1 PROVE \E c \in D : c - g <= t /\ t < c
      BY DEF Covered
    <3>1. PICK c \in Looked(x, g) : c \in Nat /\ c - g <= t /\ t < c /\ Length(b, e, c, g) > 0
      BY <1>1, <1>10, MomentLooked DEF b, e
    <3>2. part(c) > 0
      <4> DEFINE n == Length(b, e, c, g)
      <4>1. n \in Nat /\ n > 0 /\ part(c) = u * n
        BY <2>3, <3>1
      <4> HIDE DEF n, part
      <4>2. u * n > 0
        BY <2>2, <4>1
      <4> QED
        BY <4>1, <4>2
    <3> QED
      BY <1>5, <3>1, <3>2
  <2>6. OnGrid(D, g) /\ Lengths(len, D, b, e, g)
    BY <1>3, <2>4 DEF OnGrid, Lengths, Length
  <2> HIDE DEF len
  <2>7. Total(len, D) >= d
    BY <1>1, <1>10, <2>5, <2>6, LengthSum DEF d
  <2> HIDE DEF d
  <2>8. Total(f, D) = u * Total(len, D)
    <3>1. \A c \in D : len[c] \in Int /\ f[c] = u * len[c]
      BY <2>4
    <3>2. IsFiniteSet(D) /\ u \in Int
      BY <1>3, <2>2
    <3> QED
      BY ONLY <3>1, <3>2, SumTimes
  <2> DEFINE v == Total(len, D)
  <2>9. v \in Nat
    BY <1>3, <2>4, SumNat
  <2> HIDE DEF v
  <2>10. v >= d /\ Total(f, D) = u * v
    BY <2>7, <2>8 DEF v
  <2>11. u * v >= u * d
    <3>1. u * (v - d) >= 0
      BY <2>1, <2>2, <2>9, <2>10
    <3>2. u * (v - d) = u * v - u * d
      BY <2>1, <2>2, <2>9
    <3>3. u * v \in Int /\ u * d \in Int
      BY <2>1, <2>2, <2>9
    <3> QED
      BY <3>1, <3>2, <3>3
  <2> QED
    BY <1>4, <2>2, <2>10, <2>11 DEF C, g
<1> QED
  BY <1>1, <1>2, <1>8, <1>9, <1>10

----------------------------------------------------------------------------
(* Sums of cells.                                                          *)

\* h has the cells of f and of g, and in each the work of both.
Added(h, f, g) ==
    /\ DOMAIN h = DOMAIN f \cup DOMAIN g
    /\ \A c \in DOMAIN f, m \in Messages :
         h[c][m] = IF c \in DOMAIN g THEN f[c][m] + g[c][m] ELSE f[c][m]
    /\ \A c \in DOMAIN g, m \in Messages : c \notin DOMAIN f => h[c][m] = g[c][m]

LEMMA AddCellsIs ==
    ASSUME NEW f, IsCells(f), NEW g, IsCells(g)
    PROVE  IsCells(AddCells(f, g)) /\ Added(AddCells(f, g), f, g)
<1> DEFINE D == DOMAIN f \cup DOMAIN g
           h == AddCells(f, g)
           left(c) == IF c \in DOMAIN f THEN f[c] ELSE Nothing
           right(c) == IF c \in DOMAIN g THEN g[c] ELSE Nothing
<1>1. h = [c \in D |-> [m \in Messages |-> left(c)[m] + right(c)[m]]]
  BY DEF AddCells, Plus
<1>2. IsFiniteSet(D)
  BY FS_Union DEF IsCells
<1>3. \A m \in Messages : Nothing[m] = 0
  BY DEF Nothing
<1>4. ASSUME NEW c \in D, NEW m \in Messages
      PROVE  /\ left(c)[m] \in Nat /\ right(c)[m] \in Nat
             /\ c \notin DOMAIN f => left(c)[m] = 0
             /\ c \notin DOMAIN g => right(c)[m] = 0
  BY <1>3 DEF IsCells, Work
<1> HIDE DEF h
<1>5. h \in [D -> Work] /\ DOMAIN h = D
  <2> HIDE DEF D, left, right
  <2> QED
    BY <1>1, <1>4 DEF Work
<1>6. ASSUME NEW c \in D, NEW m \in Messages
      PROVE  h[c][m] = left(c)[m] + right(c)[m]
  <2> HIDE DEF D, left, right
  <2> QED
    BY <1>1
<1>7. ASSUME NEW c \in DOMAIN f, NEW m \in Messages
      PROVE  h[c][m] = IF c \in DOMAIN g THEN f[c][m] + g[c][m] ELSE f[c][m]
  BY <1>4, <1>6
<1>8. ASSUME NEW c \in DOMAIN g, NEW m \in Messages, c \notin DOMAIN f
      PROVE  h[c][m] = g[c][m]
  BY <1>4, <1>6, <1>8
<1> QED
  BY <1>2, <1>5, <1>7, <1>8 DEF IsCells, Added, h

\* A cell that is missing counts as zero.
LEMMA CellSumWider ==
    ASSUME NEW f, IsCells(f), NEW D, IsFiniteSet(D), DOMAIN f \subseteq D, NEW m \in Messages,
           NEW w, \A c \in D : w[c] = IF c \in DOMAIN f THEN f[c][m] ELSE 0
    PROVE  /\ CellSum(f, m) = Total(w, D) /\ CellSum(f, m) \in Nat
           /\ \A c \in D : w[c] \in Nat
<1> DEFINE E == DOMAIN f
           v == [c \in E |-> f[c][m]]
<1>1. IsFiniteSet(E) /\ E \in SUBSET D /\ \A c \in E : v[c] = f[c][m] /\ v[c] \in Nat
  BY DEF IsCells, Work
<1>2. CellSum(f, m) = Total(v, E)
  BY DEF CellSum
<1>3. \A c \in E : w[c] = v[c]
  OBVIOUS
<1>4. \A c \in D : w[c] \in Nat
  BY <1>1
<1>5. \A c \in D \ E : w[c] = 0
  OBVIOUS
<1> HIDE DEF v, E
<1>6. Total(v, E) = Total(w, E) /\ Total(v, E) \in Nat
  <2>1. \A c \in E : v[c] \in Int /\ v[c] = w[c]
    BY <1>1, <1>3
  <2> QED
    BY <1>1, <2>1, SumEqual, SumNat
<1>7. Total(w, D) = Total(w, E)
  <2>1. \A c \in D : w[c] \in Int
    BY <1>4
  <2> QED
    BY <1>1, <1>5, <2>1, SumSupport
<1> QED
  BY <1>2, <1>4, <1>6, <1>7

LEMMA AddCellsSum ==
    ASSUME NEW f, IsCells(f), NEW g, IsCells(g), NEW m \in Messages
    PROVE  /\ CellSum(AddCells(f, g), m) = CellSum(f, m) + CellSum(g, m)
           /\ CellSum(f, m) \in Nat
<1> DEFINE D == DOMAIN f \cup DOMAIN g
           h == AddCells(f, g)
           u == [c \in D |-> IF c \in DOMAIN f THEN f[c][m] ELSE 0]
           v == [c \in D |-> IF c \in DOMAIN g THEN g[c][m] ELSE 0]
           w == [c \in D |-> IF c \in DOMAIN h THEN h[c][m] ELSE 0]
<1>0. IsCells(h) /\ Added(h, f, g)
  BY AddCellsIs
<1>1. IsCells(h) /\ DOMAIN h = D /\ IsFiniteSet(D)
  BY <1>0 DEF IsCells, Added
<1>2. /\ \A c \in D : u[c] = IF c \in DOMAIN f THEN f[c][m] ELSE 0
      /\ \A c \in D : v[c] = IF c \in DOMAIN g THEN g[c][m] ELSE 0
      /\ \A c \in D : w[c] = IF c \in DOMAIN h THEN h[c][m] ELSE 0
      /\ DOMAIN f \subseteq D /\ DOMAIN g \subseteq D
  OBVIOUS
<1>3. \A c \in D : w[c] = u[c] + v[c]
  <2> HIDE DEF h
  <2>1. \A c \in DOMAIN f : h[c][m] = IF c \in DOMAIN g THEN f[c][m] + g[c][m] ELSE f[c][m]
    BY <1>0 DEF Added
  <2>2. \A c \in DOMAIN g : c \notin DOMAIN f => h[c][m] = g[c][m]
    BY <1>0 DEF Added
  <2>3. /\ \A c \in DOMAIN f : f[c][m] \in Nat
        /\ \A c \in DOMAIN g : g[c][m] \in Nat
    BY DEF IsCells, Work
  <2> QED
    BY <1>1, <2>1, <2>2, <2>3
<1> HIDE DEF D, h, u, v, w
<1>4. CellSum(f, m) = Total(u, D) /\ CellSum(f, m) \in Nat /\ \A c \in D : u[c] \in Nat
  BY <1>1, <1>2, CellSumWider
<1>5. CellSum(g, m) = Total(v, D) /\ \A c \in D : v[c] \in Nat
  BY <1>1, <1>2, CellSumWider
<1>6. CellSum(h, m) = Total(w, D)
  <2>1. DOMAIN h \subseteq D
    BY <1>1
  <2> QED
    BY <1>1, <1>2, <2>1, CellSumWider
<1>7. Total(w, D) = Total(u, D) + Total(v, D)
  <2>1. \A c \in D : u[c] \in Int /\ v[c] \in Int /\ w[c] = u[c] + v[c]
    BY <1>3, <1>4, <1>5
  <2> QED
    BY <1>1, <2>1, SumPlus
<1> QED
  BY <1>4, <1>5, <1>6, <1>7 DEF h

----------------------------------------------------------------------------
(* A flush of a series.                                                    *)

Changed(x, g) == {c \in Touched(x, g) : ~TooOld(c)}

LEMMA WrittenIs ==
    ASSUME NEW x, IsSeries(x), NEW g \in Nat \ {0}
    PROVE  /\ Written(x, g) \in Seq(Changed(x, g))
           /\ Range(SubSeq(Written(x, g), 1, Len(Written(x, g)))) = Changed(x, g)
           /\ \A k \in 0 .. Len(Written(x, g)) : Range(SubSeq(Written(x, g), 1, k)) \subseteq Changed(x, g)
           /\ Changed(x, g) \subseteq Touched(x, g) /\ IsFiniteSet(Changed(x, g))
<1> DEFINE S == Changed(x, g)
           w == Written(x, g)
           n == Cardinality(S)
<1>1. IsFiniteSet(S) /\ S \subseteq Nat /\ S \subseteq Touched(x, g)
  <2>1. IsFiniteSet(Touched(x, g)) /\ Touched(x, g) \subseteq Nat
    BY ContributionIs
  <2>2. S \subseteq Touched(x, g)
    BY DEF Changed
  <2> QED
    BY <2>1, <2>2, FS_Subset
<1>2. n \in Nat
  BY <1>1, FS_CardinalityType
<1>3. w = Ascending(S)
  BY DEF Written, Changed, Touched
<1> HIDE DEF S, w, n
<1>4. w \in [1 .. n -> S] /\ \A c \in S : \E k \in 1 .. n : w[k] = c
  BY <1>1, <1>3, AscendingIs DEF n
<1>5. w \in Seq(S) /\ Len(w) = n
  BY <1>2, <1>4
<1>6. \A k \in 0 .. n : Range(SubSeq(w, 1, k)) \subseteq S
  BY <1>2, <1>4, <1>5 DEF Range
<1>7. Range(SubSeq(w, 1, n)) = S
  <2>1. SubSeq(w, 1, n) = w
    BY <1>2, <1>5
  <2>2. Range(w) = S
    BY <1>4 DEF Range
  <2> QED
    BY <2>1, <2>2
<1> QED
  BY <1>1, <1>5, <1>6, <1>7 DEF S, w

LEMMA FlushedIs ==
    ASSUME NEW x, IsSeries(x), NEW g \in Nat \ {0}
    PROVE  /\ IsSeries(Flushed(x, g))
           /\ Flushed(x, g).current = {}
           /\ Flushed(x, g).accepted = x.accepted /\ Flushed(x, g).saved = x.accepted
           /\ DOMAIN Flushed(x, g).recent = {c \in DOMAIN x.recent \cup Touched(x, g) : ~TooOld(c)}
           /\ \A c \in DOMAIN Flushed(x, g).recent :
                Flushed(x, g).recent[c] = AddCells(x.recent, Contribution(x, g))[c]
<1> DEFINE y == Flushed(x, g)
           cells == AddCells(x.recent, Contribution(x, g))
           E == {c \in DOMAIN cells : ~TooOld(c)}
           recent == [c \in E |-> cells[c]]
<1>1. /\ IsCells(x.recent) /\ x.accepted \in Nat /\ MaxTime \in Nat
      /\ IsCells(Contribution(x, g))
  BY ContributionCells, StatsAssumptions DEF IsSeries
<1>2. IsCells(cells) /\ DOMAIN cells = DOMAIN x.recent \cup Touched(x, g)
  <2>1. IsCells(cells) /\ Added(cells, x.recent, Contribution(x, g))
    BY <1>1, AddCellsIs
  <2> HIDE DEF cells
  <2> QED
    BY <2>1 DEF Added, Touched
<1>3. y = [current |-> {}, begin |-> MaxTime, end |-> 0,
           accepted |-> x.accepted, saved |-> x.accepted, recent |-> recent]
  <2>1. y = [EmptySeries EXCEPT !.accepted = x.accepted, !.saved = x.accepted, !.recent = recent]
    BY DEF Flushed
  <2> HIDE DEF y, recent
  <2> QED
    BY <2>1 DEF EmptySeries
<1> HIDE DEF y, cells
<1>4. IsCells(recent)
  <2>1. E \subseteq DOMAIN cells /\ IsFiniteSet(E)
    BY <1>2, FS_Subset DEF IsCells
  <2> QED
    BY <1>2, <2>1 DEF IsCells
<1> HIDE DEF recent
<1>5. IsSeries(y)
  BY <1>1, <1>3, <1>4 DEF IsSeries
<1>6. y.current = {} /\ y.accepted = x.accepted /\ y.saved = x.accepted /\ y.recent = recent
  BY <1>3
<1> QED
  BY <1>2, <1>5, <1>6 DEF recent, y, cells

\* What the file of each cell is after the first k writes.
LEMMA RewrittenIs ==
    ASSUME NEW x, IsSeries(x), NEW g \in Nat \ {0}, NEW f, IsCache(f),
           NEW k \in 0 .. Len(Written(x, g))
    PROVE  /\ IsCache(Rewritten(f, x, g, k))
           /\ DOMAIN Rewritten(f, x, g, k) \subseteq DOMAIN f \cup Changed(x, g)
           /\ \A c \in DOMAIN Rewritten(f, x, g, k) :
                \/ c \in DOMAIN f /\ Rewritten(f, x, g, k)[c] = f[c]
                \/ /\ c \in Changed(x, g)
                   /\ Rewritten(f, x, g, k)[c].last = x.accepted
                   /\ Rewritten(f, x, g, k)[c].work = AddCells(x.recent, Contribution(x, g))[c]
<1> DEFINE done == Range(SubSeq(Written(x, g), 1, k))
           y == Flushed(x, g)
           all == [c \in DOMAIN f \cup done |->
                     IF c \in done THEN [last |-> y.saved, work |-> y.recent[c]] ELSE f[c]]
           old == IF k < Len(Written(x, g)) THEN {} ELSE {c \in DOMAIN x.recent : TooOld(c)}
           new == Rewritten(f, x, g, k)
           D == DOMAIN all \ old
<1>1. new = [c \in D |-> all[c]]
  BY DEF Rewritten
<1>2. done \subseteq Changed(x, g) /\ IsFiniteSet(done)
  BY WrittenIs, FS_Subset
<1>3. /\ y.saved \in Nat /\ y.saved = x.accepted /\ IsCells(y.recent)
      /\ \A c \in Changed(x, g) : /\ c \in DOMAIN y.recent
                                  /\ y.recent[c] = AddCells(x.recent, Contribution(x, g))[c]
  <2>1. IsSeries(y)
    BY FlushedIs
  <2>2. y.saved \in Nat /\ IsCells(y.recent)
    BY <2>1 DEF IsSeries
  <2>3. y.saved = x.accepted
    BY FlushedIs
  <2> QED
    BY <2>2, <2>3, FlushedIs DEF Changed
<1> HIDE DEF done, y, old, new
<1>4. IsFiniteSet(D) /\ D \subseteq DOMAIN f \cup done
  <2>1. IsFiniteSet(DOMAIN f \cup done)
    BY <1>2, FS_Union DEF IsCache
  <2>2. D \subseteq DOMAIN f \cup done
    OBVIOUS
  <2> QED
    BY <2>1, <2>2, FS_Subset
<1>5. \A c \in D : new[c] = IF c \in done THEN [last |-> y.saved, work |-> y.recent[c]] ELSE f[c]
  BY <1>1
<1>6. DOMAIN new = D /\ new = [c \in D |-> new[c]]
  BY <1>1
<1> HIDE DEF D
<1>7. \A c \in D : new[c] \in [last : Nat, work : Work]
  <2>1. \A c \in DOMAIN f : f[c] \in [last : Nat, work : Work]
    BY DEF IsCache
  <2>2. \A c \in done : y.recent[c] \in Work
    BY <1>2, <1>3 DEF IsCells
  <2> SUFFICES ASSUME NEW c \in D PROVE new[c] \in [last : Nat, work : Work]
    OBVIOUS
  <2>3. CASE c \in done
    <3>1. new[c] = [last |-> y.saved, work |-> y.recent[c]]
      BY <1>5, <2>3
    <3> QED
      BY <1>3, <2>2, <2>3, <3>1
  <2>4. CASE c \notin done
    <3>1. new[c] = f[c] /\ c \in DOMAIN f
      BY <1>4, <1>5, <2>4
    <3> QED
      BY <2>1, <3>1
  <2> QED
    BY <2>3, <2>4
<1>8. IsCache(new)
  BY <1>4, <1>6, <1>7 DEF IsCache
<1>9. \A c \in D : \/ c \in DOMAIN f /\ new[c] = f[c]
                   \/ /\ c \in Changed(x, g)
                      /\ new[c].last = x.accepted
                      /\ new[c].work = AddCells(x.recent, Contribution(x, g))[c]
  <2>1. ASSUME NEW c \in D, c \in done
        PROVE  new[c].work = y.recent[c] /\ new[c].last = x.accepted
    <3>1. new[c] = [last |-> y.saved, work |-> y.recent[c]]
      BY <1>5, <2>1
    <3> QED
      BY <1>3, <3>1
  <2>2. \A c \in D : c \notin done => c \in DOMAIN f /\ new[c] = f[c]
    BY <1>4, <1>5
  <2> QED
    BY <1>2, <1>3, <2>1, <2>2
<1> QED
  BY <1>2, <1>4, <1>6, <1>8, <1>9 DEF new

\* The history has what the files show, also when not all were written.
LEMMA RewrittenInHistory ==
    ASSUME NEW x, IsSeries(x), NEW g \in Nat \ {0}, NEW f, IsCache(f), NEW h, IsCells(h),
           Cached(x, f), InCells(f, h), NEW k \in 0 .. Len(Written(x, g))
    PROVE  InCells(Rewritten(f, x, g, k), Merged(h, x, g))
<1> DEFINE C == Contribution(x, g)
           new == Rewritten(f, x, g, k)
           sum == AddCells(x.recent, C)
           h2 == Merged(h, x, g)
<1>1. IsCells(C) /\ IsCells(x.recent)
  BY ContributionCells DEF IsSeries
<1>2. \A c \in DOMAIN new : \/ c \in DOMAIN f /\ new[c] = f[c]
                            \/ c \in DOMAIN C /\ new[c].work = sum[c]
  BY RewrittenIs, WrittenIs DEF Touched
<1>3. /\ DOMAIN h2 = DOMAIN h \cup DOMAIN C
      /\ \A c \in DOMAIN h, m \in Messages :
           h2[c][m] = IF c \in DOMAIN C THEN h[c][m] + C[c][m] ELSE h[c][m]
      /\ \A c \in DOMAIN C, m \in Messages : c \notin DOMAIN h => h2[c][m] = C[c][m]
  <2>1. Added(h2, h, C)
    BY <1>1, AddCellsIs DEF Merged
  <2> HIDE DEF h2, C
  <2> QED
    BY <2>1 DEF Added
<1>4. /\ \A c \in DOMAIN x.recent, m \in Messages :
           sum[c][m] = IF c \in DOMAIN C THEN x.recent[c][m] + C[c][m] ELSE x.recent[c][m]
      /\ \A c \in DOMAIN C, m \in Messages : c \notin DOMAIN x.recent => sum[c][m] = C[c][m]
  <2>1. Added(sum, x.recent, C)
    BY <1>1, AddCellsIs
  <2> HIDE DEF sum, C
  <2> QED
    BY <2>1 DEF Added
<1>5. DOMAIN x.recent = DOMAIN f /\ \A c \in DOMAIN f : x.recent[c] = f[c].work
  BY DEF Cached
<1>6. \A c \in DOMAIN f, m \in Messages : c \in DOMAIN h /\ f[c].work[m] <= h[c][m]
  BY DEF InCells
<1>7. /\ \A c \in DOMAIN f, m \in Messages : f[c].work[m] \in Nat
      /\ \A c \in DOMAIN h, m \in Messages : h[c][m] \in Nat
      /\ \A c \in DOMAIN C, m \in Messages : C[c][m] \in Nat
  BY <1>1 DEF IsCache, IsCells, Work
<1> HIDE DEF C, new, sum, h2
<1>8. \A c \in DOMAIN f : c \in DOMAIN h
  BY DEF InCells
<1> SUFFICES ASSUME NEW c \in DOMAIN new
             PROVE  c \in DOMAIN h2 /\ \A m \in Messages : new[c].work[m] <= h2[c][m]
  BY DEF InCells, new, h2
<1>9. CASE c \in DOMAIN f /\ new[c] = f[c]
  BY <1>3, <1>6, <1>7, <1>8, <1>9
<1>10. CASE c \in DOMAIN C /\ new[c].work = sum[c]
  <2>1. CASE c \in DOMAIN f
    BY <1>3, <1>4, <1>5, <1>6, <1>7, <1>8, <1>10, <2>1
  <2>2. CASE c \notin DOMAIN f
    BY <1>3, <1>4, <1>5, <1>6, <1>7, <1>10, <2>2
  <2> QED
    BY <2>1, <2>2
<1> QED
  BY <1>2, <1>9, <1>10

\* Behind the last write the files are the recent cells again.
LEMMA RewrittenIsRecent ==
    ASSUME NEW x, IsSeries(x), NEW g \in Nat \ {0}, NEW f, IsCache(f), Cached(x, f)
    PROVE  Cached(Flushed(x, g), Rewritten(f, x, g, Len(Written(x, g))))
<1> DEFINE n == Len(Written(x, g))
           S == Changed(x, g)
           C == Contribution(x, g)
           y == Flushed(x, g)
           new == Rewritten(f, x, g, n)
           sum == AddCells(x.recent, C)
           old == {c \in DOMAIN x.recent : TooOld(c)}
           all == [c \in DOMAIN f \cup S |->
                     IF c \in S THEN [last |-> y.saved, work |-> y.recent[c]] ELSE f[c]]
           D == DOMAIN all \ old
<1>1. Range(SubSeq(Written(x, g), 1, n)) = S /\ n \in Nat
  BY WrittenIs
<1>2. new = [c \in D |-> all[c]]
  <2>1. ~(n < n)
    BY <1>1
  <2> QED
    BY <1>1, <2>1 DEF Rewritten
<1>3. /\ DOMAIN y.recent = {c \in DOMAIN x.recent \cup DOMAIN C : ~TooOld(c)}
      /\ \A c \in DOMAIN y.recent : y.recent[c] = sum[c]
      /\ IsSeries(y)
  BY FlushedIs DEF Touched
<1>4. DOMAIN x.recent = DOMAIN f /\ \A c \in DOMAIN f : x.recent[c] = f[c].work
  BY DEF Cached
<1>5. D = DOMAIN y.recent
  <2>1. D = (DOMAIN f \cup S) \ old
    OBVIOUS
  <2> HIDE DEF D, y
  <2> QED
    BY <1>3, <1>4, <2>1 DEF Changed, Touched
<1>6. ASSUME NEW c \in DOMAIN f, c \notin DOMAIN C PROVE sum[c] = f[c].work
  <2>1. IsCells(C) /\ IsCells(x.recent)
    BY ContributionCells DEF IsSeries
  <2>2. IsCells(sum) /\ c \in DOMAIN sum /\ \A m \in Messages : sum[c][m] = x.recent[c][m]
    <3>1. IsCells(sum) /\ Added(sum, x.recent, C)
      BY <2>1, AddCellsIs
    <3> HIDE DEF sum, C
    <3> QED
      BY <1>4, <1>6, <3>1 DEF Added
  <2>3. sum[c] \in Work /\ x.recent[c] \in Work
    BY <1>4, <2>1, <2>2 DEF IsCells
  <2> HIDE DEF sum
  <2>4. sum[c] = x.recent[c]
    BY <2>2, <2>3 DEF Work
  <2> QED
    BY <1>4, <2>4
<1> HIDE DEF new, y, sum, old, n
<1>7. ASSUME NEW c \in D PROVE new[c].work = y.recent[c]
  <2>1. new[c] = IF c \in S THEN [last |-> y.saved, work |-> y.recent[c]] ELSE f[c]
    BY <1>2
  <2>2. CASE c \in S
    BY <2>1, <2>2
  <2>3. CASE c \notin S
    <3>1. c \in DOMAIN f /\ new[c] = f[c]
      BY <2>1, <2>3
    <3>2. c \notin DOMAIN C
      BY <1>3, <1>5, <2>3 DEF Changed, Touched
    <3> QED
      BY <1>3, <1>5, <1>6, <3>1, <3>2
  <2> QED
    BY <2>2, <2>3
<1>8. DOMAIN new = D
  BY <1>2
<1>9. y.recent = [c \in DOMAIN y.recent |-> y.recent[c]]
  BY <1>3 DEF IsSeries, IsCells
<1> HIDE DEF D
<1>10. y.recent = [c \in DOMAIN new |-> new[c].work]
  BY <1>5, <1>7, <1>8, <1>9
<1> QED
  BY <1>10 DEF Cached, y, new, n

----------------------------------------------------------------------------
(* Load and replay.                                                        *)

LEMMA EmptyIs == IsSeries(EmptySeries) /\ EmptySeries.current = {}
<1>1. IsCells(NoCells)
  BY FS_EmptySet DEF IsCells, NoCells
<1>2. MaxTime \in Nat
  BY StatsAssumptions
<1> QED
  BY <1>1, <1>2 DEF IsSeries, EmptySeries

LEMMA LoadIs ==
    ASSUME NEW f, IsCache(f)
    PROVE  /\ IsSeries(Load(f)) /\ Load(f).current = {}
           /\ Load(f).saved = Load(f).accepted /\ Cached(Load(f), f)
           /\ Load(f).end = 0
           /\ \A c \in DOMAIN f : f[c].last <= Load(f).saved
           /\ \A n \in Nat : (\A c \in DOMAIN f : f[c].last <= n) => Load(f).saved <= n
<1> DEFINE ids == {f[c].last : c \in DOMAIN f} \cup {0}
           last == Max(ids)
           recent == [c \in DOMAIN f |-> f[c].work]
<1>1. IsFiniteSet(ids)
  <2> DEFINE g == [c \in DOMAIN f |-> f[c].last]
             T == {g[c] : c \in DOMAIN f}
  <2>1. IsFiniteSet(DOMAIN f)
    BY DEF IsCache
  <2>2. T = {f[c].last : c \in DOMAIN f}
    OBVIOUS
  <2> HIDE DEF g
  <2>3. IsFiniteSet(T)
    BY <2>1, ImageFinite
  <2> HIDE DEF T
  <2> QED
    BY <2>2, <2>3, FS_AddElement
<1>2. ids # {} /\ ids \subseteq Nat
  BY DEF IsCache
<1>3. last \in Nat /\ last \in ids /\ \A i \in ids : i <= last
  <2> HIDE DEF ids
  <2>1. last \in ids /\ \A i \in ids : last >= i
    BY <1>1, <1>2, MaxExists
  <2> QED
    BY <1>2, <2>1
<1>4. IsCells(recent)
  BY DEF IsCells, IsCache
<1>5. Load(f) = [EmptySeries EXCEPT !.accepted = last, !.saved = last, !.recent = recent]
  BY DEF Load
<1>6. MaxTime \in Nat
  BY StatsAssumptions
<1>7. recent = [c \in DOMAIN f |-> f[c].work]
  OBVIOUS
<1> HIDE DEF last, recent
<1>8. Load(f) = [current |-> {}, begin |-> MaxTime, end |-> 0,
                 accepted |-> last, saved |-> last, recent |-> recent]
  BY <1>5 DEF EmptySeries
<1>9. IsSeries(Load(f))
  BY <1>3, <1>4, <1>6, <1>8 DEF IsSeries
<1>10. /\ Load(f).current = {} /\ Load(f).saved = last /\ Load(f).accepted = last
       /\ Load(f).recent = recent /\ Load(f).end = 0
  BY <1>8
<1>11. /\ \A c \in DOMAIN f : f[c].last <= last
       /\ \A n \in Nat : (\A c \in DOMAIN f : f[c].last <= n) => last <= n
  BY <1>3
<1> QED
  BY <1>7, <1>9, <1>10, <1>11 DEF Cached

LEMMA AddBatchesIs ==
    ASSUME NEW x, IsSeries(x), NEW rs, IsFiniteSet(rs), rs \subseteq Records
    PROVE  /\ IsSeries(AddBatches(x, rs))
           /\ AddBatches(x, rs).saved = x.saved /\ AddBatches(x, rs).recent = x.recent
           /\ AddBatches(x, rs).accepted >= x.accepted
           /\ AddBatches(x, rs).current = x.current \cup {r.msg : r \in {r \in rs : r.id > x.accepted}}
           /\ \A r \in rs : r.id <= AddBatches(x, rs).accepted
           /\ AddBatches(x, rs).accepted \in {x.accepted} \cup {r.id : r \in rs}
           /\ AddBatches(x, rs).end \in {x.end} \cup {r.end : r \in rs}
           /\ AddBatches(x, rs).begin <= x.begin /\ AddBatches(x, rs).end >= x.end
           /\ \A r \in rs : r.id > x.accepted =>
                AddBatches(x, rs).begin <= r.begin /\ AddBatches(x, rs).end >= r.end
<1> DEFINE new == {r \in rs : r.id > x.accepted}
           Ids == {x.accepted} \cup {r.id : r \in new}
           Begins == {x.begin} \cup {r.begin : r \in new}
           Ends == {x.end} \cup {r.end : r \in new}
           msgs == {r.msg : r \in new}
           y == AddBatches(x, rs)
<1>1. new \subseteq Records /\ IsFiniteSet(new)
  BY FS_Subset
<1>2. /\ x.begin \in Nat /\ x.end \in Nat /\ x.accepted \in Nat /\ x.saved \in Nat
      /\ x.saved <= x.accepted /\ x.current \subseteq Messages
      /\ IsCells(x.recent) /\ (x.current # {} => x.begin <= x.end)
  BY DEF IsSeries
<1>3. \A r \in new : r.id \in Nat /\ r.begin \in Nat /\ r.end \in Nat /\ r.msg \in Messages
                     /\ r.begin <= r.end
  BY <1>1 DEF Records
<1>4. /\ y = [x EXCEPT !.accepted = Max(Ids), !.current = x.current \cup msgs,
                       !.begin = Min(Begins), !.end = Max(Ends)]
  BY DEF AddBatches, WithBatches
<1>5. x = [current |-> x.current, begin |-> x.begin, end |-> x.end,
           accepted |-> x.accepted, saved |-> x.saved, recent |-> x.recent]
  BY DEF IsSeries
<1>6. ASSUME NEW f, \A r \in new : f[r] \in Nat, NEW a \in Nat
      PROVE  LET T == {a} \cup {f[r] : r \in new}
             IN  IsFiniteSet(T) /\ T # {} /\ T \subseteq Nat
  <2>1. IsFiniteSet({f[r] : r \in new})
    BY <1>1, ImageFinite
  <2> DEFINE T == {f[r] : r \in new}
             U == T \cup {a}
  <2>2. {a} \cup T = U
    OBVIOUS
  <2>3. IsFiniteSet(U)
    <3> HIDE DEF T
    <3> QED
      BY <2>1, FS_AddElement DEF T
  <2>4. U # {} /\ U \subseteq Nat
    BY <1>6
  <2> HIDE DEF U
  <2> QED
    BY <2>2, <2>3, <2>4
<1> HIDE DEF new
<1>7. IsFiniteSet(Ids) /\ Ids # {} /\ Ids \subseteq Nat
  <2> DEFINE f == [r \in new |-> r.id]
             T == {x.accepted} \cup {f[r] : r \in new}
  <2>1. \A r \in new : f[r] \in Nat
    BY <1>3
  <2>2. Ids = T
    OBVIOUS
  <2> HIDE DEF f
  <2> QED
    BY <1>2, <1>6, <2>1, <2>2
<1>8. IsFiniteSet(Begins) /\ Begins # {} /\ Begins \subseteq Nat
  <2> DEFINE f == [r \in new |-> r.begin]
             T == {x.begin} \cup {f[r] : r \in new}
  <2>1. \A r \in new : f[r] \in Nat
    BY <1>3
  <2>2. Begins = T
    OBVIOUS
  <2> HIDE DEF f
  <2> QED
    BY <1>2, <1>6, <2>1, <2>2
<1>9. IsFiniteSet(Ends) /\ Ends # {} /\ Ends \subseteq Nat
  <2> DEFINE f == [r \in new |-> r.end]
             T == {x.end} \cup {f[r] : r \in new}
  <2>1. \A r \in new : f[r] \in Nat
    BY <1>3
  <2>2. Ends = T
    OBVIOUS
  <2> HIDE DEF f
  <2> QED
    BY <1>2, <1>6, <2>1, <2>2
<1> DEFINE top == Max(Ids)
           first == Min(Begins)
           final == Max(Ends)
<1>10. top \in Ids /\ top \in Nat /\ top >= x.accepted /\ \A r \in new : r.id <= top
  <2>1. Max(Ids) \in Ids /\ \A i \in Ids : Max(Ids) >= i
    <3> HIDE DEF Ids
    <3> QED
      BY <1>7, MaxExists
  <2> QED
    BY <1>2, <1>3, <1>7, <2>1
<1>11. first \in Nat /\ first <= x.begin /\ \A r \in new : first <= r.begin
  <2>1. Min(Begins) \in Begins /\ \A i \in Begins : Min(Begins) <= i
    <3> HIDE DEF Begins
    <3> QED
      BY <1>8, MinExists
  <2> QED
    BY <1>8, <2>1
<1>12. final \in Ends /\ final \in Nat /\ final >= x.end /\ \A r \in new : final >= r.end
  <2>1. Max(Ends) \in Ends /\ \A i \in Ends : Max(Ends) >= i
    <3> HIDE DEF Ends
    <3> QED
      BY <1>9, MaxExists
  <2> QED
    BY <1>9, <2>1
<1>19. top \in {x.accepted} \cup {r.id : r \in rs} /\ final \in {x.end} \cup {r.end : r \in rs}
  <2>1. new \subseteq rs
    BY DEF new
  <2> HIDE DEF top, final
  <2> QED
    BY <1>10, <1>12, <2>1
<1>20. \A r \in rs : r.id > x.accepted => first <= r.begin /\ final >= r.end
  BY <1>11, <1>12 DEF new
<1> HIDE DEF top, first, final, Ids, Begins, Ends, y
<1>13. y = [current |-> x.current \cup msgs, begin |-> first, end |-> final,
            accepted |-> top, saved |-> x.saved, recent |-> x.recent]
  <2> HIDE DEF msgs
  <2> QED
    BY <1>4, <1>5 DEF top, first, final
<1>14. /\ y.current = x.current \cup msgs /\ y.begin = first /\ y.end = final
       /\ y.accepted = top /\ y.saved = x.saved /\ y.recent = x.recent
  BY <1>13
<1>15. msgs \subseteq Messages
  BY <1>3
<1>16. y.current # {} => first <= final
  <2>1. CASE x.current # {}
    BY <1>2, <1>11, <1>12, <2>1
  <2>2. CASE msgs # {}
    <3>1. PICK r \in new : TRUE
      BY <2>2
    <3> QED
      BY <1>3, <1>11, <1>12, <3>1
  <2> QED
    BY <1>14, <2>1, <2>2
<1>17. IsSeries(y)
  <2> HIDE DEF msgs
  <2>1. y = [current |-> y.current, begin |-> y.begin, end |-> y.end,
             accepted |-> y.accepted, saved |-> y.saved, recent |-> y.recent]
    BY <1>13, <1>14
  <2> QED
    BY <1>2, <1>10, <1>11, <1>12, <1>14, <1>15, <1>16, <2>1 DEF IsSeries
<1>18. \A r \in rs : r.id <= top
  <2>1. \A r \in rs : r \in new \/ (r.id <= x.accepted /\ r.id \in Nat)
    BY <1>2 DEF new, Records
  <2> QED
    BY <1>2, <1>10, <2>1
<1> QED
  BY <1>10, <1>11, <1>12, <1>14, <1>17, <1>18, <1>19, <1>20 DEF y, new

----------------------------------------------------------------------------
(* The log.                                                                *)

LEMMA LoggedIs ==
    ASSUME NEW fs \in Seq(LogFiles)
    PROVE  IsFiniteSet(Logged(fs)) /\ Logged(fs) \subseteq Records
<1> DEFINE rg == [i \in DOMAIN fs |-> Range(fs[i].records)]
           T == {rg[i] : i \in DOMAIN fs}
<1>1. DOMAIN fs = 1 .. Len(fs) /\ Len(fs) \in Nat
  OBVIOUS
<1>2. IsFiniteSet(DOMAIN fs)
  BY <1>1, FS_Interval
<1>3. \A i \in DOMAIN fs : fs[i].records \in Seq(Records)
  <2>1. \A i \in DOMAIN fs : fs[i] \in LogFiles
    BY <1>1
  <2>2. \A f \in LogFiles : f.records \in Seq(Records)
    BY DEF LogFiles
  <2> QED
    BY <2>1, <2>2
<1>4. ASSUME NEW i \in DOMAIN fs PROVE IsFiniteSet(rg[i]) /\ rg[i] \subseteq Records
  <2> DEFINE q == fs[i].records
  <2>1. q \in Seq(Records) /\ DOMAIN q = 1 .. Len(q) /\ Len(q) \in Nat
    BY <1>3
  <2>2. IsFiniteSet(DOMAIN q)
    BY <2>1, FS_Interval
  <2>3. rg[i] = Range(q)
    OBVIOUS
  <2> HIDE DEF q, rg
  <2>4. Range(q) = {q[j] : j \in DOMAIN q}
    BY DEF Range
  <2>5. IsFiniteSet({q[j] : j \in DOMAIN q})
    BY <2>2, ImageFinite
  <2>6. Range(q) \subseteq Records
    BY <2>1, <2>4
  <2> QED
    BY <2>3, <2>4, <2>5, <2>6
<1>5. Logged(fs) = UNION T
  BY DEF Logged
<1> HIDE DEF rg
<1>6. IsFiniteSet(T) /\ \A t \in T : IsFiniteSet(t) /\ t \subseteq Records
  BY <1>2, <1>4, ImageFinite
<1> HIDE DEF T
<1>7. IsFiniteSet(UNION T)
  BY <1>6, FS_UNION
<1> QED
  BY <1>5, <1>6, <1>7

LEMMA KeptIs == Typed => Kept \subseteq Records
<1> SUFFICES ASSUME Typed PROVE Kept \subseteq Records
  OBVIOUS
<1>1. Logged(logs) \subseteq Records
  BY LoggedIs DEF Typed
<1>2. Range(buffer) \subseteq Records
  BY DEF Typed, Range
<1> QED
  BY <1>1, <1>2 DEF Kept

LEMMA RisingIs ==
    ASSUME NEW fs \in Seq(LogFiles)
    PROVE  Rising(fs) \subseteq Logged(fs) /\ IsFiniteSet(Rising(fs)) /\ Rising(fs) \subseteq Records
<1>1. Rising(fs) \subseteq Logged(fs)
  <2>1. ASSUME NEW r \in Rising(fs) PROVE r \in Logged(fs)
    <3> DEFINE at == UNION {{i} \X DOMAIN fs[i].records : i \in DOMAIN fs}
    <3>1. PICK p \in at : r = fs[p[1]].records[p[2]]
      BY <2>1 DEF Rising
    <3>2. p[1] \in DOMAIN fs /\ p[2] \in DOMAIN fs[p[1]].records
      BY <3>1
    <3> QED
      BY <3>1, <3>2 DEF Logged, Range
  <2> QED
    BY <2>1
<1> QED
  BY <1>1, LoggedIs, FS_Subset

\* The log with the buffer behind its newest file, and with a new file behind that.
WrittenLog == [logs EXCEPT ![Len(logs)].records = @ \o buffer]

RotatedLog ==
    Append([WrittenLog EXCEPT ![Len(logs)].last = nextId - 1],
           [name |-> nextId, last |-> 0, records |-> <<>>])

LEMMA WrittenLogIs ==
    ASSUME Typed
    PROVE  /\ WrittenLog \in Seq(LogFiles) /\ Len(WrittenLog) = Len(logs)
           /\ Len(logs) \in Nat \ {0} /\ DOMAIN logs = 1 .. Len(logs)
           /\ WrittenLog[Len(logs)].records = logs[Len(logs)].records \o buffer
           /\ \A i \in DOMAIN logs : /\ WrittenLog[i].name = logs[i].name
                                     /\ i # Len(logs) => WrittenLog[i] = logs[i]
<1> DEFINE n == Len(logs)
           w == logs[n].records \o buffer
           file == [logs[n] EXCEPT !.records = w]
<1>1. /\ logs \in Seq(LogFiles) /\ n \in Nat \ {0} /\ n \in DOMAIN logs /\ DOMAIN logs = 1 .. n
      /\ buffer \in Seq(Records) /\ logs[n] \in LogFiles
  BY DEF Typed
<1>2. w \in Seq(Records)
  BY <1>1 DEF LogFiles
<1>3. WrittenLog = [logs EXCEPT ![n] = file]
  BY DEF WrittenLog
<1>4. file \in LogFiles /\ file.records = w /\ file.name = logs[n].name
  <2> HIDE DEF w
  <2> QED
    BY <1>1, <1>2 DEF LogFiles
<1> HIDE DEF w, file, n
<1>5. WrittenLog \in Seq(LogFiles) /\ Len(WrittenLog) = n /\ WrittenLog[n] = file
  BY <1>1, <1>3, <1>4 DEF n
<1>6. \A i \in DOMAIN logs : i # n => WrittenLog[i] = logs[i]
  BY <1>1, <1>3
<1> QED
  BY <1>1, <1>4, <1>5, <1>6 DEF w, n

LEMMA RotatedLogIs ==
    ASSUME Typed
    PROVE  /\ RotatedLog \in Seq(LogFiles) /\ Len(RotatedLog) = Len(logs) + 1
           /\ RotatedLog[Len(logs) + 1] = [name |-> nextId, last |-> 0, records |-> <<>>]
           /\ RotatedLog[Len(logs)].last = nextId - 1
           /\ \A i \in DOMAIN logs : /\ RotatedLog[i].name = logs[i].name
                                     /\ RotatedLog[i].records = WrittenLog[i].records
                                     /\ i # Len(logs) => RotatedLog[i] = logs[i]
<1> DEFINE n == Len(logs)
           id == nextId - 1
           file == [WrittenLog[n] EXCEPT !.last = id]
           closed == [WrittenLog EXCEPT ![n] = file]
           empty == [name |-> nextId, last |-> 0, records |-> <<>>]
<1>1. /\ WrittenLog \in Seq(LogFiles) /\ Len(WrittenLog) = n
      /\ n \in Nat \ {0} /\ DOMAIN logs = 1 .. n
      /\ \A i \in DOMAIN logs : /\ WrittenLog[i].name = logs[i].name
                                /\ i # n => WrittenLog[i] = logs[i]
  BY WrittenLogIs
<1>2. RotatedLog = Append(closed, empty)
  BY DEF RotatedLog
<1>3. nextId \in Nat /\ id \in Nat /\ <<>> \in Seq(Records)
  BY DEF Typed
<1> HIDE DEF n, id
<1>4. WrittenLog[n] \in LogFiles
  BY <1>1
<1>5. /\ file \in LogFiles /\ file.records = WrittenLog[n].records
      /\ file.name = WrittenLog[n].name /\ file.last = id
  BY <1>3, <1>4 DEF LogFiles
<1>6. empty \in LogFiles
  BY <1>3 DEF LogFiles
<1> HIDE DEF file, empty
<1>7. closed \in Seq(LogFiles) /\ Len(closed) = n /\ closed[n] = file
  BY <1>1, <1>5
<1>8. \A i \in DOMAIN logs : i # n => closed[i] = WrittenLog[i]
  BY <1>1
<1> HIDE DEF closed
<1>9. /\ RotatedLog \in Seq(LogFiles) /\ Len(RotatedLog) = n + 1 /\ RotatedLog[n + 1] = empty
      /\ \A i \in DOMAIN logs : RotatedLog[i] = closed[i]
  BY <1>1, <1>2, <1>6, <1>7
<1>10. RotatedLog[n].last = nextId - 1
  BY <1>1, <1>5, <1>7, <1>9 DEF id
<1>11. ASSUME NEW i \in DOMAIN logs
       PROVE  /\ RotatedLog[i].name = logs[i].name
              /\ RotatedLog[i].records = WrittenLog[i].records
              /\ i # n => RotatedLog[i] = logs[i]
  <2>1. CASE i = n
    BY <1>1, <1>5, <1>7, <1>9, <2>1
  <2>2. CASE i # n
    BY <1>1, <1>8, <1>9, <2>2
  <2> QED
    BY <2>1, <2>2
<1> QED
  BY <1>9, <1>10, <1>11 DEF n, empty

\* The files that FlushShareLog leaves before the cleanup.
LEMMA FlushShareLogFiles ==
    ASSUME FlushShareLog
    PROVE  \E fs \in {WrittenLog, RotatedLog} :
             /\ logs' = SubSeq(fs, Old(fs) + 1, Len(fs))
             /\ fs = WrittenLog \/ \A i \in DOMAIN logs : logs[i].name # nextId
  BY DEF FlushShareLog, WrittenLog, RotatedLog

LEMMA FlushedFilesIs ==
    ASSUME Typed, NEW fs \in {WrittenLog, RotatedLog}
    PROVE  /\ fs \in Seq(LogFiles) /\ fs # <<>>
           /\ Logged(fs) = Logged(logs) \cup Range(buffer)
<1> DEFINE n == Len(logs)
<1>1. /\ WrittenLog \in Seq(LogFiles) /\ Len(WrittenLog) = n
      /\ n \in Nat \ {0} /\ DOMAIN logs = 1 .. n
      /\ WrittenLog[n].records = logs[n].records \o buffer
      /\ \A i \in DOMAIN logs : i # n => WrittenLog[i] = logs[i]
  BY WrittenLogIs
<1>2. /\ RotatedLog \in Seq(LogFiles) /\ Len(RotatedLog) = n + 1
      /\ RotatedLog[n + 1] = [name |-> nextId, last |-> 0, records |-> <<>>]
      /\ \A i \in DOMAIN logs : RotatedLog[i].records = WrittenLog[i].records
  BY RotatedLogIs
<1>3. logs[n].records \in Seq(Records) /\ buffer \in Seq(Records)
  <2>1. logs[n] \in LogFiles
    BY <1>1 DEF Typed
  <2> QED
    BY <2>1 DEF LogFiles, Typed
<1>4. Range(logs[n].records \o buffer) = Range(logs[n].records) \cup Range(buffer)
  BY <1>3, RangeConcatenation
<1> HIDE DEF n
<1>5. \A i \in 1 .. n : /\ i # n => Range(WrittenLog[i].records) = Range(logs[i].records)
                        /\ i = n => Range(WrittenLog[i].records) = Range(logs[i].records) \cup Range(buffer)
  BY <1>1, <1>4
<1>6. n \in 1 .. n /\ DOMAIN WrittenLog = 1 .. n
  BY <1>1
<1>7. Logged(WrittenLog) = Logged(logs) \cup Range(buffer)
  <2>1. \A r : r \in Logged(WrittenLog) <=> \E i \in 1 .. n : r \in Range(WrittenLog[i].records)
    BY <1>6 DEF Logged
  <2>2. \A r : r \in Logged(logs) <=> \E i \in 1 .. n : r \in Range(logs[i].records)
    BY <1>1 DEF Logged
  <2> QED
    BY <1>5, <1>6, <2>1, <2>2
<1>8. DOMAIN RotatedLog = 1 .. n + 1 /\ Range(RotatedLog[n + 1].records) = {}
  BY <1>1, <1>2 DEF Range
<1>9. Logged(RotatedLog) = Logged(WrittenLog)
  <2>1. \A i \in 1 .. n + 1 : i \in 1 .. n \/ i = n + 1
    BY <1>1
  <2>2. \A i \in 1 .. n : i \in 1 .. n + 1
    BY <1>1
  <2>3. \A r : r \in Logged(WrittenLog) <=> \E i \in 1 .. n : r \in Range(WrittenLog[i].records)
    BY <1>6 DEF Logged
  <2>4. \A r : r \in Logged(RotatedLog) <=> \E i \in 1 .. n + 1 : r \in Range(RotatedLog[i].records)
    BY <1>8 DEF Logged
  <2>5. \A i \in 1 .. n : Range(RotatedLog[i].records) = Range(WrittenLog[i].records)
    BY <1>1, <1>2
  <2>6. \A r : r \in Logged(RotatedLog) <=> r \in Logged(WrittenLog)
    <3> SUFFICES ASSUME NEW r PROVE r \in Logged(RotatedLog) <=> r \in Logged(WrittenLog)
      OBVIOUS
    <3>1. (\E i \in 1 .. n + 1 : r \in Range(RotatedLog[i].records))
            <=> \E i \in 1 .. n : r \in Range(WrittenLog[i].records)
      BY <1>8, <2>1, <2>2, <2>5
    <3> QED
      BY <2>3, <2>4, <3>1
  <2> QED
    BY <2>6
<1>10. WrittenLog # <<>> /\ RotatedLog # <<>>
  BY <1>1, <1>2
<1> QED
  BY <1>1, <1>2, <1>7, <1>9, <1>10

Rises(q) == \A i, j \in DOMAIN q : i < j => q[i].id < q[j].id

\* The order of the files is that of their names and that of the ids in them.
InOrder(fs) ==
    /\ \A i, j \in DOMAIN fs : i < j =>
         /\ fs[i].name < fs[j].name
         /\ \A r \in Range(fs[i].records), q \in Range(fs[j].records) : r.id < q.id
    /\ \A i \in DOMAIN fs : Rises(fs[i].records)

\* Every file but the newest one knows its last id.
Closed(fs) == \A i \in 1 .. Len(fs) - 1 : \A r \in Range(fs[i].records) : r.id <= fs[i].last

\* Replay of a log in order reads every record.
LEMMA RisingIsAll ==
    ASSUME NEW fs \in Seq(LogFiles), InOrder(fs)
    PROVE  Rising(fs) = Logged(fs)
<1> DEFINE at == UNION {{i} \X DOMAIN fs[i].records : i \in DOMAIN fs}
           record(p) == fs[p[1]].records[p[2]]
           before(o, p) == \/ fs[o[1]].name < fs[p[1]].name
                           \/ o[1] = p[1] /\ o[2] < p[2]
<1>1. Rising(fs) = {record(p) : p \in {p \in at : \A o \in at : before(o, p) => record(o).id < record(p).id}}
  BY DEF Rising
<1>2. DOMAIN fs = 1 .. Len(fs) /\ Len(fs) \in Nat /\ \A i \in DOMAIN fs : fs[i].name \in Nat
  <2>1. \A i \in DOMAIN fs : fs[i] \in LogFiles
    OBVIOUS
  <2> QED
    BY <2>1 DEF LogFiles
<1>3. \A p \in at : p[1] \in DOMAIN fs /\ p[2] \in DOMAIN fs[p[1]].records
  OBVIOUS
<1>4. ASSUME NEW p \in at, NEW o \in at, before(o, p) PROVE record(o).id < record(p).id
  <2>1. p[1] \in DOMAIN fs /\ o[1] \in DOMAIN fs
    BY <1>3
  <2>2. record(p) \in Range(fs[p[1]].records) /\ record(o) \in Range(fs[o[1]].records)
    BY <1>3 DEF Range
  <2>3. CASE fs[o[1]].name < fs[p[1]].name
    <3> DEFINE i == o[1]
               j == p[1]
    <3>1. i \in DOMAIN fs /\ j \in DOMAIN fs /\ fs[i].name < fs[j].name
      BY <2>1, <2>3
    <3> HIDE DEF i, j, record, at
    <3>2. i < j
      <4>1. j < i => fs[j].name < fs[i].name
        BY <3>1 DEF InOrder
      <4> QED
        BY <1>2, <3>1, <4>1
    <3>3. \A r \in Range(fs[i].records), q \in Range(fs[j].records) : r.id < q.id
      BY <3>1, <3>2 DEF InOrder
    <3> QED
      BY <2>2, <3>3 DEF i, j
  <2>4. CASE o[1] = p[1] /\ o[2] < p[2]
    <3>1. Rises(fs[p[1]].records)
      BY <2>1 DEF InOrder
    <3>2. o[2] \in DOMAIN fs[p[1]].records /\ p[2] \in DOMAIN fs[p[1]].records
      BY <1>3, <2>4
    <3> QED
      BY <2>4, <3>1, <3>2 DEF Rises
  <2> QED
    BY <1>4, <2>3, <2>4
<1>5. Rising(fs) = {record(p) : p \in at}
  <2> HIDE DEF at, record, before
  <2>1. {p \in at : \A o \in at : before(o, p) => record(o).id < record(p).id} = at
    BY <1>4
  <2> QED
    BY <1>1, <2>1
<1>6. ASSUME NEW r \in Logged(fs) PROVE \E p \in at : r = record(p)
  <2>1. PICK i \in DOMAIN fs : r \in Range(fs[i].records)
    BY DEF Logged
  <2>2. PICK j \in DOMAIN fs[i].records : r = fs[i].records[j]
    BY <2>1 DEF Range
  <2>3. <<i, j>> \in at
    BY <2>2
  <2> QED
    BY <2>2, <2>3
<1>7. \A p \in at : record(p) \in Logged(fs)
  BY <1>3 DEF Logged, Range
<1> HIDE DEF at, record
<1> QED
  BY <1>5, <1>6, <1>7

\* The oldest id that some series has not saved.
LEMMA AggregatedIs ==
    ASSUME Typed
    PROVE  /\ lastAggregatedShareId \in Nat
           /\ \A s \in Series : lastAggregatedShareId <= series[s].saved
<1> DEFINE a == [s \in Series |-> series[s].saved]
           T == {a[s] : s \in Series}
<1>1. \A s \in Series : a[s] = series[s].saved /\ a[s] \in Nat
  BY DEF Typed, IsSeries
<1>2. lastAggregatedShareId = Min(T)
  BY DEF lastAggregatedShareId
<1> HIDE DEF a
<1>3. IsFiniteSet(T)
  <2>1. IsFiniteSet(Series)
    BY GridIs, FS_Interval
  <2> QED
    BY <2>1, ImageFinite
<1>4. T # {} /\ T \subseteq Nat
  <2>1. 1 \in Series
    BY GridIs
  <2> QED
    BY <1>1, <2>1
<1>5. \A s \in Series : a[s] \in T
  OBVIOUS
<1> HIDE DEF T
<1>6. Min(T) \in T /\ \A y \in T : Min(T) <= y
  BY <1>3, <1>4, MinExists
<1> QED
  BY <1>1, <1>2, <1>4, <1>5, <1>6

\* cleanupOldFiles removes the first files, and only those whose ids every series
\* has saved.
LEMMA CleanedFiles ==
    ASSUME NEW fs \in Seq(LogFiles), fs # <<>>
    PROVE  /\ Old(fs) \in 0 .. Len(fs) - 1
           /\ \A i \in 1 .. Old(fs) : fs[i].last < lastAggregatedShareId
           /\ SubSeq(fs, Old(fs) + 1, Len(fs)) \in Seq(LogFiles)
           /\ Len(SubSeq(fs, Old(fs) + 1, Len(fs))) = Len(fs) - Old(fs)
           /\ \A i \in 1 .. Len(fs) - Old(fs) : SubSeq(fs, Old(fs) + 1, Len(fs))[i] = fs[Old(fs) + i]
<1> DEFINE K == {k \in 0 .. Len(fs) - 1 : \A i \in 1 .. k : fs[i].last < lastAggregatedShareId}
           k == Old(fs)
           n == Len(fs)
           rest == SubSeq(fs, k + 1, n)
<1>1. n \in Nat /\ n >= 1
  OBVIOUS
<1>2. K \subseteq 0 .. n - 1 /\ 0 \in K
  BY <1>1
<1>3. IsFiniteSet(K) /\ K \subseteq Nat /\ K # {}
  <2> DEFINE l == n - 1
  <2>1. l \in Nat
    BY <1>1
  <2>2. K \subseteq 0 .. l
    BY <1>2
  <2> HIDE DEF l, K
  <2>3. IsFiniteSet(0 .. l)
    BY <2>1, FS_Interval
  <2>4. IsFiniteSet(K)
    BY <2>2, <2>3, FS_Subset
  <2> QED
    BY <1>2, <2>1, <2>2, <2>4
<1>4. k = Max(K)
  BY DEF Old
<1>5. k \in K
  <2> HIDE DEF K, k
  <2> QED
    BY <1>3, <1>4, MaxExists
<1>6. k \in 0 .. n - 1 /\ \A i \in 1 .. k : fs[i].last < lastAggregatedShareId
  BY <1>5
<1> HIDE DEF K, k
<1>7. rest \in Seq(LogFiles) /\ Len(rest) = n - k /\ \A i \in 1 .. n - k : rest[i] = fs[k + i]
  BY <1>1, <1>6
<1> QED
  BY <1>6, <1>7 DEF k

LEMMA CleanedKeeps ==
    ASSUME Typed, NEW fs \in Seq(LogFiles), fs # <<>>
    PROVE  LET rest == SubSeq(fs, Old(fs) + 1, Len(fs))
           IN  /\ rest \in Seq(LogFiles) /\ rest # <<>> /\ Logged(rest) \subseteq Logged(fs)
               /\ InOrder(fs) => InOrder(rest)
               /\ Closed(fs) => Closed(rest)
               /\ Closed(fs) => \A r \in Logged(fs) : r \in Logged(rest) \/ r.id < lastAggregatedShareId
<1> DEFINE k == Old(fs)
           n == Len(fs)
           rest == SubSeq(fs, k + 1, n)
<1>1. /\ k \in 0 .. n - 1 /\ n \in Nat /\ DOMAIN fs = 1 .. n
      /\ \A i \in 1 .. k : fs[i].last < lastAggregatedShareId
      /\ rest \in Seq(LogFiles) /\ Len(rest) = n - k /\ DOMAIN rest = 1 .. n - k
      /\ \A i \in 1 .. n - k : rest[i] = fs[k + i]
  BY CleanedFiles
<1> HIDE DEF k, n, rest
<1>2. rest # <<>>
  <2>1. Len(rest) # 0
    BY <1>1
  <2> QED
    BY <2>1
<1>3. \A i \in DOMAIN rest : k + i \in DOMAIN fs /\ rest[i] = fs[k + i]
  BY <1>1
<1>4. Logged(rest) \subseteq Logged(fs)
  BY <1>3 DEF Logged
<1>5. ASSUME InOrder(fs) PROVE InOrder(rest)
  <2>1. ASSUME NEW i \in DOMAIN rest, NEW j \in DOMAIN rest, i < j
        PROVE  /\ rest[i].name < rest[j].name
               /\ \A r \in Range(rest[i].records), q \in Range(rest[j].records) : r.id < q.id
    <3>1. k + i < k + j
      BY <1>1, <2>1
    <3> QED
      BY <1>3, <1>5, <3>1 DEF InOrder
  <2>2. \A i \in DOMAIN rest : Rises(rest[i].records)
    BY <1>3, <1>5 DEF InOrder
  <2> QED
    BY <2>1, <2>2 DEF InOrder
<1>6. ASSUME Closed(fs) PROVE Closed(rest)
  <2> SUFFICES ASSUME NEW i \in 1 .. Len(rest) - 1 PROVE \A r \in Range(rest[i].records) : r.id <= rest[i].last
    BY DEF Closed
  <2>1. i \in DOMAIN rest /\ k + i \in 1 .. n - 1
    BY <1>1
  <2> QED
    BY <1>3, <1>6, <2>1 DEF Closed, n
<1>7. ASSUME Closed(fs), NEW r \in Logged(fs) PROVE r \in Logged(rest) \/ r.id < lastAggregatedShareId
  <2>1. PICK i \in DOMAIN fs : r \in Range(fs[i].records)
    BY DEF Logged
  <2>2. CASE i <= k
    <3>1. i \in 1 .. k /\ i \in 1 .. n - 1
      BY <1>1, <2>2
    <3>2. r.id <= fs[i].last /\ fs[i].last < lastAggregatedShareId
      BY <1>1, <1>7, <2>1, <3>1 DEF Closed, n
    <3>3. r.id \in Nat /\ fs[i].last \in Nat /\ lastAggregatedShareId \in Nat
      <4>1. fs[i] \in LogFiles /\ Logged(fs) \subseteq Records
        BY <1>1, <2>1, LoggedIs
      <4> QED
        BY <4>1, AggregatedIs DEF LogFiles, Records
    <3> QED
      BY <3>2, <3>3
  <2>3. CASE ~(i <= k)
    <3> DEFINE j == i - k
    <3>1. j \in DOMAIN rest /\ k + j = i
      BY <1>1, <2>3
    <3>2. rest[j] = fs[i]
      BY <1>3, <3>1
    <3> QED
      BY <2>1, <3>1, <3>2 DEF Logged
  <2> QED
    BY <2>2, <2>3
<1> QED
  BY <1>1, <1>2, <1>4, <1>5, <1>6, <1>7 DEF rest, k, n

LEMMA FlushShareLogIs ==
    ASSUME Typed, FlushShareLog
    PROVE  /\ logs' \in Seq(LogFiles) /\ logs' # <<>>
           /\ Logged(logs') \subseteq Logged(logs) \cup Range(buffer)
<1>1. PICK fs \in {WrittenLog, RotatedLog} : logs' = SubSeq(fs, Old(fs) + 1, Len(fs))
  BY FlushShareLogFiles
<1>2. fs \in Seq(LogFiles) /\ fs # <<>> /\ Logged(fs) = Logged(logs) \cup Range(buffer)
  BY FlushedFilesIs
<1> QED
  BY <1>1, <1>2, CleanedKeeps

\* What a flush of the log preserves: the new records come behind all others, and
\* a new file gets the greatest name.
LEMMA FlushShareLogKeeps ==
    ASSUME Typed, FlushShareLog, InOrder(logs), Closed(logs), Rises(buffer),
           \A r \in Logged(logs), q \in Range(buffer) : r.id < q.id,
           \A r \in Kept : r.id < nextId, \A i \in DOMAIN logs : logs[i].name <= nextId
    PROVE  /\ InOrder(logs') /\ Closed(logs')
           /\ \A r \in Kept : r \in Logged(logs') \/ r.id < lastAggregatedShareId
<1> DEFINE n == Len(logs)
<1>1. /\ WrittenLog \in Seq(LogFiles) /\ Len(WrittenLog) = n
      /\ n \in Nat \ {0} /\ DOMAIN logs = 1 .. n
      /\ WrittenLog[n].records = logs[n].records \o buffer
      /\ \A i \in DOMAIN logs : /\ WrittenLog[i].name = logs[i].name
                                /\ i # n => WrittenLog[i] = logs[i]
  BY WrittenLogIs
<1>2. /\ RotatedLog \in Seq(LogFiles) /\ Len(RotatedLog) = n + 1
      /\ RotatedLog[n + 1] = [name |-> nextId, last |-> 0, records |-> <<>>]
      /\ RotatedLog[n].last = nextId - 1
      /\ \A i \in DOMAIN logs : /\ RotatedLog[i].name = logs[i].name
                                /\ RotatedLog[i].records = WrittenLog[i].records
                                /\ i # n => RotatedLog[i] = logs[i]
  BY RotatedLogIs
<1>3. /\ logs[n].records \in Seq(Records) /\ buffer \in Seq(Records) /\ nextId \in Nat
      /\ \A i \in DOMAIN logs : logs[i].name \in Nat
  <2>1. \A i \in DOMAIN logs : logs[i] \in LogFiles
    BY <1>1 DEF Typed
  <2>2. \A f \in LogFiles : f.name \in Nat /\ f.records \in Seq(Records)
    BY DEF LogFiles
  <2>3. n \in DOMAIN logs
    BY <1>1
  <2>4. buffer \in Seq(Records) /\ nextId \in Nat
    BY DEF Typed
  <2> HIDE DEF n
  <2> QED
    BY <2>1, <2>2, <2>3, <2>4
<1>4. Range(logs[n].records \o buffer) = Range(logs[n].records) \cup Range(buffer)
  BY <1>3, RangeConcatenation
<1> HIDE DEF n
<1>5. Rises(logs[n].records \o buffer)
  <2> DEFINE p == logs[n].records
             m == Len(p)
  <2>1. /\ p \in Seq(Records) /\ Rises(p) /\ \A r \in Range(p), q \in Range(buffer) : r.id < q.id
        /\ m \in Nat
    <3>1. n \in DOMAIN logs
      BY <1>1
    <3>2. Rises(p) /\ Range(p) \subseteq Logged(logs)
      BY <3>1 DEF InOrder, Logged
    <3> QED
      BY <1>3, <3>2
  <2> HIDE DEF p, m
  <2>2. /\ Len(p \o buffer) = m + Len(buffer) /\ Len(buffer) \in Nat
        /\ \A i \in 1 .. m : (p \o buffer)[i] = p[i] /\ i \in DOMAIN p
        /\ \A i \in m + 1 .. m + Len(buffer) : (p \o buffer)[i] = buffer[i - m] /\ i - m \in DOMAIN buffer
        /\ DOMAIN (p \o buffer) = 1 .. m + Len(buffer)
    BY <1>3, <2>1 DEF m
  <2> DEFINE w == p \o buffer
  <2> HIDE DEF w
  <2>3. /\ DOMAIN w = 1 .. m + Len(buffer)
        /\ \A i \in 1 .. m : w[i] = p[i] /\ i \in DOMAIN p
        /\ \A i \in m + 1 .. m + Len(buffer) : w[i] = buffer[i - m] /\ i - m \in DOMAIN buffer
    BY <2>2 DEF w
  <2>4. ASSUME NEW i \in DOMAIN w, NEW j \in DOMAIN w, i < j PROVE w[i].id < w[j].id
    <3>1. CASE j <= m
      <4>1. i \in 1 .. m /\ j \in 1 .. m
        BY <2>1, <2>3, <2>4, <3>1
      <4> QED
        BY <2>1, <2>3, <2>4, <4>1 DEF Rises
    <3>2. CASE i <= m /\ m < j
      <4>1. i \in 1 .. m /\ j \in m + 1 .. m + Len(buffer)
        BY <2>1, <2>2, <2>3, <2>4, <3>2
      <4>2. w[i] \in Range(p) /\ w[j] \in Range(buffer)
        BY <2>3, <4>1 DEF Range
      <4> QED
        BY <2>1, <4>2
    <3>3. CASE m < i
      <4>1. i \in m + 1 .. m + Len(buffer) /\ j \in m + 1 .. m + Len(buffer) /\ i - m < j - m
        BY <2>1, <2>2, <2>3, <2>4, <3>3
      <4> QED
        BY <2>3, <4>1 DEF Rises
    <3> QED
      BY <2>1, <2>2, <2>3, <2>4, <3>1, <3>2, <3>3
  <2> QED
    BY <2>4 DEF Rises, w, p
<1>6. \A i \in 1 .. n : /\ Rises(WrittenLog[i].records)
                        /\ WrittenLog[i].name = logs[i].name
                        /\ i # n => WrittenLog[i] = logs[i]
  BY <1>1, <1>5 DEF InOrder
<1>7. ASSUME NEW i \in 1 .. n, NEW j \in 1 .. n, i < j
      PROVE  /\ WrittenLog[i].name < WrittenLog[j].name
             /\ \A r \in Range(WrittenLog[i].records), q \in Range(WrittenLog[j].records) : r.id < q.id
  <2>1. i # n /\ logs[i].name < logs[j].name
        /\ \A r \in Range(logs[i].records), q \in Range(logs[j].records) : r.id < q.id
    BY <1>1, <1>7 DEF InOrder
  <2>2. \A r \in Range(logs[i].records) : r \in Logged(logs)
    BY <1>1 DEF Logged
  <2>3. CASE j # n
    BY <1>6, <2>1, <2>3
  <2>4. CASE j = n
    <3>1. Range(WrittenLog[j].records) = Range(logs[j].records) \cup Range(buffer)
      BY <1>1, <1>4, <2>4
    <3> QED
      BY <1>6, <2>1, <2>2, <3>1
  <2> QED
    BY <2>3, <2>4
<1>8. InOrder(WrittenLog)
  <2>1. DOMAIN WrittenLog = 1 .. n
    BY <1>1
  <2> QED
    BY <1>6, <1>7, <2>1 DEF InOrder
<1>9. Closed(WrittenLog)
  <2>1. \A i \in 1 .. n - 1 : i \in 1 .. n /\ i # n
    BY <1>1
  <2> QED
    BY <1>1, <1>6, <2>1 DEF Closed, n
<1>10. ASSUME \A i \in DOMAIN logs : logs[i].name # nextId
       PROVE  InOrder(RotatedLog) /\ Closed(RotatedLog)
  <2>1. /\ DOMAIN RotatedLog = 1 .. n + 1
        /\ Range(RotatedLog[n + 1].records) = {} /\ RotatedLog[n + 1].name = nextId
        /\ Rises(RotatedLog[n + 1].records)
    BY <1>1, <1>2 DEF Range, Rises
  <2>2. \A i \in 1 .. n + 1 : i \in 1 .. n \/ i = n + 1
    BY <1>1
  <2>3. \A i \in 1 .. n : /\ RotatedLog[i].name = logs[i].name
                          /\ RotatedLog[i].records = WrittenLog[i].records
                          /\ logs[i].name < nextId
    BY <1>1, <1>2, <1>3, <1>10
  <2>4. ASSUME NEW i \in 1 .. n + 1, NEW j \in 1 .. n + 1, i < j
        PROVE  /\ RotatedLog[i].name < RotatedLog[j].name
               /\ \A r \in Range(RotatedLog[i].records), q \in Range(RotatedLog[j].records) : r.id < q.id
    <3>1. i \in 1 .. n
      BY <1>1, <2>4
    <3>2. CASE j \in 1 .. n
      BY <1>6, <1>7, <2>3, <2>4, <3>1, <3>2
    <3>3. CASE j = n + 1
      BY <2>1, <2>3, <3>1, <3>3
    <3> QED
      BY <2>2, <3>2, <3>3
  <2>5. \A i \in 1 .. n + 1 : Rises(RotatedLog[i].records)
    BY <1>6, <2>1, <2>2, <2>3
  <2>6. InOrder(RotatedLog)
    BY <2>1, <2>4, <2>5 DEF InOrder
  <2>7. ASSUME NEW i \in 1 .. n, NEW r \in Range(RotatedLog[i].records)
        PROVE  r.id <= RotatedLog[i].last
    <3>1. CASE i = n
      <4>1. r \in Range(logs[n].records) \cup Range(buffer) /\ n \in DOMAIN logs
        BY <1>1, <1>4, <2>3, <2>7, <3>1
      <4>2. r \in Kept
        BY <4>1 DEF Kept, Logged
      <4>3. r.id < nextId /\ r.id \in Nat
        <5>1. Kept \subseteq Records
          BY KeptIs
        <5> QED
          BY <4>2, <5>1 DEF Records
      <4> QED
        BY <1>2, <1>3, <3>1, <4>3
    <3>2. CASE i # n
      <4>1. i \in DOMAIN logs /\ i \in 1 .. n - 1
        BY <1>1, <3>2
      <4>2. RotatedLog[i] = logs[i]
        BY <1>2, <3>2, <4>1
      <4> QED
        BY <2>7, <4>1, <4>2 DEF Closed, n
    <3> QED
      BY <3>1, <3>2
  <2>8. Closed(RotatedLog)
    <3>1. Len(RotatedLog) - 1 = n
      BY <1>1, <1>2
    <3> QED
      BY <2>7, <3>1 DEF Closed
  <2> QED
    BY <2>6, <2>8
<1>11. PICK fs \in {WrittenLog, RotatedLog} :
         /\ logs' = SubSeq(fs, Old(fs) + 1, Len(fs))
         /\ fs = WrittenLog \/ \A i \in DOMAIN logs : logs[i].name # nextId
  BY FlushShareLogFiles
<1>12. InOrder(fs) /\ Closed(fs)
  BY <1>8, <1>9, <1>10, <1>11
<1>13. fs \in Seq(LogFiles) /\ fs # <<>> /\ Logged(fs) = Kept
  BY FlushedFilesIs DEF Kept
<1> QED
  BY <1>11, <1>12, <1>13, CleanedKeeps

LEMMA ReadFileIs ==
    ASSUME NEW f \in LogFiles
    PROVE  /\ ReadFile(f) \in LogFiles /\ ReadFile(f).records = f.records /\ ReadFile(f).name = f.name
           /\ Rises(f.records) => \A r \in Range(f.records) : r.id <= ReadFile(f).last
<1> DEFINE q == f.records
           last == IF q = <<>> THEN 0 ELSE Last(q).id
<1>1. q \in Seq(Records) /\ f.name \in Nat /\ f = [name |-> f.name, last |-> f.last, records |-> q]
  BY DEF LogFiles
<1>2. ReadFile(f) = [f EXCEPT !.last = last]
  BY DEF ReadFile
<1> HIDE DEF q
<1>3. q # <<>> => Len(q) \in DOMAIN q /\ last = q[Len(q)].id /\ q[Len(q)] \in Records
  BY <1>1 DEF Last
<1>4. last \in Nat
  BY <1>3 DEF Records
<1>5. ASSUME Rises(q), NEW r \in Range(q) PROVE r.id <= last
  <2>1. PICK i \in DOMAIN q : r = q[i]
    BY DEF Range
  <2>2. q # <<>> /\ Len(q) \in Nat /\ i \in 1 .. Len(q) /\ q[i] \in Records
    BY <1>1, <2>1
  <2>3. i # Len(q) => q[i].id < q[Len(q)].id
    BY <1>3, <1>5, <2>1, <2>2 DEF Rises
  <2>4. q[i].id \in Nat /\ q[Len(q)].id \in Nat
    BY <1>3, <2>2 DEF Records
  <2> QED
    BY <1>3, <2>1, <2>2, <2>3, <2>4
<1> HIDE DEF last
<1>6. ReadFile(f) = [name |-> f.name, last |-> last, records |-> q]
  BY <1>1, <1>2
<1>7. ReadFile(f) \in LogFiles
  BY <1>1, <1>4, <1>6 DEF LogFiles
<1>8. ReadFile(f).records = q /\ ReadFile(f).name = f.name /\ ReadFile(f).last = last
  BY <1>6
<1> QED
  BY <1>5, <1>7, <1>8 DEF q

\* A restart reads the files in the order of their names.
LEMMA StartLogFiles ==
    ASSUME Typed, Start
    PROVE  /\ logs' \in Seq(LogFiles) /\ logs' # <<>>
           /\ \A k \in DOMAIN logs' : \E i \in DOMAIN logs : logs'[k] = ReadFile(logs[i])
           /\ \A j, k \in DOMAIN logs' : j < k => logs'[j].name < logs'[k].name
           /\ \A i \in DOMAIN logs : \E k \in DOMAIN logs' : logs'[k].name = logs[i].name
<1> DEFINE nm == [i \in DOMAIN logs |-> logs[i].name]
           N == {nm[i] : i \in DOMAIN logs}
           names == Ascending(N)
           n == Cardinality(N)
           file(k) == CHOOSE f \in Range(logs) : f.name = names[k]
<1>1. logs \in Seq(LogFiles) /\ logs # <<>> /\ DOMAIN logs = 1 .. Len(logs) /\ Len(logs) \in Nat
  BY DEF Typed
<1>2. \A i \in DOMAIN logs : logs[i] \in LogFiles /\ nm[i] = logs[i].name /\ nm[i] \in Nat
  <2>1. \A i \in DOMAIN logs : logs[i] \in LogFiles
    BY <1>1
  <2>2. \A f \in LogFiles : f.name \in Nat
    BY DEF LogFiles
  <2> QED
    BY <2>1, <2>2
<1>3. N = {logs[i].name : i \in DOMAIN logs}
  OBVIOUS
<1>4. logs' = [k \in DOMAIN names |-> ReadFile(file(k))]
  <2> DEFINE M == {logs[i].name : i \in DOMAIN logs}
  <2>1. logs' = [k \in DOMAIN Ascending(M) |->
                   ReadFile(CHOOSE f \in Range(logs) : f.name = Ascending(M)[k])]
    BY DEF Start
  <2> HIDE DEF M, N
  <2>2. N = M
    BY <1>3 DEF M
  <2> QED
    BY <2>1, <2>2
<1>5. N \subseteq Nat /\ N # {}
  <2>1. 1 \in DOMAIN logs
    BY <1>1
  <2> HIDE DEF nm
  <2> QED
    BY <1>2, <2>1
<1>6. IsFiniteSet(N)
  <2>1. IsFiniteSet(DOMAIN logs)
    BY <1>1, FS_Interval
  <2> HIDE DEF nm
  <2> QED
    BY <2>1, ImageFinite
<1>7. n \in Nat /\ n # 0
  <2> HIDE DEF N
  <2> QED
    BY <1>5, <1>6, FS_CardinalityType, FS_EmptySet
<1>8. /\ names \in [1 .. n -> N] /\ DOMAIN names = 1 .. n
      /\ \A j, k \in 1 .. n : j < k => names[j] < names[k]
      /\ \A a \in N : \E k \in 1 .. n : names[k] = a
  <2> HIDE DEF N
  <2> QED
    BY <1>5, <1>6, AscendingIs
<1> HIDE DEF names, n
<1>9. ASSUME NEW k \in 1 .. n PROVE file(k) \in Range(logs) /\ file(k).name = names[k]
  <2>1. \E i \in DOMAIN logs : logs[i].name = names[k]
    BY <1>8
  <2>2. \E f \in Range(logs) : f.name = names[k]
    BY <2>1 DEF Range
  <2> QED
    BY <2>2
<1>10. \A i \in DOMAIN logs : logs[i].name \in N
  OBVIOUS
<1> HIDE DEF file, N
<1>11. DOMAIN logs' = 1 .. n /\ \A k \in 1 .. n : logs'[k] = ReadFile(file(k))
  BY <1>4, <1>8
<1>12. ASSUME NEW k \in 1 .. n
       PROVE  /\ logs'[k] \in LogFiles /\ logs'[k].name = names[k]
              /\ \E i \in DOMAIN logs : logs'[k] = ReadFile(logs[i])
  <2>1. PICK i \in DOMAIN logs : file(k) = logs[i]
    BY <1>9 DEF Range
  <2>2. logs'[k] = ReadFile(logs[i]) /\ logs[i].name = names[k] /\ logs[i] \in LogFiles
    BY <1>2, <1>9, <1>11, <2>1
  <2> QED
    BY <2>2, ReadFileIs
<1>13. logs' \in Seq(LogFiles) /\ Len(logs') = n
  <2>1. logs' = [k \in 1 .. n |-> logs'[k]]
    BY <1>4, <1>11
  <2>2. \A k \in 1 .. n : logs'[k] \in LogFiles
    BY <1>12
  <2> QED
    BY <1>7, <2>1, <2>2
<1>14. logs' # <<>>
  BY <1>7, <1>13
<1>15. \A j, k \in DOMAIN logs' : j < k => logs'[j].name < logs'[k].name
  BY <1>8, <1>11, <1>12
<1>16. \A i \in DOMAIN logs : \E k \in DOMAIN logs' : logs'[k].name = logs[i].name
  BY <1>8, <1>10, <1>11, <1>12
<1> QED
  BY <1>11, <1>12, <1>13, <1>14, <1>15, <1>16

LEMMA StartLogIs ==
    ASSUME Typed, Start
    PROVE  logs' \in Seq(LogFiles) /\ logs' # <<>> /\ Logged(logs') \subseteq Logged(logs)
<1>1. \A i \in DOMAIN logs : logs[i] \in LogFiles
  BY DEF Typed
<1>2. \A k \in DOMAIN logs' : \E i \in DOMAIN logs : logs'[k].records = logs[i].records
  BY <1>1, StartLogFiles, ReadFileIs
<1>3. Logged(logs') \subseteq Logged(logs)
  BY <1>2 DEF Logged
<1> QED
  BY <1>3, StartLogFiles

\* A restart loses nothing of a log that is in order.
LEMMA StartLogKeeps ==
    ASSUME Typed, Start, InOrder(logs)
    PROVE  InOrder(logs') /\ Closed(logs') /\ Logged(logs') = Logged(logs)
<1>1. /\ logs' \in Seq(LogFiles) /\ DOMAIN logs' = 1 .. Len(logs') /\ Len(logs') \in Nat
      /\ \A k \in DOMAIN logs' : \E i \in DOMAIN logs : logs'[k] = ReadFile(logs[i])
      /\ \A j, k \in DOMAIN logs' : j < k => logs'[j].name < logs'[k].name
      /\ \A i \in DOMAIN logs : \E k \in DOMAIN logs' : logs'[k].name = logs[i].name
  BY StartLogFiles
<1>2. /\ \A i \in DOMAIN logs : logs[i] \in LogFiles /\ logs[i].name \in Nat
      /\ DOMAIN logs = 1 .. Len(logs) /\ Len(logs) \in Nat
  <2>1. \A f \in LogFiles : f.name \in Nat
    BY DEF LogFiles
  <2> QED
    BY <2>1 DEF Typed
<1> DEFINE IsFile(k, i) == /\ logs'[k].name = logs[i].name /\ logs'[k].records = logs[i].records
                           /\ \A r \in Range(logs[i].records) : r.id <= logs'[k].last
<1>3. \A k \in DOMAIN logs' : \E i \in DOMAIN logs : IsFile(k, i)
  <2> SUFFICES ASSUME NEW k \in DOMAIN logs' PROVE \E i \in DOMAIN logs : IsFile(k, i)
    OBVIOUS
  <2>1. PICK i \in DOMAIN logs : logs'[k] = ReadFile(logs[i])
    BY <1>1
  <2>2. Rises(logs[i].records) /\ logs[i] \in LogFiles
    BY <1>2 DEF InOrder
  <2> QED
    BY <2>1, <2>2, ReadFileIs
<1>4. ASSUME NEW i \in DOMAIN logs, NEW j \in DOMAIN logs, logs[i].name < logs[j].name
      PROVE  \A r \in Range(logs[i].records), q \in Range(logs[j].records) : r.id < q.id
  <2>1. i < j
    <3>1. j < i => logs[j].name < logs[i].name
      BY DEF InOrder
    <3> QED
      BY <1>2, <1>4, <3>1
  <2> QED
    BY <2>1 DEF InOrder
<1>5. ASSUME NEW i \in DOMAIN logs, NEW j \in DOMAIN logs, logs[i].name = logs[j].name
      PROVE  i = j
  <2>1. (i < j => logs[i].name < logs[j].name) /\ (j < i => logs[j].name < logs[i].name)
    BY DEF InOrder
  <2> QED
    BY <1>2, <1>5, <2>1
<1>6. InOrder(logs')
  <2>1. ASSUME NEW j \in DOMAIN logs', NEW k \in DOMAIN logs', j < k
        PROVE  /\ logs'[j].name < logs'[k].name
               /\ \A r \in Range(logs'[j].records), q \in Range(logs'[k].records) : r.id < q.id
    <3>1. logs'[j].name < logs'[k].name
      BY <1>1, <2>1
    <3>2. PICK a \in DOMAIN logs : IsFile(j, a)
      BY <1>3
    <3>3. PICK b \in DOMAIN logs : IsFile(k, b)
      BY <1>3
    <3>4. \A r \in Range(logs[a].records), q \in Range(logs[b].records) : r.id < q.id
      BY <1>4, <3>1, <3>2, <3>3
    <3> QED
      BY <3>1, <3>2, <3>3, <3>4
  <2>2. \A k \in DOMAIN logs' : Rises(logs'[k].records)
    BY <1>3 DEF InOrder
  <2> HIDE DEF IsFile
  <2>3. /\ \A j, k \in DOMAIN logs' : j < k =>
              /\ logs'[j].name < logs'[k].name
              /\ \A r \in Range(logs'[j].records), q \in Range(logs'[k].records) : r.id < q.id
        /\ \A k \in DOMAIN logs' : Rises(logs'[k].records)
    BY <2>1, <2>2
  <2> QED
    BY <2>3 DEF InOrder
<1>7. Closed(logs')
  <2> SUFFICES ASSUME NEW k \in 1 .. Len(logs') - 1, NEW r \in Range(logs'[k].records)
               PROVE  r.id <= logs'[k].last
    BY DEF Closed
  <2>1. k \in DOMAIN logs'
    BY <1>1
  <2> QED
    BY <1>3, <2>1
<1>8. ASSUME NEW r \in Logged(logs) PROVE r \in Logged(logs')
  <2>1. PICK i \in DOMAIN logs : r \in Range(logs[i].records)
    BY DEF Logged
  <2>2. PICK k \in DOMAIN logs' : logs'[k].name = logs[i].name
    BY <1>1
  <2>3. PICK j \in DOMAIN logs : IsFile(k, j)
    BY <1>3
  <2>4. i = j
    BY <1>5, <2>2, <2>3
  <2>5. r \in Range(logs'[k].records)
    BY <2>1, <2>3, <2>4
  <2> QED
    BY <2>5 DEF Logged
<1>9. Logged(logs') \subseteq Logged(logs)
  BY <1>3 DEF Logged
<1> QED
  BY <1>6, <1>7, <1>8, <1>9

----------------------------------------------------------------------------
(* How often the history counts a batch: what each action does to a series *)
(* and its history.                                                        *)

LEMMA FlushCounted ==
    ASSUME NEW x, IsSeries(x), NEW h, IsCells(h), NEW g \in Nat \ {0}, NEW n \in Nat, NEW d \in Nat,
           NEW K, K \subseteq Records, NEW saved \in Nat, saved <= x.accepted,
           Counted(x, h, K, saved, d), Known(x, h, n)
    PROVE  /\ Counted(Flushed(x, g), Merged(h, x, g), K, x.accepted, d)
           /\ Known(Flushed(x, g), Merged(h, x, g), n)
           /\ IsCells(Merged(h, x, g))
           /\ \A m \in Messages : CellSum(Merged(h, x, g), m) <= Units * (d + 1)
<1> DEFINE C == Contribution(x, g)
           h2 == Merged(h, x, g)
           U == Units * d
<1>1. U \in Nat /\ Units \in Nat /\ Units * (d + 1) = U + Units
  BY StatsAssumptions
<1>2. IsCells(C) /\ IsCells(h2)
  BY ContributionCells, AddCellsIs DEF Merged
<1>3. \A m \in Messages : CellSum(h2, m) = CellSum(h, m) + CellSum(C, m) /\ CellSum(h, m) \in Nat
  BY <1>2, AddCellsSum DEF Merged
<1>4. \A m \in Messages : /\ CellSum(C, m) \in Nat /\ CellSum(C, m) <= Units
                          /\ m \notin x.current => CellSum(C, m) = 0
  BY ContributionSum
<1>5. /\ \A m \in Messages : CellSum(h, m) <= U + Units
      /\ \A m \in x.current : CellSum(h, m) <= U
      /\ \A r \in K : CellSum(h, r.msg) > U => r.id <= saved
      /\ \A r \in K : r.msg \in x.current => r.id <= x.accepted
      /\ \A m \in x.current : m <= n
      /\ \A m \in Messages : m > n => CellSum(h, m) = 0
  BY DEF Counted, Known
<1>6. x.accepted \in Nat /\ x.current \subseteq Messages /\ Messages \subseteq Nat
  BY DEF IsSeries, Messages
<1>7. Flushed(x, g).current = {}
  BY FlushedIs
<1>8. \A r \in K : r.msg \in Messages /\ r.id \in Nat
  BY DEF Records
<1> HIDE DEF C, h2, U
<1>9. \A m \in Messages : CellSum(h2, m) <= U + Units
  BY <1>1, <1>3, <1>4, <1>5
<1>10. ASSUME NEW r \in K, CellSum(h2, r.msg) > U PROVE r.id <= x.accepted
  <2>1. CASE r.msg \in x.current
    BY <1>5, <2>1
  <2>2. CASE r.msg \notin x.current
    <3>1. CellSum(h2, r.msg) = CellSum(h, r.msg)
      BY <1>3, <1>4, <1>8, <2>2
    <3>2. r.id <= saved
      BY <1>5, <1>10, <3>1
    <3> QED
      BY <1>6, <1>8, <3>2
  <2> QED
    BY <2>1, <2>2
<1>11. \A m \in Messages : m > n => CellSum(h2, m) = 0
  <2> SUFFICES ASSUME NEW m \in Messages, m > n PROVE CellSum(h2, m) = 0
    OBVIOUS
  <2>1. m \notin x.current
    BY <1>5, <1>6
  <2> QED
    BY <1>3, <1>4, <1>5, <2>1
<1>12. Counted(Flushed(x, g), h2, K, x.accepted, d)
  BY <1>7, <1>9, <1>10 DEF Counted, U
<1>13. Known(Flushed(x, g), h2, n)
  BY <1>7, <1>11 DEF Known
<1> QED
  BY <1>1, <1>2, <1>9, <1>12, <1>13 DEF h2

\* A crash that loses no id leaves less to replay; behind one that does, every
\* batch of the log may be replayed.
LEMMA CrashCounted ==
    ASSUME NEW x, NEW h, NEW n \in Nat, NEW d \in Nat, NEW K, K \subseteq Records, NEW L, L \subseteq K,
           NEW saved \in Nat, NEW id \in Nat, Counted(x, h, K, saved, d), Known(x, h, n)
    PROVE  /\ id >= saved => Counted(EmptySeries, h, L, id, d)
           /\ Known(EmptySeries, h, n)
           /\ \A m \in Messages : CellSum(h, m) <= Units * (d + 1)
<1>1. Units * d + Units = Units * (d + 1)
  BY StatsAssumptions
<1>2. EmptySeries.current = {}
  BY EmptyIs
<1>3. \A r \in L : r.id \in Nat
  BY DEF Records
<1>4. /\ \A m \in Messages : CellSum(h, m) <= Units * d + Units
      /\ \A r \in L : CellSum(h, r.msg) > Units * d => r.id <= saved
      /\ \A m \in Messages : m > n => CellSum(h, m) = 0
  BY DEF Counted, Known
<1>5. ASSUME id >= saved
      PROVE  \A r \in L : CellSum(h, r.msg) > Units * d => r.id <= id
  BY <1>3, <1>4, <1>5
<1> QED
  BY <1>1, <1>2, <1>4, <1>5 DEF Counted, Known

LEMMA LostCounted ==
    ASSUME NEW h, IsCells(h), NEW d \in Nat, NEW K, K \subseteq Records, NEW saved,
           \A m \in Messages : CellSum(h, m) <= Units * (d + 1)
    PROVE  Counted(EmptySeries, h, K, saved, d + 1)
<1> DEFINE U == Units * (d + 1)
<1>1. U \in Nat /\ Units \in Nat
  BY StatsAssumptions
<1>2. EmptySeries.current = {}
  BY EmptyIs
<1>3. \A r \in K : r.msg \in Messages
  BY DEF Records
<1>4. \A m \in Messages : CellSum(h, m) \in Nat /\ CellSum(h, m) <= U
  BY AddCellsSum
<1> HIDE DEF U
<1>5. \A m \in Messages : CellSum(h, m) <= U + Units /\ ~(CellSum(h, m) > U)
  BY <1>1, <1>4
<1> QED
  BY <1>2, <1>3, <1>5 DEF Counted, U

\* Replay takes only batches that may be counted again.
LEMMA ReplayCounted ==
    ASSUME NEW x, IsSeries(x), x.current = {}, x.saved = x.accepted, NEW h, IsCells(h),
           NEW n \in Nat, NEW d \in Nat, NEW K, K \subseteq Records,
           \A r, q \in K : r.msg = q.msg => r = q, \A r \in K : r.msg <= n,
           NEW y, Counted(y, h, K, x.saved, d), Known(y, h, n),
           NEW rs, IsFiniteSet(rs), rs \subseteq K, NEW L, L \subseteq K
    PROVE  /\ Counted(AddBatches(x, rs), h, L, x.saved, d)
           /\ Known(AddBatches(x, rs), h, n)
<1> DEFINE z == AddBatches(x, rs)
           new == {r \in rs : r.id > x.accepted}
           U == Units * d
<1>1. U \in Nat
  BY StatsAssumptions
<1>2. /\ z.current = {r.msg : r \in new} /\ \A r \in rs : r.id <= z.accepted
  <2>1. rs \subseteq Records
    OBVIOUS
  <2>2. z.current = x.current \cup {r.msg : r \in new} /\ \A r \in rs : r.id <= z.accepted
    BY <2>1, AddBatchesIs
  <2> QED
    BY <2>2
<1>3. /\ \A m \in Messages : CellSum(h, m) <= U + Units
      /\ \A r \in K : CellSum(h, r.msg) > U => r.id <= x.saved
      /\ \A m \in Messages : m > n => CellSum(h, m) = 0
  BY DEF Counted, Known
<1>4. \A m \in Messages : CellSum(h, m) \in Nat
  BY AddCellsSum
<1>5. x.accepted \in Nat /\ \A r \in K : r.id \in Nat /\ r.msg \in Messages
  BY DEF IsSeries, Records
<1> HIDE DEF z, U
<1>6. \A m \in z.current : CellSum(h, m) <= U /\ m <= n
  <2> SUFFICES ASSUME NEW r \in new PROVE CellSum(h, r.msg) <= U /\ r.msg <= n
    BY <1>2
  <2>1. r \in K /\ r.id > x.accepted
    OBVIOUS
  <2>2. ~(CellSum(h, r.msg) > U)
    BY <1>3, <1>5, <2>1
  <2> QED
    BY <1>1, <1>4, <1>5, <2>1, <2>2
<1>7. \A r \in L : r.msg \in z.current => r.id <= z.accepted
  <2> SUFFICES ASSUME NEW r \in L, NEW q \in new, r.msg = q.msg PROVE r.id <= z.accepted
    BY <1>2
  <2>1. r = q
    OBVIOUS
  <2> QED
    BY <1>2, <2>1
<1> QED
  BY <1>3, <1>6, <1>7 DEF Counted, Known, z, U

\* A new batch is counted nowhere yet.
LEMMA BatchCounted ==
    ASSUME NEW x, IsSeries(x), NEW h, IsCells(h), NEW n \in Nat, NEW d \in Nat,
           NEW K, K \subseteq Records, \A r \in K : r.msg <= n, NEW saved \in Nat,
           Counted(x, h, K, saved, d), Known(x, h, n),
           NEW b \in Records, b.msg = n + 1
    PROVE  /\ Counted(AddBatches(x, {b}), h, K \cup {b}, saved, d)
           /\ Known(AddBatches(x, {b}), h, n + 1)
<1> DEFINE z == AddBatches(x, {b})
           U == Units * d
<1>1. U \in Nat
  BY StatsAssumptions
<1>2. /\ z.current \subseteq x.current \cup {b.msg} /\ z.accepted >= x.accepted
      /\ b.id <= z.accepted /\ z.accepted \in Nat
  <2>1. IsFiniteSet({b}) /\ {b} \subseteq Records
    BY FS_Singleton
  <2>2. /\ z.current = x.current \cup {r.msg : r \in {r \in {b} : r.id > x.accepted}}
        /\ z.accepted >= x.accepted /\ \A r \in {b} : r.id <= z.accepted
        /\ IsSeries(z)
    BY <2>1, AddBatchesIs
  <2>3. z.accepted \in Nat
    BY <2>2 DEF IsSeries
  <2> HIDE DEF z
  <2> QED
    BY <2>2, <2>3
<1>3. /\ \A m \in Messages : CellSum(h, m) <= U + Units
      /\ \A m \in x.current : CellSum(h, m) <= U
      /\ \A r \in K : CellSum(h, r.msg) > U => r.id <= saved
      /\ \A r \in K : r.msg \in x.current => r.id <= x.accepted
      /\ \A m \in x.current : m <= n
      /\ \A m \in Messages : m > n => CellSum(h, m) = 0
  BY DEF Counted, Known
<1>4. /\ x.accepted \in Nat /\ x.current \subseteq Nat
      /\ \A r \in K : r.id \in Nat /\ r.msg \in Nat
      /\ b.msg \in Messages /\ b.id \in Nat
  BY DEF IsSeries, Records, Messages
<1>5. CellSum(h, b.msg) = 0 /\ ~(CellSum(h, b.msg) > U)
  BY <1>1, <1>3, <1>4
<1> HIDE DEF z, U
<1>6. \A m \in z.current : CellSum(h, m) <= U /\ m <= n + 1
  BY <1>1, <1>2, <1>3, <1>4, <1>5
<1>7. \A r \in K \cup {b} : CellSum(h, r.msg) > U => r.id <= saved
  BY <1>3, <1>5
<1>8. \A r \in K \cup {b} : r.msg \in z.current => r.id <= z.accepted
  <2> SUFFICES ASSUME NEW r \in K, r.msg \in z.current PROVE r.id <= z.accepted
    BY <1>2
  <2>1. r.msg \in x.current
    BY <1>2, <1>4
  <2>2. r.id <= x.accepted
    BY <1>3, <2>1
  <2> QED
    BY <1>2, <1>4, <2>2
<1>9. \A m \in Messages : m > n + 1 => CellSum(h, m) = 0
  <2>1. Messages \subseteq Nat
    BY DEF Messages
  <2> QED
    BY <1>3, <2>1
<1> QED
  BY <1>3, <1>6, <1>7, <1>8, <1>9 DEF Counted, Known, z, U

----------------------------------------------------------------------------
(* The invariant holds initially, and every action preserves it.           *)

\* The last known id is at least what every series has accepted.
LEMMA KnownIdIs ==
    ASSUME NEW x, \A s \in Series : x[s].accepted \in Nat
    PROVE  /\ lastKnownShareId(x) \in Nat
           /\ \A s \in Series : x[s].accepted <= lastKnownShareId(x)
<1> DEFINE a == [s \in Series |-> x[s].accepted]
           T == {a[s] : s \in Series}
<1>1. \A s \in Series : a[s] = x[s].accepted /\ a[s] \in Nat
  OBVIOUS
<1>2. lastKnownShareId(x) = Max(T)
  BY DEF lastKnownShareId
<1> HIDE DEF a
<1>3. IsFiniteSet(T)
  <2>1. IsFiniteSet(Series)
    BY GridIs, FS_Interval
  <2> QED
    BY <2>1, ImageFinite
<1>4. T # {} /\ T \subseteq Nat
  <2>1. 1 \in Series
    BY GridIs
  <2> QED
    BY <1>1, <2>1
<1>5. \A s \in Series : a[s] \in T
  OBVIOUS
<1> HIDE DEF T
<1>6. Max(T) \in T /\ \A y \in T : Max(T) >= y
  BY <1>3, <1>4, MaxExists
<1> QED
  BY <1>1, <1>2, <1>4, <1>5, <1>6

LEMMA SavedIdIs ==
    ASSUME Typed, NEW s \in Series
    PROVE  SavedId(s) \in Nat /\ (up # 0 => SavedId(s) <= series[s].accepted)
<1>1. IsSeries(series[s]) /\ IsCache(cache[s])
  BY DEF Typed
<1>2. IsSeries(Load(cache[s]))
  BY <1>1, LoadIs
<1> QED
  BY <1>1, <1>2 DEF SavedId, IsSeries

LEMMA StatsInit == Init => StatsInv
<1> SUFFICES ASSUME Init PROVE StatsInv
  OBVIOUS
<1> USE DEF Init
<1>1. IsCells(NoCells) /\ IsCache([c \in {} |-> 0])
  BY FS_EmptySet DEF IsCells, IsCache, NoCells
<1>2. logs \in Seq(LogFiles) /\ logs # <<>> /\ buffer \in Seq(Records)
  <2>1. [name |-> 1, last |-> 0, records |-> <<>>] \in LogFiles
    BY DEF LogFiles
  <2> QED
    BY <2>1
<1>3. Typed
  <2>1. IsSeries(EmptySeries)
    BY EmptyIs
  <2>2. \A s \in Series : IsSeries(series[s]) /\ IsCache(cache[s]) /\ IsCells(history[s])
    BY <1>1, <2>1
  <2>3. Up \in Nat /\ Up # 0 /\ MaxMessages \in Nat
    BY GridIs, StatsAssumptions
  <2> QED
    BY <1>2, <2>2, <2>3 DEF Typed
<1>4. CacheInv
  <2>1. EmptySeries.recent = NoCells
    BY DEF EmptySeries
  <2>2. Cached(EmptySeries, [c \in {} |-> 0])
    BY <2>1 DEF Cached, NoCells
  <2>3. InCells([c \in {} |-> 0], NoCells)
    BY DEF InCells
  <2> QED
    BY <2>2, <2>3 DEF CacheInv
<1>5. Kept = {}
  <2>1. \A i \in DOMAIN logs : logs[i].records = <<>>
    OBVIOUS
  <2>2. Range(<<>>) = {}
    BY DEF Range
  <2> QED
    BY <2>1, <2>2 DEF Kept, Logged
<1>6. \A s \in Series : /\ series[s].current = {}
                        /\ \A m \in Messages : CellSum(history[s], m) = 0
  <2>1. \A m \in Messages : CellSum(NoCells, m) = 0
    <3>1. DOMAIN NoCells = {}
      BY DEF NoCells
    <3> QED
      BY <3>1, SumEmpty DEF CellSum
  <2> QED
    BY <2>1, EmptyIs
<1>7. Units \in Nat /\ doubling = 0 /\ received = 0
  BY StatsAssumptions
<1>8. FromMessages /\ OneRecord
  BY <1>5, <1>6 DEF FromMessages, OneRecord, Known
<1>9. CountInv
  <2>1. Units * doubling = 0
    BY <1>7
  <2> QED
    BY <1>5, <1>6, <1>7, <2>1 DEF CountInv, Counted
<1> QED
  BY <1>3, <1>4, <1>8, <1>9 DEF StatsInv

LEMMA TickStep == StatsInv /\ Tick => StatsInv'
<1> SUFFICES ASSUME StatsInv, Tick PROVE StatsInv'
  OBVIOUS
<1>1. UNCHANGED <<up, series, cache, history, logs, buffer, nextId, received, doubling>>
      /\ now' = now + 1
  BY DEF Tick
<1>2. Typed'
  BY <1>1 DEF StatsInv, Typed
<1>3. CacheInv'
  BY <1>1 DEF StatsInv, CacheInv
<1>4. Kept' = Kept /\ \A s \in Series : SavedId(s)' = SavedId(s)
  BY <1>1 DEF Kept, SavedId
<1>5. FromMessages' /\ OneRecord'
  BY <1>1, <1>4 DEF StatsInv, FromMessages, OneRecord
<1>6. CountInv'
  BY <1>1, <1>4 DEF StatsInv, CountInv
<1> QED
  BY <1>2, <1>3, <1>5, <1>6 DEF StatsInv

LEMMA FlushShareLogStep == StatsInv /\ FlushShareLog => StatsInv'
<1> SUFFICES ASSUME StatsInv, FlushShareLog PROVE StatsInv'
  OBVIOUS
<1>1. UNCHANGED <<now, up, series, cache, history, nextId, received, doubling>> /\ buffer' = <<>>
  BY DEF FlushShareLog
<1>2. /\ logs' \in Seq(LogFiles) /\ logs' # <<>>
      /\ Logged(logs') \subseteq Logged(logs) \cup Range(buffer)
  BY FlushShareLogIs DEF StatsInv
<1>3. Typed'
  BY <1>1, <1>2 DEF StatsInv, Typed
<1>4. CacheInv'
  BY <1>1 DEF StatsInv, CacheInv
<1>5. Kept' \subseteq Kept
  <2>1. Range(buffer') = {}
    BY <1>1 DEF Range
  <2> QED
    BY <1>2, <2>1 DEF Kept
<1>6. \A s \in Series : SavedId(s)' = SavedId(s)
  BY <1>1 DEF SavedId
<1>7. FromMessages' /\ OneRecord'
  BY <1>1, <1>5 DEF StatsInv, FromMessages, OneRecord
<1>8. CountInv'
  <2> SUFFICES ASSUME NEW s \in Series
               PROVE  Counted(series[s], history[s], Kept', SavedId(s), doubling)
    BY <1>1, <1>6 DEF CountInv
  <2>1. Counted(series[s], history[s], Kept, SavedId(s), doubling)
    BY DEF StatsInv, CountInv
  <2> QED
    BY <1>5, <2>1 DEF Counted
<1> QED
  BY <1>3, <1>4, <1>7, <1>8 DEF StatsInv

LEMMA OnWorkSummaryStep ==
    ASSUME StatsInv, NEW begin \in 0 .. now, OnWorkSummary(begin)
    PROVE  StatsInv'
<1> DEFINE b == [id |-> nextId, msg |-> received + 1, begin |-> begin, end |-> now]
<1>1. /\ UNCHANGED <<now, up, cache, history, logs, doubling>>
      /\ up = Up /\ received' = b.msg /\ nextId' = nextId + 1 /\ buffer' = Append(buffer, b)
      /\ series' = [s \in Series |-> AddBatches(series[s], {b})]
      /\ b.msg \in Messages
  BY DEF OnWorkSummary
<1>2. Typed /\ CacheInv /\ FromMessages /\ OneRecord /\ CountInv
  BY DEF StatsInv
<1>3. /\ now \in Nat /\ nextId \in Nat \ {0} /\ received \in Nat /\ doubling \in Nat
      /\ buffer \in Seq(Records) /\ MaxMessages \in Nat
      /\ \A s \in Series : IsSeries(series[s]) /\ IsCache(cache[s]) /\ IsCells(history[s])
  BY <1>2, StatsAssumptions DEF Typed
<1>4. b \in Records /\ b.msg = received + 1 /\ received + 1 \in 0 .. MaxMessages
  BY <1>1, <1>3 DEF Records, Messages
<1>5. IsFiniteSet({b}) /\ {b} \subseteq Records
  BY <1>4, FS_Singleton
<1> HIDE DEF b
<1>6. \A s \in Series : /\ IsSeries(series'[s])
                        /\ series'[s].saved = series[s].saved /\ series'[s].recent = series[s].recent
  <2> SUFFICES ASSUME NEW s \in Series
               PROVE  /\ IsSeries(AddBatches(series[s], {b}))
                      /\ AddBatches(series[s], {b}).saved = series[s].saved
                      /\ AddBatches(series[s], {b}).recent = series[s].recent
    BY <1>1
  <2> QED
    BY <1>3, <1>5, AddBatchesIs
<1>7. Typed'
  <2>1. DOMAIN series' = Series
    BY <1>1
  <2>2. buffer' \in Seq(Records)
    BY <1>1, <1>3, <1>4
  <2>3. nextId' \in Nat \ {0} /\ received' \in 0 .. MaxMessages
    BY <1>1, <1>3, <1>4
  <2>4. \A s \in Series : IsSeries(series'[s]) /\ IsCache(cache'[s]) /\ IsCells(history'[s])
    BY <1>1, <1>3, <1>6
  <2> QED
    BY <1>1, <1>2, <2>1, <2>2, <2>3, <2>4 DEF Typed
<1>8. CacheInv'
  BY <1>1, <1>2, <1>6 DEF CacheInv, Cached
<1>9. Kept' = Kept \cup {b}
  <2>1. Range(Append(buffer, b)) = Range(buffer) \cup {b}
    BY <1>3, <1>4 DEF Range
  <2> QED
    BY <1>1, <2>1 DEF Kept
<1>10. \A s \in Series : SavedId(s)' = SavedId(s) /\ SavedId(s) \in Nat
  <2>1. up' = up /\ up # 0
    BY <1>1, GridIs
  <2> QED
    BY <1>1, <1>2, <1>6, <2>1, SavedIdIs DEF SavedId
<1>11. Kept \subseteq Records /\ \A r \in Kept : r.msg <= received /\ r.msg \in Nat
  <2>1. Kept \subseteq Records
    BY <1>2, KeptIs
  <2> QED
    BY <1>2, <2>1 DEF FromMessages, Records, Messages
<1>12. \A s \in Series : /\ Counted(AddBatches(series[s], {b}), history[s], Kept \cup {b}, SavedId(s), doubling)
                         /\ Known(AddBatches(series[s], {b}), history[s], received + 1)
  <2> SUFFICES ASSUME NEW s \in Series
               PROVE  /\ Counted(AddBatches(series[s], {b}), history[s], Kept \cup {b}, SavedId(s), doubling)
                      /\ Known(AddBatches(series[s], {b}), history[s], received + 1)
    OBVIOUS
  <2>1. /\ Counted(series[s], history[s], Kept, SavedId(s), doubling)
        /\ Known(series[s], history[s], received)
    BY <1>2 DEF CountInv, FromMessages
  <2>2. \A r \in Kept : r.msg <= received
    BY <1>11
  <2> QED
    BY <1>3, <1>4, <1>10, <1>11, <2>1, <2>2, BatchCounted
<1>13. CountInv'
  BY <1>1, <1>9, <1>10, <1>12 DEF CountInv
<1>14. FromMessages'
  <2>1. \A r \in Kept' : r.msg <= received'
    BY <1>1, <1>3, <1>4, <1>9, <1>11
  <2>2. \A s \in Series : Known(series'[s], history'[s], received')
    BY <1>1, <1>4, <1>12
  <2> QED
    BY <2>1, <2>2 DEF FromMessages
<1>15. OneRecord'
  <2>1. \A r \in Kept : r.msg # b.msg
    BY <1>3, <1>4, <1>11
  <2> QED
    BY <1>2, <1>9, <2>1 DEF OneRecord
<1> QED
  BY <1>7, <1>8, <1>13, <1>14, <1>15 DEF StatsInv

\* The files and the history of all series, when series t is flushed.
LEMMA FlushSeriesStep ==
    ASSUME StatsInv, NEW t \in Series, FlushSeries(t)
    PROVE  StatsInv'
<1> DEFINE x == series[t]
           g == GridInterval[t]
           y == Flushed(x, g)
           h == Merged(history[t], x, g)
           f == Rewritten(cache[t], x, g, Len(Written(x, g)))
<1>1. /\ UNCHANGED <<now, logs, buffer, received, doubling>>
      /\ up \in {t, Up} /\ up' = IF up = t THEN t + 1 ELSE Up
      /\ series' = [series EXCEPT ![t] = y]
      /\ history' = [history EXCEPT ![t] = h]
      /\ cache' = [cache EXCEPT ![t] = f]
      /\ nextId' = IF up # Up /\ up' = Up THEN lastKnownShareId(series') + 1 ELSE nextId
  BY DEF FlushSeries
<1>2. Typed /\ CacheInv /\ FromMessages /\ OneRecord /\ CountInv
  BY DEF StatsInv
<1>3. /\ DOMAIN series = Series /\ DOMAIN history = Series /\ DOMAIN cache = Series
      /\ doubling \in Nat /\ received \in Nat /\ g \in Nat \ {0}
      /\ IsSeries(x) /\ IsCells(history[t]) /\ IsCache(cache[t])
  BY <1>2, GridIs DEF Typed
<1>4. up # 0 /\ up' # 0 /\ up' \in 0 .. Up /\ up \in 0 .. Up
  BY <1>1, <1>2, GridIs DEF Typed
<1>5. Cached(x, cache[t]) /\ InCells(cache[t], history[t])
  BY <1>2, <1>4 DEF CacheInv
<1>6. Len(Written(x, g)) \in 0 .. Len(Written(x, g))
  <2>1. Written(x, g) \in Seq(Changed(x, g))
    BY <1>3, WrittenIs
  <2> QED
    BY <2>1
<1>7. /\ IsSeries(y) /\ y.saved = x.accepted
      /\ IsCache(f) /\ Cached(y, f) /\ InCells(f, h)
  <2> HIDE DEF x, g
  <2>1. IsSeries(y) /\ y.saved = x.accepted
    BY <1>3, FlushedIs
  <2>2. IsCache(f)
    BY <1>3, <1>6, RewrittenIs
  <2>3. Cached(y, f)
    BY <1>3, <1>5, RewrittenIsRecent
  <2>4. InCells(f, h)
    BY <1>3, <1>5, <1>6, RewrittenInHistory
  <2> QED
    BY <2>1, <2>2, <2>3, <2>4
<1>8. Kept' = Kept /\ Kept \subseteq Records
  BY <1>1, <1>2, KeptIs DEF Kept
<1>9. /\ Counted(y, h, Kept, x.accepted, doubling) /\ Known(y, h, received) /\ IsCells(h)
  <2>1. Counted(x, history[t], Kept, SavedId(t), doubling) /\ Known(x, history[t], received)
    BY <1>2 DEF CountInv, FromMessages
  <2>2. SavedId(t) \in Nat /\ SavedId(t) <= x.accepted
    BY <1>2, <1>4, SavedIdIs
  <2> HIDE DEF x, g
  <2> QED
    BY <1>3, <1>8, <2>1, <2>2, FlushCounted
<1> HIDE DEF y, h, f
<1>10. /\ series'[t] = y /\ history'[t] = h /\ cache'[t] = f
       /\ \A s \in Series \ {t} : series'[s] = series[s] /\ history'[s] = history[s] /\ cache'[s] = cache[s]
       /\ DOMAIN series' = Series /\ DOMAIN history' = Series /\ DOMAIN cache' = Series
  BY <1>1, <1>3
<1>11. \A s \in Series : IsSeries(series'[s]) /\ IsCache(cache'[s]) /\ IsCells(history'[s])
  BY <1>2, <1>7, <1>9, <1>10 DEF Typed
<1>12. nextId' \in Nat \ {0}
  <2>1. \A s \in Series : series'[s].accepted \in Nat
    BY <1>11 DEF IsSeries
  <2>2. lastKnownShareId(series') \in Nat
    BY <2>1, KnownIdIs
  <2>3. nextId \in Nat \ {0}
    BY <1>2 DEF Typed
  <2> QED
    BY <1>1, <2>2, <2>3
<1>13. Typed'
  BY <1>1, <1>2, <1>4, <1>10, <1>11, <1>12 DEF Typed
<1>14. CacheInv'
  BY <1>2, <1>4, <1>7, <1>10 DEF CacheInv
<1>15. /\ SavedId(t)' = x.accepted
       /\ \A s \in Series \ {t} : SavedId(s)' = SavedId(s)
  BY <1>4, <1>7, <1>10 DEF SavedId
<1>16. FromMessages' /\ OneRecord'
  BY <1>1, <1>2, <1>8, <1>9, <1>10 DEF FromMessages, OneRecord
<1>17. CountInv'
  BY <1>1, <1>2, <1>8, <1>9, <1>10, <1>15 DEF CountInv
<1> QED
  BY <1>13, <1>14, <1>16, <1>17 DEF StatsInv

\* What every crash leaves.
LEMMA CrashIs ==
    ASSUME StatsInv, NEW lost \in BOOLEAN, Crash(lost)
    PROVE  /\ UNCHANGED <<now, logs, nextId, received>>
           /\ up # 0 /\ up' = 0 /\ buffer' = <<>>
           /\ series' = [s \in Series |-> EmptySeries]
           /\ Kept' \subseteq Kept /\ Kept \subseteq Records
           /\ doubling \in Nat /\ doubling' = IF lost THEN doubling + 1 ELSE doubling
<1>1. Typed
  BY DEF StatsInv
<1>2. Kept' \subseteq Kept
  <2>1. buffer' = <<>> /\ logs' = logs
    BY DEF Crash
  <2>2. Range(buffer') = {}
    BY <2>1 DEF Range
  <2> QED
    BY <2>1, <2>2 DEF Kept
<1>3. Kept \subseteq Records
  BY <1>1, KeptIs
<1>4. doubling \in Nat
  BY <1>1 DEF Typed
<1>5. doubling' = doubling + (IF lost THEN 1 ELSE 0)
  BY DEF Crash
<1>6. doubling' = IF lost THEN doubling + 1 ELSE doubling
  BY <1>4, <1>5
<1> QED
  BY <1>2, <1>3, <1>4, <1>6 DEF Crash

LEMMA CrashBetweenStep == StatsInv /\ CrashBetween => StatsInv'
<1> SUFFICES ASSUME StatsInv, CrashBetween PROVE StatsInv'
  OBVIOUS
<1> DEFINE lost == \E s \in Series : Load(cache[s]).saved < series[s].saved
<1>1. Crash(lost) /\ UNCHANGED <<cache, history>> /\ lost \in BOOLEAN
  BY DEF CrashBetween
<1>2. Typed /\ CacheInv /\ FromMessages /\ OneRecord /\ CountInv
  BY DEF StatsInv
<1>3. ~lost => \A s \in Series : ~(Load(cache[s]).saved < series[s].saved)
  OBVIOUS
<1> HIDE DEF lost
<1>4. /\ UNCHANGED <<now, logs, nextId, received>>
      /\ up # 0 /\ up' = 0 /\ buffer' = <<>>
      /\ series' = [s \in Series |-> EmptySeries]
      /\ Kept' \subseteq Kept /\ Kept \subseteq Records
      /\ doubling \in Nat /\ doubling' = IF lost THEN doubling + 1 ELSE doubling
  BY <1>1, CrashIs
<1>5. Typed'
  <2>1. 0 \in 0 .. Up /\ <<>> \in Seq(Records) /\ doubling' \in Nat
    BY <1>4, GridIs
  <2>2. \A s \in Series : series'[s] = EmptySeries /\ IsSeries(series'[s])
    BY <1>4, EmptyIs
  <2> QED
    BY <1>1, <1>2, <1>4, <2>1, <2>2 DEF Typed
<1>6. CacheInv'
  BY <1>1, <1>2, <1>4 DEF CacheInv
<1>7. ASSUME NEW s \in Series
      PROVE  /\ Known(series'[s], history'[s], received)
             /\ Counted(series'[s], history'[s], Kept', SavedId(s)', doubling')
  <2>1. Counted(series[s], history[s], Kept, SavedId(s), doubling) /\ Known(series[s], history[s], received)
    BY <1>2 DEF CountInv, FromMessages
  <2>2. /\ SavedId(s)' = Load(cache[s]).saved /\ SavedId(s) = series[s].saved
        /\ SavedId(s) \in Nat /\ SavedId(s)' \in Nat
    BY <1>1, <1>2, <1>4, <1>5, SavedIdIs, LoadIs DEF SavedId, Typed, IsSeries
  <2>3. received \in Nat /\ IsCells(history[s])
    BY <1>2 DEF Typed
  <2> DEFINE id == SavedId(s)'
             L == Kept'
  <2> HIDE DEF id, L
  <2>4. /\ id >= SavedId(s) => Counted(EmptySeries, history[s], L, id, doubling)
        /\ Known(EmptySeries, history[s], received)
        /\ \A m \in Messages : CellSum(history[s], m) <= Units * (doubling + 1)
    BY <1>4, <2>1, <2>2, <2>3, CrashCounted DEF id, L
  <2>5. CASE ~lost
    BY <1>1, <1>3, <1>4, <2>2, <2>4, <2>5 DEF id, L
  <2>6. CASE lost
    <3>1. L \subseteq Records
      BY <1>4 DEF L
    <3>2. Counted(EmptySeries, history[s], L, id, doubling + 1)
      BY <1>4, <2>3, <2>4, <3>1, LostCounted
    <3> QED
      BY <1>1, <1>4, <2>4, <2>6, <3>2 DEF id, L
  <2> QED
    BY <2>5, <2>6
<1>8. FromMessages' /\ OneRecord'
  BY <1>2, <1>4, <1>7 DEF FromMessages, OneRecord
<1>9. CountInv'
  BY <1>7 DEF CountInv
<1> QED
  BY <1>5, <1>6, <1>8, <1>9 DEF StatsInv

\* A cut off write leaves files that the history covers.
LEMMA CutOffIs ==
    ASSUME NEW f, NEW h, NEW c, NEW left, NEW id \in Nat, IsCache(f), InCells(f, h)
    PROVE  IsCache(CutOff(f, c, left, id)) /\ InCells(CutOff(f, c, left, id), h)
<1> DEFINE g == CutOff(f, c, left, id)
<1>1. DOMAIN g = DOMAIN f \ {d \in {c} : left = "none"}
  BY DEF CutOff
<1>2. DOMAIN g \subseteq DOMAIN f /\ IsFiniteSet(DOMAIN g)
  BY <1>1, FS_Subset DEF IsCache
<1>3. \A d \in DOMAIN g : g[d].last \in Nat /\ g[d].work = f[d].work /\ g[d] = [last |-> g[d].last, work |-> g[d].work]
  BY <1>1, <1>2 DEF CutOff, IsCache
<1>4. g = [d \in DOMAIN g |-> g[d]]
  BY <1>1 DEF CutOff
<1> HIDE DEF g
<1> QED
  BY <1>2, <1>3, <1>4 DEF IsCache, InCells, g

LEMMA CrashInFlushStep ==
    ASSUME StatsInv, NEW t \in Series, NEW k \in 0 .. MaxTime, NEW left \in {"old", "none", "stale"},
           CrashInFlush(t, k, left)
    PROVE  StatsInv'
<1> DEFINE x == series[t]
           g == GridInterval[t]
           h == Merged(history[t], x, g)
           files == Rewritten(cache[t], x, g, k)
           next == Written(x, g)[k + 1]
           f == CutOff(files, next, left, x.accepted)
<1>1. /\ Crash(TRUE) /\ k < Len(Written(x, g))
      /\ history' = [history EXCEPT ![t] = h]
      /\ cache' = [cache EXCEPT ![t] = f]
  BY DEF CrashInFlush
<1>2. Typed /\ CacheInv /\ FromMessages /\ OneRecord /\ CountInv
  BY DEF StatsInv
<1>3. /\ UNCHANGED <<now, logs, nextId, received>>
      /\ up # 0 /\ up' = 0 /\ buffer' = <<>>
      /\ series' = [s \in Series |-> EmptySeries]
      /\ Kept' \subseteq Kept /\ Kept \subseteq Records
      /\ doubling \in Nat /\ doubling' = doubling + 1
  BY <1>1, CrashIs
<1>4. /\ DOMAIN history = Series /\ DOMAIN cache = Series
      /\ received \in Nat /\ g \in Nat \ {0}
      /\ IsSeries(x) /\ IsCells(history[t]) /\ IsCache(cache[t])
  BY <1>2, GridIs DEF Typed
<1>5. Cached(x, cache[t]) /\ InCells(cache[t], history[t])
  BY <1>2, <1>3 DEF CacheInv
<1>6. k \in 0 .. Len(Written(x, g))
  <2>1. Written(x, g) \in Seq(Changed(x, g)) /\ MaxTime \in Nat
    BY <1>4, WrittenIs, StatsAssumptions
  <2> QED
    BY <1>1, <2>1
<1>7. IsCache(files) /\ InCells(files, h)
  <2> HIDE DEF x, g
  <2> QED
    BY <1>4, <1>5, <1>6, RewrittenIs, RewrittenInHistory
<1>8. IsCache(f) /\ InCells(f, h)
  <2>1. x.accepted \in Nat
    BY <1>4 DEF IsSeries
  <2> HIDE DEF files, next, h, x
  <2> QED
    BY <1>7, <2>1, CutOffIs DEF f
<1>9. /\ IsCells(h) /\ \A m \in Messages : CellSum(h, m) <= Units * (doubling + 1)
      /\ \A m \in Messages : m > received => CellSum(h, m) = 0
  <2>1. Counted(x, history[t], Kept, SavedId(t), doubling) /\ Known(x, history[t], received)
    BY <1>2 DEF CountInv, FromMessages
  <2>2. SavedId(t) \in Nat /\ SavedId(t) <= x.accepted
    BY <1>2, <1>3, SavedIdIs
  <2> HIDE DEF x, g
  <2>3. /\ IsCells(h) /\ \A m \in Messages : CellSum(h, m) <= Units * (doubling + 1)
        /\ Known(Flushed(x, g), h, received)
    BY <1>3, <1>4, <2>1, <2>2, FlushCounted
  <2> QED
    BY <2>3 DEF Known
<1> HIDE DEF h, f
<1>10. /\ history'[t] = h /\ cache'[t] = f
       /\ \A s \in Series \ {t} : history'[s] = history[s] /\ cache'[s] = cache[s]
       /\ DOMAIN history' = Series /\ DOMAIN cache' = Series
  BY <1>1, <1>4
<1>11. Typed'
  <2>1. 0 \in 0 .. Up /\ <<>> \in Seq(Records) /\ doubling' \in Nat
    BY <1>3, GridIs
  <2>2. \A s \in Series : IsSeries(series'[s]) /\ IsCache(cache'[s]) /\ IsCells(history'[s])
    BY <1>2, <1>3, <1>8, <1>9, <1>10, EmptyIs DEF Typed
  <2> QED
    BY <1>2, <1>3, <1>10, <2>1, <2>2 DEF Typed
<1>12. CacheInv'
  BY <1>2, <1>3, <1>8, <1>10 DEF CacheInv
<1>13. ASSUME NEW s \in Series
       PROVE  /\ Known(series'[s], history'[s], received)
              /\ Counted(series'[s], history'[s], Kept', SavedId(s)', doubling')
  <2> DEFINE n == history'[s]
             id == SavedId(s)'
             L == Kept'
  <2>1. /\ IsCells(n) /\ \A m \in Messages : CellSum(n, m) <= Units * (doubling + 1)
        /\ \A m \in Messages : m > received => CellSum(n, m) = 0
    <3>1. CASE s = t
      BY <1>9, <1>10, <3>1
    <3>2. CASE s # t
      <4>1. /\ Counted(series[s], history[s], Kept, SavedId(s), doubling)
            /\ Known(series[s], history[s], received)
            /\ SavedId(s) \in Nat /\ IsCells(history[s])
        BY <1>2, SavedIdIs DEF CountInv, FromMessages, Typed
      <4>2. \A m \in Messages : CellSum(history[s], m) <= Units * (doubling + 1)
        BY <1>3, <1>4, <4>1, CrashCounted
      <4> QED
        BY <1>10, <3>2, <4>1, <4>2 DEF Known
    <3> QED
      BY <3>1, <3>2
  <2> HIDE DEF n, id, L
  <2>2. L \subseteq Records
    BY <1>3 DEF L
  <2>3. Counted(EmptySeries, n, L, id, doubling + 1)
    BY <1>3, <2>1, <2>2, LostCounted
  <2>4. Known(EmptySeries, n, received)
    BY <2>1, EmptyIs DEF Known
  <2> QED
    BY <1>3, <2>3, <2>4 DEF n, id, L
<1>14. FromMessages' /\ OneRecord'
  BY <1>2, <1>3, <1>13 DEF FromMessages, OneRecord
<1>15. CountInv'
  BY <1>13 DEF CountInv
<1> QED
  BY <1>11, <1>12, <1>14, <1>15 DEF StatsInv

LEMMA StartStep == StatsInv /\ Start => StatsInv'
<1> SUFFICES ASSUME StatsInv, Start PROVE StatsInv'
  OBVIOUS
<1>1. /\ UNCHANGED <<now, cache, history, buffer, nextId, received, doubling>>
      /\ up = 0 /\ up' = 1
      /\ series' = [s \in Series |-> AddBatches(Load(cache[s]), Rising(logs))]
  BY DEF Start
<1>2. Typed /\ CacheInv /\ FromMessages /\ OneRecord /\ CountInv
  BY DEF StatsInv
<1>3. logs' \in Seq(LogFiles) /\ logs' # <<>> /\ Logged(logs') \subseteq Logged(logs)
  BY <1>2, StartLogIs
<1>4. Kept' \subseteq Kept /\ Kept \subseteq Records
  BY <1>1, <1>2, <1>3, KeptIs DEF Kept
<1>5. /\ Rising(logs) \subseteq Kept /\ IsFiniteSet(Rising(logs)) /\ Rising(logs) \subseteq Records
  BY <1>2, RisingIs DEF Typed, Kept
<1>6. ASSUME NEW s \in Series
      PROVE  /\ IsSeries(series'[s]) /\ Cached(series'[s], cache[s])
             /\ Known(series'[s], history[s], received)
             /\ Counted(series'[s], history[s], Kept', SavedId(s)', doubling)
  <2> DEFINE x == Load(cache[s])
             rs == Rising(logs)
             z == AddBatches(x, rs)
             L == Kept'
  <2>1. IsCache(cache[s]) /\ IsCells(history[s]) /\ received \in Nat /\ doubling \in Nat
    BY <1>2 DEF Typed
  <2>2. IsSeries(x) /\ x.current = {} /\ x.saved = x.accepted /\ Cached(x, cache[s])
    BY <2>1, LoadIs
  <2>3. /\ Counted(series[s], history[s], Kept, x.saved, doubling)
        /\ Known(series[s], history[s], received)
        /\ \A r, q \in Kept : r.msg = q.msg => r = q
        /\ \A r \in Kept : r.msg <= received
    BY <1>1, <1>2 DEF CountInv, FromMessages, SavedId, OneRecord
  <2>4. series'[s] = z
    BY <1>1
  <2>5. IsFiniteSet(rs) /\ rs \subseteq Kept /\ rs \subseteq Records /\ L \subseteq Kept
    BY <1>4, <1>5
  <2> HIDE DEF x, rs, L
  <2>6. IsSeries(z) /\ z.saved = x.saved /\ z.recent = x.recent
    BY <2>2, <2>5, AddBatchesIs
  <2>7. Counted(z, history[s], L, x.saved, doubling) /\ Known(z, history[s], received)
    BY <1>4, <2>1, <2>2, <2>3, <2>5, ReplayCounted
  <2> HIDE DEF z
  <2>8. SavedId(s)' = x.saved
    BY <1>1, <2>4, <2>6 DEF SavedId
  <2> QED
    BY <2>2, <2>4, <2>6, <2>7, <2>8 DEF Cached, L
<1>7. Typed'
  <2>1. DOMAIN series' = Series /\ 1 \in 0 .. Up
    BY <1>1, GridIs
  <2> QED
    BY <1>1, <1>2, <1>3, <1>6, <2>1 DEF Typed
<1>8. CacheInv'
  BY <1>1, <1>2, <1>6 DEF CacheInv
<1>9. FromMessages' /\ OneRecord'
  BY <1>1, <1>2, <1>4, <1>6 DEF FromMessages, OneRecord
<1>10. CountInv'
  BY <1>1, <1>6 DEF CountInv
<1> QED
  BY <1>7, <1>8, <1>9, <1>10 DEF StatsInv

\* StatsInv is an invariant of the specification: it is inductive.
THEOREM StatsInvariant == Spec => []StatsInv
<1>1. Init => StatsInv
  BY StatsInit
<1>2. StatsInv /\ [Next]_vars => StatsInv'
  <2> SUFFICES ASSUME StatsInv, [Next]_vars PROVE StatsInv'
    OBVIOUS
  <2>1. CASE Tick
    BY <2>1, TickStep
  <2>2. CASE \E begin \in 0 .. now : OnWorkSummary(begin)
    BY <2>2, OnWorkSummaryStep
  <2>3. CASE FlushShareLog
    BY <2>3, FlushShareLogStep
  <2>4. CASE \E s \in Series : FlushSeries(s)
    BY <2>4, FlushSeriesStep
  <2>5. CASE CrashBetween
    BY <2>5, CrashBetweenStep
  <2>6. CASE \E s \in Series, k \in 0 .. MaxTime, left \in {"old", "none", "stale"} : CrashInFlush(s, k, left)
    BY <2>6, CrashInFlushStep
  <2>7. CASE Start
    BY <2>7, StartStep
  <2>8. CASE UNCHANGED vars
    <3>1. UNCHANGED <<now, up, series, cache, history, logs, buffer, nextId, received, doubling>>
      BY <2>8 DEF vars
    <3>2. Kept' = Kept /\ \A s \in Series : SavedId(s)' = SavedId(s)
      BY <3>1 DEF Kept, SavedId
    <3> QED
      BY <3>1, <3>2 DEF StatsInv, Typed, CacheInv, FromMessages, OneRecord, CountInv
  <2> QED
    BY <2>1, <2>2, <2>3, <2>4, <2>5, <2>6, <2>7, <2>8 DEF Next
<1> QED
  BY <1>1, <1>2, PTL DEF Spec

\* For all grids, batches and crashes: when the process is up, the cache files
\* are the recent cells that it shows (flush and load of CStatsSeries).
THEOREM CacheIsRecentHolds == Spec => []CacheIsRecent
<1>1. StatsInv => CacheIsRecent
  <2> SUFFICES ASSUME StatsInv, up = Up PROVE CacheIsRecent
    BY DEF CacheIsRecent
  <2>1. up # 0
    BY GridIs
  <2> QED
    BY <2>1 DEF StatsInv, CacheInv, Cached, CacheIsRecent
<1> QED
  BY <1>1, StatsInvariant, PTL

\* ... and no cache file, not even one of an unfinished flush, shows work that
\* the history does not have: writeBatch comes before the files.
THEOREM CacheInHistoryHolds == Spec => []CacheInHistory
<1>1. StatsInv => CacheInHistory
  BY DEF StatsInv, CacheInv, InCells, CacheInHistory
<1> QED
  BY <1>1, StatsInvariant, PTL

\* ... and the history counts no batch more often than once, and once more for
\* every crash that lost the id of the last flush, whatever part of the log is
\* replayed: addBatch skips what the loaded id covers, and the shares of a
\* batch in the cells that a flush adds to are never more than the whole.
THEOREM CountedOnceOrDoubledHolds == Spec => []CountedOnceOrDoubled
<1>1. StatsInv => CountedOnceOrDoubled
  <2> SUFFICES ASSUME StatsInv, NEW s \in Series, NEW m \in Messages
               PROVE  InHistory(s, m) <= Units * (1 + doubling)
    BY DEF CountedOnceOrDoubled
  <2>1. Units \in Nat /\ doubling \in Nat
    BY StatsAssumptions DEF StatsInv, Typed
  <2>2. Units * (1 + doubling) = Units * doubling + Units
    BY <2>1
  <2>3. CellSum(history[s], m) <= Units * doubling + Units
    BY DEF StatsInv, CountInv, Counted
  <2>4. InHistory(s, m) = CellSum(history[s], m)
    BY DEF InHistory, CellSum
  <2> QED
    BY <2>2, <2>3, <2>4
<1> QED
  BY <1>1, StatsInvariant, PTL

----------------------------------------------------------------------------
(* What was written to the log is never lost.                              *)

\* Shares lie within the time of the model and, when they are of one moment, in
\* no two cells.
Spans(b, e) == e <= MaxTime /\ OffGrid(b, e)

Timely ==
    /\ now <= MaxTime
    /\ \A r \in Kept : Spans(r.begin, r.end)
    /\ \A s \in Series : /\ series[s].end <= MaxTime
                         /\ series[s].current # {} => OffGrid(series[s].begin, series[s].end)

\* The log is in order, and the buffer behind it.
LogInOrder ==
    /\ InOrder(logs) /\ Rises(buffer)
    /\ \A r \in Logged(logs), q \in Range(buffer) : r.id < q.id
    /\ up # 0 => Closed(logs)
    /\ up # Up => buffer = <<>>

\* Ids are behind all that the log and the files have.
IdsInv ==
    /\ up # 0 => \A s \in Series : /\ \A r \in Kept : r.id <= series[s].accepted
                                   /\ \A c \in DOMAIN cache[s] : cache[s][c].last <= series[s].saved
    /\ up = Up => /\ \A s \in Series : series[s].accepted < nextId
                  /\ \A r \in Kept : r.id < nextId

InAll(h, m) == CellSum(h, m) >= Units

\* What was written to the log is still there, or in every history.  A record of
\* the log that the history h lacks is one that replay will find, and waits in the
\* series since it did.
Replayed(s) ==
    /\ \A m \in logged : (\E r \in Logged(logs) : r.msg = m) \/ InAll(history[s], m)
    /\ \A r \in Kept : \/ InAll(history[s], r.msg)
                       \/ r.id > SavedId(s) /\ (up # 0 => r.msg \in series[s].current)

LogInv == Timely /\ LogInOrder /\ IdsInv /\ logged \subseteq Messages /\ \A s \in Series : Replayed(s)

\* A flush drops nothing, and the next id has not fallen behind the name of a file.
Recoverable ==
    /\ \A s \in Series :
         series[s].current # {} => series[s].end - series[s].begin <= MaxBatchTimeInterval
    /\ up = Up => \A i \in DOMAIN logs : logs[i].name <= nextId

LEMMA LogInit == Init => LogInv
<1> SUFFICES ASSUME Init PROVE LogInv
  OBVIOUS
<1> USE DEF Init
<1>1. Kept = {} /\ Logged(logs) = {} /\ Range(buffer) = {}
  <2>1. \A i \in DOMAIN logs : logs[i].records = <<>>
    OBVIOUS
  <2>2. Range(<<>>) = {}
    BY DEF Range
  <2> QED
    BY <2>1, <2>2 DEF Kept, Logged
<1>2. /\ EmptySeries.current = {} /\ EmptySeries.end = 0 /\ EmptySeries.accepted = 0
      /\ EmptySeries.saved = 0 /\ MaxTime \in Nat
  BY StatsAssumptions DEF EmptySeries
<1>3. Timely
  BY <1>1, <1>2 DEF Timely
<1>4. LogInOrder
  <2>1. InOrder(logs)
    BY DEF InOrder, Rises, Range
  <2>2. Closed(logs) /\ Rises(buffer)
    BY DEF Closed, Rises
  <2> QED
    BY <1>1, <2>1, <2>2 DEF LogInOrder
<1>5. IdsInv
  <2>1. \A s \in Series : DOMAIN cache[s] = {} /\ series[s].accepted < nextId
    BY <1>2
  <2> QED
    BY <1>1, <2>1 DEF IdsInv
<1>6. \A s \in Series : Replayed(s)
  BY <1>1 DEF Replayed
<1> QED
  BY <1>3, <1>4, <1>5, <1>6 DEF LogInv

LEMMA LogTick == LogInv /\ Typed /\ Tick => LogInv'
<1> SUFFICES ASSUME LogInv, Typed, Tick PROVE LogInv'
  OBVIOUS
<1>1. UNCHANGED <<up, series, cache, history, logs, buffer, nextId, logged>> /\ now' <= MaxTime
  BY StatsAssumptions DEF Tick, Typed
<1>2. Kept' = Kept /\ \A s \in Series : SavedId(s)' = SavedId(s)
  BY <1>1 DEF Kept, SavedId
<1>3. Timely'
  BY <1>1, <1>2 DEF LogInv, Timely
<1>4. LogInOrder' /\ IdsInv'
  BY <1>1, <1>2 DEF LogInv, LogInOrder, IdsInv
<1>5. \A s \in Series : Replayed(s)'
  BY <1>1, <1>2 DEF LogInv, Replayed
<1> QED
  BY <1>1, <1>3, <1>4, <1>5 DEF LogInv

\* A batch that a series takes over widens its interval.
LEMMA BatchesSpan ==
    ASSUME NEW x, IsSeries(x), NEW rs, IsFiniteSet(rs), rs \subseteq Records,
           x.end <= MaxTime, x.current # {} => OffGrid(x.begin, x.end),
           \A r \in rs : Spans(r.begin, r.end)
    PROVE  LET y == AddBatches(x, rs)
           IN  y.end <= MaxTime /\ (y.current # {} => OffGrid(y.begin, y.end))
<1> DEFINE y == AddBatches(x, rs)
           new == {r \in rs : r.id > x.accepted}
<1>1. /\ IsSeries(y) /\ y.current = x.current \cup {r.msg : r \in new}
      /\ y.end \in {x.end} \cup {r.end : r \in rs}
      /\ y.begin <= x.begin /\ y.end >= x.end
      /\ \A r \in new : y.begin <= r.begin /\ y.end >= r.end
  BY AddBatchesIs
<1>2. /\ x.begin \in Nat /\ x.end \in Nat /\ y.begin \in Nat /\ y.end \in Nat
      /\ x.current # {} => x.begin <= x.end
      /\ \A r \in new : r.begin \in Nat /\ r.end \in Nat /\ r.begin <= r.end
      /\ \A s \in Series : GridInterval[s] \in Nat \ {0}
  BY <1>1, GridIs DEF IsSeries, Records
<1> HIDE DEF y
<1>3. y.end <= MaxTime
  BY <1>1 DEF Spans
<1>4. ASSUME NEW b \in Nat, NEW e \in Nat, b <= e, OffGrid(b, e), y.begin <= b, y.end >= e
      PROVE  OffGrid(y.begin, y.end)
  <2>1. CASE y.begin < y.end
    BY <2>1 DEF OffGrid
  <2>2. CASE ~(y.begin < y.end)
    <3>1. y.begin = b /\ b = e
      BY <1>2, <1>4, <2>2
    <3>2. \A s \in Series : b % GridInterval[s] # 0
      BY <1>4, <3>1 DEF OffGrid
    <3> QED
      BY <3>1, <3>2 DEF OffGrid
  <2> QED
    BY <2>1, <2>2
<1>5. ASSUME y.current # {} PROVE OffGrid(y.begin, y.end)
  <2>1. CASE x.current # {}
    BY <1>1, <1>2, <1>4, <2>1
  <2>2. CASE new # {}
    <3>1. PICK r \in new : TRUE
      BY <2>2
    <3> QED
      BY <1>1, <1>2, <1>4, <3>1 DEF Spans
  <2> HIDE DEF new
  <2> QED
    BY <1>1, <1>5, <2>1, <2>2
<1> QED
  BY <1>3, <1>5 DEF y

LEMMA LogOnWorkSummary ==
    ASSUME ~PointsOnGrid, StatsInv, LogInv, NEW begin \in 0 .. now, OnWorkSummary(begin)
    PROVE  LogInv'
<1> DEFINE b == [id |-> nextId, msg |-> received + 1, begin |-> begin, end |-> now]
<1>1. /\ UNCHANGED <<now, up, cache, history, logs, logged>>
      /\ up = Up /\ nextId' = nextId + 1 /\ buffer' = Append(buffer, b)
      /\ series' = [s \in Series |-> AddBatches(series[s], {b})]
      /\ b.msg \in Messages /\ OffGrid(begin, now)
  BY StatsAssumptions DEF OnWorkSummary, OffGrid, StatsInv, Typed
<1>2. Typed /\ Timely /\ LogInOrder /\ IdsInv /\ \A s \in Series : Replayed(s)
  BY DEF StatsInv, LogInv
<1>3. /\ now \in Nat /\ nextId \in Nat \ {0} /\ received \in Nat /\ buffer \in Seq(Records)
      /\ \A s \in Series : IsSeries(series[s])
      /\ up # 0 /\ MaxMessages \in Nat
  BY <1>1, <1>2, GridIs, StatsAssumptions DEF Typed
<1>4. b \in Records /\ b.id = nextId /\ Spans(b.begin, b.end)
  BY <1>1, <1>2, <1>3 DEF Records, Timely, Spans
<1> HIDE DEF b
<1>5. IsFiniteSet({b}) /\ {b} \subseteq Records
  BY <1>4, FS_Singleton
<1>6. Range(buffer') = Range(buffer) \cup {b} /\ Kept' = Kept \cup {b}
  <2>1. Range(Append(buffer, b)) = Range(buffer) \cup {b}
    <3>1. buffer \in Seq(Records) /\ b \in Records
      BY <1>3, <1>4
    <3> DEFINE q == Append(buffer, b)
               n == Len(buffer)
    <3>2. /\ DOMAIN buffer = 1 .. n /\ n \in Nat /\ DOMAIN q = 1 .. n + 1
          /\ q[n + 1] = b /\ \A i \in 1 .. n : q[i] = buffer[i]
      BY <3>1
    <3> HIDE DEF q, n
    <3>3. \A i \in 1 .. n + 1 : i \in 1 .. n \/ i = n + 1
      BY <3>2
    <3>4. n + 1 \in 1 .. n + 1 /\ \A i \in 1 .. n : i \in 1 .. n + 1
      BY <3>2
    <3>5. {q[i] : i \in 1 .. n + 1} = {buffer[i] : i \in 1 .. n} \cup {b}
      BY <3>2, <3>3, <3>4
    <3> QED
      BY <3>2, <3>5 DEF Range, q
  <2> QED
    BY <1>1, <2>1 DEF Kept
<1>7. Kept \subseteq Records /\ Logged(logs) \subseteq Kept /\ Range(buffer) \subseteq Kept
  BY <1>2, KeptIs DEF Kept
<1>8. \A r \in Kept : r.id < nextId /\ r.id \in Nat
  BY <1>1, <1>2, <1>7 DEF IdsInv, Records
<1>9. ASSUME NEW s \in Series
      PROVE  /\ series'[s].accepted <= nextId /\ series'[s].accepted >= series[s].accepted
             /\ b.id <= series'[s].accepted
             /\ series'[s].accepted \in Nat /\ series[s].accepted \in Nat
             /\ series'[s].saved = series[s].saved /\ series[s].saved < nextId
             /\ series'[s].current = series[s].current \cup {b.msg}
             /\ series'[s].end <= MaxTime
             /\ series'[s].current # {} => OffGrid(series'[s].begin, series'[s].end)
  <2> DEFINE x == series[s]
             y == AddBatches(x, {b})
  <2>1. IsSeries(x) /\ x.accepted < nextId /\ series'[s] = y
    BY <1>1, <1>2, <1>3 DEF IdsInv
  <2>2. x.accepted \in Nat /\ x.saved \in Nat /\ x.saved <= x.accepted
    BY <2>1 DEF IsSeries
  <2>3. x.end <= MaxTime /\ (x.current # {} => OffGrid(x.begin, x.end))
    BY <1>2 DEF Timely
  <2> HIDE DEF x
  <2>4. /\ IsSeries(y) /\ y.saved = x.saved /\ y.accepted >= x.accepted
        /\ y.current = x.current \cup {r.msg : r \in {r \in {b} : r.id > x.accepted}}
        /\ y.accepted \in {x.accepted} \cup {r.id : r \in {b}}
        /\ \A r \in {b} : r.id <= y.accepted
    BY <1>5, <2>1, AddBatchesIs
  <2>5. y.end <= MaxTime /\ (y.current # {} => OffGrid(y.begin, y.end))
    <3>1. \A r \in {b} : Spans(r.begin, r.end)
      BY <1>4
    <3> QED
      BY <1>5, <2>1, <2>3, <3>1, BatchesSpan
  <2>6. {r \in {b} : r.id > x.accepted} = {b}
    BY <1>3, <1>4, <2>1, <2>2
  <2> HIDE DEF y
  <2>7. y.current = x.current \cup {b.msg}
    BY <2>4, <2>6
  <2>8. y.accepted <= nextId /\ y.accepted \in Nat
    BY <1>3, <1>4, <2>1, <2>2, <2>4
  <2> QED
    BY <1>3, <2>1, <2>2, <2>4, <2>5, <2>7, <2>8 DEF x
<1>10. Timely'
  BY <1>1, <1>2, <1>4, <1>6, <1>9 DEF Timely
<1>11. LogInOrder'
  <2>1. Rises(buffer')
    <3>1. \A i \in DOMAIN buffer : buffer[i].id < nextId
      BY <1>7, <1>8 DEF Range
    <3>2. /\ DOMAIN buffer = 1 .. Len(buffer) /\ DOMAIN buffer' = 1 .. Len(buffer) + 1
          /\ Len(buffer) \in Nat /\ buffer'[Len(buffer) + 1] = b
          /\ \A i \in DOMAIN buffer : buffer'[i] = buffer[i]
      BY <1>1, <1>3, <1>4
    <3> SUFFICES ASSUME NEW i \in DOMAIN buffer', NEW j \in DOMAIN buffer', i < j
                 PROVE  buffer'[i].id < buffer'[j].id
      BY DEF Rises
    <3>3. i \in DOMAIN buffer
      BY <3>2
    <3>4. CASE j \in DOMAIN buffer
      <4>1. buffer[i].id < buffer[j].id
        BY <1>2, <3>3, <3>4 DEF LogInOrder, Rises
      <4> QED
        BY <3>2, <3>3, <3>4, <4>1
    <3>5. CASE j \notin DOMAIN buffer
      <4>1. j = Len(buffer) + 1
        BY <3>2, <3>5
      <4> QED
        BY <1>4, <3>1, <3>2, <3>3, <4>1
    <3> QED
      BY <3>4, <3>5
  <2>2. \A r \in Logged(logs'), q \in Range(buffer') : r.id < q.id
    BY <1>1, <1>2, <1>4, <1>6, <1>7, <1>8 DEF LogInOrder
  <2> QED
    BY <1>1, <1>2, <2>1, <2>2 DEF LogInOrder
<1>12. IdsInv'
  <2>1. \A s \in Series : \A r \in Kept' : r.id <= series'[s].accepted
    <3> SUFFICES ASSUME NEW s \in Series, NEW r \in Kept' PROVE r.id <= series'[s].accepted
      OBVIOUS
    <3>1. CASE r = b
      BY <1>4, <1>9, <3>1
    <3>2. CASE r \in Kept
      <4>1. r.id <= series[s].accepted /\ r.id \in Nat
        BY <1>2, <1>3, <1>8, <3>2 DEF IdsInv
      <4> QED
        BY <1>9, <4>1
    <3> QED
      BY <1>6, <3>1, <3>2
  <2>2. \A s \in Series : series'[s].accepted < nextId'
    <3> SUFFICES ASSUME NEW s \in Series PROVE series'[s].accepted < nextId'
      OBVIOUS
    <3>1. series'[s].accepted <= nextId /\ series'[s].accepted \in Nat
      BY <1>9
    <3> QED
      BY <1>1, <1>3, <3>1
  <2>3. \A r \in Kept' : r.id < nextId'
    BY <1>1, <1>3, <1>4, <1>6, <1>8
  <2>4. \A s \in Series : \A c \in DOMAIN cache'[s] : cache'[s][c].last <= series'[s].saved
    BY <1>1, <1>2, <1>3, <1>9 DEF IdsInv
  <2> QED
    BY <1>1, <2>1, <2>2, <2>3, <2>4 DEF IdsInv
<1>13. \A s \in Series : Replayed(s)'
  <2> SUFFICES ASSUME NEW s \in Series PROVE Replayed(s)'
    OBVIOUS
  <2>1. Replayed(s) /\ SavedId(s)' = SavedId(s) /\ SavedId(s) < nextId
    BY <1>1, <1>2, <1>3, <1>9 DEF SavedId
  <2>2. ASSUME NEW r \in Kept'
        PROVE  \/ InAll(history'[s], r.msg)
               \/ r.id > SavedId(s)' /\ (up' # 0 => r.msg \in series'[s].current)
    <3>1. CASE r \in Kept
      BY <1>1, <1>3, <1>9, <2>1, <3>1 DEF Replayed
    <3>2. CASE r = b
      <4>1. SavedId(s) \in Nat
        BY <1>2, SavedIdIs
      <4> QED
        BY <1>3, <1>4, <1>9, <2>1, <3>2, <4>1
    <3> QED
      BY <1>6, <3>1, <3>2
  <2> QED
    BY <1>1, <2>1, <2>2 DEF Replayed
<1> QED
  BY <1>1, <1>10, <1>11, <1>12, <1>13 DEF LogInv

LEMMA LogFlushShareLog ==
    ASSUME StatsInv, LogInv, Recoverable, FlushShareLog
    PROVE  LogInv'
<1>1. /\ UNCHANGED <<now, up, series, cache, history, nextId>> /\ buffer' = <<>> /\ up = Up
      /\ logged' = logged \cup {buffer[k].msg : k \in DOMAIN buffer}
  BY DEF FlushShareLog
<1>2. /\ Typed /\ Timely /\ LogInOrder /\ IdsInv /\ logged \subseteq Messages
      /\ \A s \in Series : Replayed(s)
  BY DEF StatsInv, LogInv
<1>3. up # 0
  BY <1>1, GridIs
<1>4. /\ Logged(logs') \subseteq Kept
  BY <1>2, FlushShareLogIs DEF Kept
<1>5. /\ InOrder(logs') /\ Closed(logs')
      /\ \A r \in Kept : r \in Logged(logs') \/ r.id < lastAggregatedShareId
  BY <1>1, <1>2, <1>3, FlushShareLogKeeps DEF LogInOrder, IdsInv, Recoverable
<1>6. Range(buffer') = {} /\ Rises(buffer') /\ Kept' = Logged(logs')
  BY <1>1 DEF Range, Rises, Kept
<1>7. Kept \subseteq Records
  BY <1>2, KeptIs
<1>8. Timely'
  BY <1>1, <1>2, <1>4, <1>6 DEF Timely
<1>9. LogInOrder'
  BY <1>1, <1>5, <1>6 DEF LogInOrder
<1>10. IdsInv'
  <2>1. Kept' \subseteq Kept
    BY <1>4, <1>6
  <2> QED
    BY <1>1, <1>2, <2>1 DEF IdsInv
<1>11. logged' \subseteq Messages
  <2>1. \A k \in DOMAIN buffer : buffer[k] \in Range(buffer)
    BY DEF Range
  <2> QED
    BY <1>1, <1>2, <1>7, <2>1 DEF Kept, Records
<1>12. \A s \in Series : Replayed(s)'
  <2> SUFFICES ASSUME NEW s \in Series PROVE Replayed(s)'
    OBVIOUS
  <2>1. Replayed(s) /\ SavedId(s)' = SavedId(s) /\ SavedId(s) = series[s].saved
    BY <1>1, <1>2, <1>3 DEF SavedId
  <2>2. ASSUME NEW r \in Kept PROVE r \in Logged(logs') \/ InAll(history[s], r.msg)
    <3>1. CASE r.id < lastAggregatedShareId
      <4>1. /\ r.id \in Nat /\ lastAggregatedShareId \in Nat /\ series[s].saved \in Nat
            /\ lastAggregatedShareId <= series[s].saved
        BY <1>2, <1>7, AggregatedIs DEF Records, Typed, IsSeries
      <4>2. ~(r.id > SavedId(s))
        BY <2>1, <3>1, <4>1
      <4> QED
        BY <2>1, <4>2 DEF Replayed
    <3> QED
      BY <1>5, <3>1
  <2>3. ASSUME NEW m \in logged'
        PROVE  (\E r \in Logged(logs') : r.msg = m) \/ InAll(history[s], m)
    <3>1. CASE m \in logged
      BY <2>1, <2>2, <3>1 DEF Replayed, Kept
    <3>2. CASE m \notin logged
      <4>1. PICK k \in DOMAIN buffer : m = buffer[k].msg
        BY <1>1, <3>2
      <4>2. buffer[k] \in Kept
        BY DEF Kept, Range
      <4> QED
        BY <2>2, <4>1, <4>2
    <3> QED
      BY <3>1, <3>2
  <2>4. \A r \in Kept' : \/ InAll(history'[s], r.msg)
                         \/ r.id > SavedId(s)' /\ (up' # 0 => r.msg \in series'[s].current)
    BY <1>1, <1>3, <1>4, <1>6, <2>1 DEF Replayed
  <2> QED
    BY <1>1, <2>3, <2>4 DEF Replayed
<1> QED
  BY <1>8, <1>9, <1>10, <1>11, <1>12 DEF LogInv

\* Behind a flush of the series the history has all that waited in it.
LEMMA FlushReplayed ==
    ASSUME StatsInv, LogInv, Recoverable, up # 0, NEW t \in Series
    PROVE  LET h == Merged(history[t], series[t], GridInterval[t])
           IN  /\ \A m \in Messages : InAll(history[t], m) => InAll(h, m)
               /\ \A r \in Kept : InAll(h, r.msg)
<1> DEFINE x == series[t]
           g == GridInterval[t]
           h == Merged(history[t], x, g)
           C == Contribution(x, g)
<1>1. /\ Typed /\ IsSeries(x) /\ IsCells(history[t]) /\ g \in Nat \ {0} /\ Units \in Nat
      /\ x.begin \in Nat /\ x.end \in Nat /\ MaxBatchTimeInterval \in Nat
  BY GridIs, StatsAssumptions DEF StatsInv, Typed, IsSeries
<1>2. Kept \subseteq Records
  BY <1>1, KeptIs
<1>3. ASSUME NEW m \in Messages
      PROVE  /\ CellSum(h, m) = CellSum(history[t], m) + CellSum(C, m)
             /\ CellSum(history[t], m) \in Nat /\ CellSum(C, m) \in Nat
  <2> HIDE DEF x, g
  <2>1. IsCells(C)
    BY <1>1, ContributionCells
  <2>2. CellSum(C, m) \in Nat
    BY <1>1, ContributionSum
  <2> HIDE DEF C
  <2> QED
    BY <1>1, <2>1, <2>2, AddCellsSum DEF Merged, C
<1>4. ASSUME NEW m \in x.current PROVE CellSum(C, m) >= Units
  <2>1. /\ x.end <= MaxTime /\ OffGrid(x.begin, x.end)
        /\ ~(x.end - x.begin > MaxBatchTimeInterval)
    BY <1>1, <1>4 DEF LogInv, Timely, Recoverable
  <2> HIDE DEF x
  <2> QED
    BY <1>1, <1>4, <2>1, ContributionWhole
<1> HIDE DEF h, C
<1>5. \A m \in Messages : InAll(history[t], m) => InAll(h, m)
  BY <1>1, <1>3 DEF InAll
<1>6. ASSUME NEW r \in Kept PROVE InAll(h, r.msg)
  <2>1. r.msg \in Messages
    BY <1>2 DEF Records
  <2>2. InAll(history[t], r.msg) \/ r.msg \in x.current
    BY DEF LogInv, Replayed
  <2>3. CASE r.msg \in x.current
    BY <1>1, <1>3, <1>4, <2>1, <2>3 DEF InAll
  <2> QED
    BY <1>5, <2>1, <2>2, <2>3
<1> QED
  BY <1>5, <1>6 DEF h

LEMMA LogFlushSeries ==
    ASSUME StatsInv, LogInv, Recoverable, NEW t \in Series, FlushSeries(t)
    PROVE  LogInv'
<1> DEFINE x == series[t]
           g == GridInterval[t]
           y == Flushed(x, g)
           h == Merged(history[t], x, g)
           f == Rewritten(cache[t], x, g, Len(Written(x, g)))
<1>1. /\ UNCHANGED <<now, logs, buffer, logged>>
      /\ up \in {t, Up} /\ up' = IF up = t THEN t + 1 ELSE Up
      /\ series' = [series EXCEPT ![t] = y]
      /\ history' = [history EXCEPT ![t] = h]
      /\ cache' = [cache EXCEPT ![t] = f]
      /\ nextId' = IF up # Up /\ up' = Up THEN lastKnownShareId(series') + 1 ELSE nextId
  BY DEF FlushSeries
<1>2. /\ Typed /\ Timely /\ LogInOrder /\ IdsInv /\ logged \subseteq Messages
      /\ \A s \in Series : Replayed(s)
  BY DEF StatsInv, LogInv
<1>3. /\ DOMAIN series = Series /\ DOMAIN history = Series /\ DOMAIN cache = Series
      /\ g \in Nat \ {0} /\ IsSeries(x) /\ IsCache(cache[t])
      /\ \A s \in Series : series[s].accepted \in Nat /\ series[s].saved \in Nat
      /\ x.saved <= x.accepted /\ MaxTime \in Nat
  BY <1>2, GridIs, StatsAssumptions DEF Typed, IsSeries
<1>4. up # 0 /\ up' # 0
  BY <1>1, GridIs
<1>5. Kept' = Kept /\ Kept \subseteq Records
  BY <1>1, <1>2, KeptIs DEF Kept
<1>6. y.current = {} /\ y.accepted = x.accepted /\ y.saved = x.accepted /\ y.end = 0
  <2>1. y.current = {} /\ y.accepted = x.accepted /\ y.saved = x.accepted
    BY <1>3, FlushedIs
  <2>2. y.end = 0
    BY DEF Flushed, EmptySeries
  <2> QED
    BY <2>1, <2>2
<1>7. \A c \in DOMAIN f : f[c].last <= x.accepted
  <2>1. Len(Written(x, g)) \in 0 .. Len(Written(x, g))
    <3>1. Written(x, g) \in Seq(Changed(x, g))
      BY <1>3, WrittenIs
    <3> QED
      BY <3>1
  <2> SUFFICES ASSUME NEW c \in DOMAIN f PROVE f[c].last <= x.accepted
    OBVIOUS
  <2>2. (c \in DOMAIN cache[t] /\ f[c] = cache[t][c]) \/ f[c].last = x.accepted
    BY <1>3, <2>1, RewrittenIs
  <2>3. ASSUME c \in DOMAIN cache[t], f[c] = cache[t][c] PROVE f[c].last <= x.accepted
    <3>1. cache[t][c].last <= x.saved /\ cache[t][c].last \in Nat
      BY <1>2, <1>3, <1>4, <2>3 DEF IdsInv, IsCache
    <3> QED
      BY <1>3, <2>3, <3>1
  <2> QED
    BY <1>3, <2>2, <2>3
<1>8. \A m \in Messages : InAll(history[t], m) => InAll(h, m)
  BY <1>4, FlushReplayed
<1>9. \A r \in Kept : InAll(h, r.msg)
  BY <1>4, FlushReplayed
<1> HIDE DEF y, h, f
<1>10. /\ series'[t] = y /\ history'[t] = h /\ cache'[t] = f
       /\ \A s \in Series \ {t} : series'[s] = series[s] /\ history'[s] = history[s] /\ cache'[s] = cache[s]
  BY <1>1, <1>3
<1>11. \A s \in Series : series'[s].accepted = series[s].accepted
  BY <1>6, <1>10
<1>12. Timely'
  <2>1. \A s \in Series : /\ series'[s].end <= MaxTime
                          /\ series'[s].current # {} => OffGrid(series'[s].begin, series'[s].end)
    BY <1>2, <1>3, <1>6, <1>10 DEF Timely
  <2> QED
    BY <1>1, <1>2, <1>5, <2>1 DEF Timely
<1>13. LogInOrder'
  <2>1. up' # Up => up # Up
    BY <1>1, GridIs
  <2> QED
    BY <1>1, <1>2, <1>4, <2>1 DEF LogInOrder
<1>14. IdsInv'
  <2>1. ASSUME NEW s \in Series
        PROVE  /\ \A r \in Kept' : r.id <= series'[s].accepted
               /\ \A c \in DOMAIN cache'[s] : cache'[s][c].last <= series'[s].saved
    BY <1>1, <1>2, <1>4, <1>5, <1>6, <1>7, <1>10, <1>11 DEF IdsInv
  <2>2. ASSUME up' = Up
        PROVE  (\A s \in Series : series'[s].accepted < nextId') /\ \A r \in Kept' : r.id < nextId'
    <3>1. CASE up = Up
      <4>1. nextId' = nextId
        BY <1>1, <3>1
      <4> QED
        BY <1>2, <1>5, <1>11, <3>1, <4>1 DEF IdsInv
    <3>2. CASE up # Up
      <4>1. nextId' = lastKnownShareId(series') + 1
        BY <1>1, <2>2, <3>2
      <4>2. \A s \in Series : series'[s].accepted \in Nat
        BY <1>3, <1>11
      <4> DEFINE k == lastKnownShareId(series')
      <4>3. k \in Nat /\ \A s \in Series : series'[s].accepted <= k
        BY <4>2, KnownIdIs
      <4> HIDE DEF k
      <4>4. nextId' = k + 1
        BY <4>1 DEF k
      <4>5. \A s \in Series : series'[s].accepted < nextId'
        BY <4>2, <4>3, <4>4
      <4>6. \A r \in Kept' : r.id < nextId'
        <5> SUFFICES ASSUME NEW r \in Kept' PROVE r.id < nextId'
          OBVIOUS
        <5>1. r.id <= series'[1].accepted /\ 1 \in Series /\ r.id \in Nat
          BY <1>5, <2>1, GridIs DEF Records
        <5> QED
          BY <4>2, <4>3, <4>4, <5>1
      <4> QED
        BY <4>5, <4>6
    <3> QED
      BY <3>1, <3>2
  <2> QED
    BY <2>1, <2>2 DEF IdsInv
<1>15. ASSUME NEW s \in Series PROVE Replayed(s)'
  <2>1. CASE s = t
    BY <1>1, <1>2, <1>5, <1>8, <1>9, <1>10, <2>1 DEF Replayed
  <2>2. CASE s # t
    <3>1. SavedId(s)' = SavedId(s)
      BY <1>4, <1>10, <2>2 DEF SavedId
    <3> QED
      BY <1>1, <1>2, <1>4, <1>5, <1>10, <2>2, <3>1 DEF Replayed
  <2> QED
    BY <2>1, <2>2
<1> QED
  BY <1>1, <1>2, <1>12, <1>13, <1>14, <1>15 DEF LogInv

\* A crash keeps the log, when the history gained nothing less than the ids that
\* the files lost.
LEMMA LogCrash ==
    ASSUME Typed, LogInv, NEW lost, Crash(lost),
           \A s \in Series, m \in Messages : InAll(history[s], m) => InAll(history'[s], m),
           \A s \in Series, r \in Kept : InAll(history'[s], r.msg) \/ r.id > Load(cache'[s]).saved
    PROVE  LogInv'
<1>1. /\ UNCHANGED <<now, logs, nextId, logged>> /\ up # 0 /\ up' = 0 /\ buffer' = <<>>
      /\ series' = [s \in Series |-> EmptySeries]
  BY DEF Crash
<1>2. Timely /\ LogInOrder /\ logged \subseteq Messages /\ \A s \in Series : Replayed(s)
  BY DEF LogInv
<1>3. Range(buffer') = {} /\ Rises(buffer') /\ Kept' = Logged(logs) /\ Logged(logs) \subseteq Kept
  BY <1>1 DEF Range, Rises, Kept
<1>4. Timely'
  <2>1. EmptySeries.current = {} /\ EmptySeries.end = 0 /\ MaxTime \in Nat
    BY StatsAssumptions DEF EmptySeries
  <2>2. \A s \in Series : series'[s] = EmptySeries
    BY <1>1
  <2>3. \A s \in Series : /\ series'[s].end <= MaxTime
                          /\ series'[s].current # {} => OffGrid(series'[s].begin, series'[s].end)
    BY <2>1, <2>2
  <2> QED
    BY <1>1, <1>2, <1>3, <2>3 DEF Timely
<1>5. LogInOrder'
  BY <1>1, <1>2, <1>3 DEF LogInOrder
<1>6. IdsInv'
  BY <1>1, GridIs DEF IdsInv
<1>7. \A s \in Series : Replayed(s)'
  <2> SUFFICES ASSUME NEW s \in Series PROVE Replayed(s)'
    OBVIOUS
  <2>1. SavedId(s)' = Load(cache'[s]).saved
    BY <1>1 DEF SavedId
  <2>2. \A m \in logged' : (\E r \in Logged(logs') : r.msg = m) \/ InAll(history'[s], m)
    BY <1>1, <1>2 DEF Replayed
  <2>3. \A r \in Kept' : \/ InAll(history'[s], r.msg)
                         \/ r.id > SavedId(s)' /\ (up' # 0 => r.msg \in series'[s].current)
    BY <1>1, <1>3, <2>1
  <2> QED
    BY <2>2, <2>3 DEF Replayed
<1> QED
  BY <1>1, <1>2, <1>4, <1>5, <1>6, <1>7 DEF LogInv

\* The files know no id that the series has not saved.
LEMMA LoadedId ==
    ASSUME Typed, LogInv, up # 0, NEW s \in Series, NEW r \in Kept
    PROVE  InAll(history[s], r.msg) \/ r.id > Load(cache[s]).saved
<1>1. /\ \A c \in DOMAIN cache[s] : cache[s][c].last <= series[s].saved
      /\ IsCache(cache[s]) /\ series[s].saved \in Nat /\ SavedId(s) = series[s].saved
      /\ r.id \in Nat
  BY KeptIs DEF LogInv, IdsInv, Typed, IsSeries, SavedId, Records
<1>2. Load(cache[s]).saved <= series[s].saved /\ Load(cache[s]).saved \in Nat
  BY <1>1, LoadIs DEF IsSeries
<1>3. InAll(history[s], r.msg) \/ r.id > series[s].saved
  BY <1>1 DEF LogInv, Replayed
<1> QED
  BY <1>1, <1>2, <1>3

LEMMA LogCrashBetween == StatsInv /\ LogInv /\ CrashBetween => LogInv'
<1> SUFFICES ASSUME StatsInv, LogInv, CrashBetween PROVE LogInv'
  OBVIOUS
<1> DEFINE lost == \E s \in Series : Load(cache[s]).saved < series[s].saved
<1>1. Crash(lost) /\ UNCHANGED <<cache, history>>
  BY DEF CrashBetween
<1> HIDE DEF lost
<1>2. Typed /\ up # 0
  BY <1>1 DEF StatsInv, Crash
<1>3. \A s \in Series, r \in Kept : InAll(history'[s], r.msg) \/ r.id > Load(cache'[s]).saved
  BY <1>1, <1>2, LoadedId
<1> QED
  BY <1>1, <1>2, <1>3, LogCrash

LEMMA LogCrashInFlush ==
    ASSUME StatsInv, LogInv, Recoverable, NEW t \in Series, NEW k \in 0 .. MaxTime,
           NEW left \in {"old", "none", "stale"}, CrashInFlush(t, k, left)
    PROVE  LogInv'
<1> DEFINE h == Merged(history[t], series[t], GridInterval[t])
<1>1. /\ Crash(TRUE) /\ history' = [history EXCEPT ![t] = h]
      /\ \A s \in Series \ {t} : cache'[s] = cache[s]
  <2>1. Crash(TRUE) /\ history' = [history EXCEPT ![t] = h]
    BY DEF CrashInFlush
  <2>2. DOMAIN cache = Series
    BY DEF StatsInv, Typed
  <2>3. \A s \in Series \ {t} : cache'[s] = cache[s]
    BY <2>2 DEF CrashInFlush
  <2> QED
    BY <2>1, <2>3
<1>2. Typed /\ up # 0 /\ DOMAIN history = Series
  BY <1>1 DEF StatsInv, Crash, Typed
<1>3. /\ \A m \in Messages : InAll(history[t], m) => InAll(h, m)
      /\ \A r \in Kept : InAll(h, r.msg)
  BY <1>2, FlushReplayed
<1> HIDE DEF h
<1>4. history'[t] = h /\ \A s \in Series \ {t} : history'[s] = history[s]
  BY <1>1, <1>2
<1>5. \A s \in Series, m \in Messages : InAll(history[s], m) => InAll(history'[s], m)
  BY <1>3, <1>4
<1>6. \A s \in Series, r \in Kept : InAll(history'[s], r.msg) \/ r.id > Load(cache'[s]).saved
  BY <1>1, <1>2, <1>3, <1>4, LoadedId
<1> QED
  BY <1>1, <1>2, <1>5, <1>6, LogCrash

LEMMA LogStart == StatsInv /\ LogInv /\ Start => LogInv'
<1> SUFFICES ASSUME StatsInv, LogInv, Start PROVE LogInv'
  OBVIOUS
<1>1. /\ UNCHANGED <<now, cache, history, buffer, logged>>
      /\ up = 0 /\ up' = 1
      /\ series' = [s \in Series |-> AddBatches(Load(cache[s]), Rising(logs))]
  BY DEF Start
<1>2. /\ Typed /\ Timely /\ LogInOrder /\ logged \subseteq Messages
      /\ \A s \in Series : Replayed(s)
  BY DEF StatsInv, LogInv
<1>3. InOrder(logs') /\ Closed(logs') /\ Logged(logs') = Logged(logs)
  BY <1>2, StartLogKeeps DEF LogInOrder
<1>4. buffer = <<>> /\ Range(buffer) = {} /\ 1 # Up /\ 0 # Up
  BY <1>1, <1>2, GridIs DEF LogInOrder, Range
<1>5. Kept = Logged(logs) /\ Kept' = Logged(logs) /\ Kept \subseteq Records /\ IsFiniteSet(Kept)
  BY <1>1, <1>2, <1>3, <1>4, KeptIs, LoggedIs DEF Kept, Typed
<1>6. Rising(logs) = Kept
  BY <1>2, <1>5, RisingIsAll DEF LogInOrder, Typed
<1>7. ASSUME NEW s \in Series
      PROVE  /\ \A r \in Kept : r.id <= series'[s].accepted
             /\ \A c \in DOMAIN cache[s] : cache[s][c].last <= series'[s].saved
             /\ series'[s].saved = SavedId(s)
             /\ \A r \in Kept : r.id > SavedId(s) => r.msg \in series'[s].current
             /\ series'[s].end <= MaxTime
             /\ series'[s].current # {} => OffGrid(series'[s].begin, series'[s].end)
  <2> DEFINE x == Load(cache[s])
             y == AddBatches(x, Kept)
  <2>1. /\ IsSeries(x) /\ x.current = {} /\ x.saved = x.accepted /\ x.end = 0
        /\ \A c \in DOMAIN cache[s] : cache[s][c].last <= x.saved
    BY <1>2, LoadIs DEF Typed
  <2>2. series'[s] = y /\ SavedId(s) = x.saved
    BY <1>1, <1>6 DEF SavedId
  <2>3. \A r \in Kept : Spans(r.begin, r.end)
    BY <1>2 DEF Timely
  <2> HIDE DEF x
  <2>4. /\ y.saved = x.saved /\ \A r \in Kept : r.id <= y.accepted
        /\ y.current = x.current \cup {r.msg : r \in {r \in Kept : r.id > x.accepted}}
    BY <1>5, <2>1, AddBatchesIs
  <2>5. y.end <= MaxTime /\ (y.current # {} => OffGrid(y.begin, y.end))
    <3>1. x.end <= MaxTime /\ (x.current # {} => OffGrid(x.begin, x.end))
      BY <2>1, StatsAssumptions
    <3> QED
      BY <1>5, <2>1, <2>3, <3>1, BatchesSpan
  <2> HIDE DEF y
  <2>6. \A r \in Kept : r.id > x.saved => r.msg \in y.current
    BY <2>1, <2>4
  <2> QED
    BY <2>1, <2>2, <2>4, <2>5, <2>6
<1>8. Timely'
  BY <1>1, <1>2, <1>5, <1>7 DEF Timely
<1>9. LogInOrder'
  BY <1>1, <1>2, <1>3, <1>4 DEF LogInOrder
<1>10. IdsInv'
  BY <1>1, <1>4, <1>5, <1>7 DEF IdsInv
<1>11. \A s \in Series : Replayed(s)'
  <2> SUFFICES ASSUME NEW s \in Series PROVE Replayed(s)'
    OBVIOUS
  <2>1. SavedId(s)' = SavedId(s) /\ Replayed(s)
    BY <1>1, <1>2, <1>7 DEF SavedId
  <2>2. \A r \in Kept : r.id > SavedId(s) => r.msg \in series'[s].current
    BY <1>7
  <2> QED
    BY <1>1, <1>3, <1>5, <2>1, <2>2 DEF Replayed
<1> QED
  BY <1>1, <1>2, <1>8, <1>9, <1>10, <1>11 DEF LogInv

LEMMA LogStep ==
    ASSUME ~PointsOnGrid, StatsInv, LogInv, Recoverable, [Next]_vars
    PROVE  LogInv'
<1>1. CASE Tick
  BY <1>1, LogTick DEF StatsInv
<1>2. CASE \E begin \in 0 .. now : OnWorkSummary(begin)
  BY <1>2, LogOnWorkSummary
<1>3. CASE FlushShareLog
  BY <1>3, LogFlushShareLog
<1>4. CASE \E s \in Series : FlushSeries(s)
  BY <1>4, LogFlushSeries
<1>5. CASE CrashBetween
  BY <1>5, LogCrashBetween
<1>6. CASE \E s \in Series, k \in 0 .. MaxTime, left \in {"old", "none", "stale"} : CrashInFlush(s, k, left)
  BY <1>6, LogCrashInFlush
<1>7. CASE Start
  BY <1>7, LogStart
<1>8. CASE UNCHANGED vars
  <2>1. UNCHANGED <<now, up, series, cache, history, logs, buffer, nextId, logged>>
    BY <1>8 DEF vars
  <2>2. Kept' = Kept /\ \A s \in Series : SavedId(s)' = SavedId(s)
    BY <2>1 DEF Kept, SavedId
  <2> QED
    BY <2>1, <2>2 DEF LogInv, Timely, LogInOrder, IdsInv, Replayed
<1> QED
  BY <1>1, <1>2, <1>3, <1>4, <1>5, <1>6, <1>7, <1>8 DEF Next

\* For all grids, batches and crashes, when no batch lies on a boundary of the
\* grid, no series waits longer for its flush than MaxBatchTimeInterval, and the
\* ids do not fall back behind the name of a file: all work that was written to
\* the log is in the history of every series or waits for its flush, whatever
\* was written when the process died (replayShares, addBatch, cleanupOldFiles).
THEOREM LoggedIsCountedHolds ==
    ASSUME ~PointsOnGrid
    PROVE  Spec /\ []Recoverable => []LoggedIsCounted
<1>1. Init => LogInv
  BY LogInit
<1>2. StatsInv /\ LogInv /\ Recoverable /\ [Next]_vars => LogInv'
  BY LogStep
<1>3. LogInv => LoggedIsCounted
  <2> SUFFICES ASSUME LogInv, up = Up, NEW s \in Series, NEW m \in logged
               PROVE  m \in series[s].current \/ InHistory(s, m) >= Units
    BY DEF LoggedIsCounted
  <2>1. Replayed(s) /\ up # 0
    BY GridIs DEF LogInv
  <2>2. InHistory(s, m) = CellSum(history[s], m)
    BY DEF InHistory, CellSum
  <2>3. CASE \E r \in Logged(logs) : r.msg = m
    BY <2>1, <2>2, <2>3 DEF Replayed, InAll, Kept
  <2>4. CASE InAll(history[s], m)
    BY <2>2, <2>4 DEF InAll
  <2> QED
    BY <2>1, <2>3, <2>4 DEF Replayed
<1>4. Spec => []StatsInv
  BY StatsInvariant
<1> QED
  BY <1>1, <1>2, <1>3, <1>4, PTL DEF Spec
=============================================================================
