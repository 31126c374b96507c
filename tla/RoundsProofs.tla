---------------------------- MODULE RoundsProofs ----------------------------
(***************************************************************************)
(* Proofs about Rounds, for all sets of users, blocks, rewards, work and   *)
(* fee plans, both kinds of coin and any number of crashes.  First what    *)
(* distributeBlockReward does with the coins of one block; then an         *)
(* invariant in three parts:                                               *)
(*   Aligned    which answer of the node belongs to which round            *)
(*   Recorded   the rows on disk and in the batch are the open rounds      *)
(*   Balanced   the money of the rounds, in memory and after a crash       *)
(***************************************************************************)
EXTENDS Rounds, FiniteSetLemmas, SequenceTheorems

\* What a round keeps until its block is decided: the coins of a block without
\* deferred rewards have been split already, those of others have not.
Waiting(r) ==
    /\ r \in MiningRound
    /\ IF deferred THEN r.pps = 0 ELSE SplitExactly(r)

Shape ==
    /\ deferred \in CoinKinds /\ plans \in FeePlans
    /\ rounds \in Seq(MiningRound)
    /\ pc \in {"idle", "query", "loop"} /\ query \in Seq(Blocks)
    /\ i \in Nat /\ it \in 1 .. Len(rounds) + 1 /\ it <= i + 1
    /\ batch = [put |-> batch.put, deleted |-> batch.deleted]
    /\ saved = [rounds |-> saved.rounds, earned |-> saved.earned, pps |-> saved.pps]
    /\ foundDb \subseteq Blocks /\ roundsDb \in [Blocks -> MiningRound \cup {NoRound}]
    /\ chain \in [Blocks -> {"none", "pending", "mature", "uncle", "orphan"}]
    /\ outcome \in [Blocks -> {"none", "orphan", "mature"}]
    /\ crashes \in 0 .. MaxCrashes

\* The j-th answer belongs to the round that the loop reaches with it, and the
\* rounds behind those have not been asked about.
Aligned ==
    /\ pc # "loop" => i = 0 /\ it = 1 /\ batch = EmptyBatch
    /\ pc = "idle" => query = <<>>
    /\ \A j \in i + 1 .. Len(query) :
          it + (j - i) - 1 <= Len(rounds) /\ rounds[it + (j - i) - 1].block = query[j]
    /\ \A k \in DOMAIN rounds : k >= it + (Len(query) - i) /\ k >= it => rounds[k].block \notin Range(query)

Open == {rounds[k].block : k \in DOMAIN rounds}

\* Every open round has its row, and a block that is new to the pool has none.
Recorded ==
    /\ \A k, l \in DOMAIN rounds : rounds[k].block = rounds[l].block => k = l
    /\ DOMAIN saved.rounds = Open \cup batch.deleted /\ Open \cap batch.deleted = {}
    /\ DOMAIN batch.put \subseteq DOMAIN saved.rounds /\ batch.deleted \subseteq Blocks
    /\ \A b \in DOMAIN saved.rounds : Waiting(saved.rounds[b]) /\ saved.rounds[b].block = b
    /\ \A k \in DOMAIN rounds :
          Waiting(rounds[k]) /\ Put(batch.put, saved.rounds)[rounds[k].block] = rounds[k]
    /\ \A b \in Blocks : chain[b] = "none" => outcome[b] = "none" /\ b \notin DOMAIN saved.rounds
    /\ \A b \in Open : outcome[b] = "none"
    /\ \A b \in Paid : roundsDb[b] \in MiningRound /\ SplitExactly(roundsDb[b])

\* The PPS parts of the rounds of a list, and of rows.
PpsOf(s) == Total([k \in DOMAIN s |-> s[k].pps], DOMAIN s)
PpsOfRows(rows) == Total([b \in DOMAIN rows |-> rows[b].pps], DOMAIN rows)

\* Users have e and the PPS account has p: what the rounds of the blocks P in db
\* say, and the PPS parts of open rounds.
Money(e, p, db, P, open) ==
    /\ e \in [Users -> Nat]
    /\ \A u \in Users : e[u] = Total([b \in P |-> db[b].payouts[u]], P)
    /\ p = Total([b \in P |-> db[b].pps], P) + open

\* The blocks that are paid for after a crash.
Kept == Paid \ DOMAIN saved.rounds

Balanced ==
    /\ Money(earned, pps, roundsDb, Paid, PpsOf(rounds))
    /\ Money(saved.earned, saved.pps, roundsDb, Kept, PpsOfRows(saved.rounds))
    /\ batch.deleted = {} => saved.pps = pps

RoundsInv == Shape /\ Aligned /\ Recorded /\ Balanced

----------------------------------------------------------------------------
(* How a block is split.                                                   *)

\* The number of elements of T in front of u.
Rank(T, u) == Cardinality({v \in T : v < u})
FirstOnes(T, r) == [u \in T |-> IF Rank(T, u) < r THEN 1 ELSE 0]

\* Of the elements of T, r have less than r others in front of them.
LEMMA FirstOnesSum ==
    ASSUME NEW S, IsFiniteSet(S), S \subseteq Nat, NEW r \in Nat
    PROVE  Total(FirstOnes(S, r), S) = IF r <= Cardinality(S) THEN r ELSE Cardinality(S)
<1> DEFINE Least(T) == IF r <= Cardinality(T) THEN r ELSE Cardinality(T)
           Good == {T \in SUBSET S : Total(FirstOnes(T, r), T) = Least(T)}
<1>1. ASSUME NEW T \in SUBSET S, \A U \in SUBSET T : U # T => U \in Good
      PROVE  T \in Good
  <2>1. IsFiniteSet(T) /\ T \subseteq Nat /\ Cardinality(T) \in Nat
    BY FS_Subset, FS_CardinalityType
  <2>2. CASE T = {}
    <3>1. Total(FirstOnes(T, r), T) = 0 /\ Cardinality(T) = 0
      BY <2>2, SumEmpty, FS_EmptySet
    <3> QED
      BY <3>1
  <2>3. CASE T # {}
    <3> DEFINE m == Max(T)
               U == T \ {m}
               f == FirstOnes(T, r)
               g == FirstOnes(U, r)
    <3>1. m \in T /\ \A y \in T : m >= y
      BY <2>1, <2>3, MaxExists
    <3> HIDE DEF m
    <3>2. U \in SUBSET T /\ U # T /\ IsFiniteSet(U) /\ U \subseteq Nat
      BY <2>1, <3>1, FS_Subset
    <3>3. Cardinality(T) = Cardinality(U) + 1 /\ Cardinality(U) \in Nat
      BY <2>1, <3>1, <3>2, FS_RemoveElement, FS_CardinalityType
    <3>4. Total(g, U) = Least(U)
      BY <1>1, <3>2
    <3>5. Rank(T, m) = Cardinality(U)
      <4>1. \A v \in T : v \in Nat /\ m \in Nat /\ m >= v
        BY <2>1, <3>1
      <4>2. \A v \in T : v < m <=> v # m
        BY <4>1
      <4>3. {v \in T : v < m} = U
        BY <4>2
      <4> QED
        BY <4>3 DEF Rank
    <3>6. ASSUME NEW u \in U PROVE Rank(T, u) = Rank(U, u)
      <4>1. {v \in T : v < u} = {v \in U : v < u}
        BY <2>1, <3>1
      <4> QED
        BY <4>1 DEF Rank
    <3>7. \A u \in U : f[u] = g[u]
      BY <3>6 DEF FirstOnes
    <3>8. \A u \in T : f[u] \in Int
      BY DEF FirstOnes
    <3>9. f[m] = IF Cardinality(U) < r THEN 1 ELSE 0
      BY <3>1, <3>5 DEF FirstOnes
    <3> HIDE DEF f, g
    <3>10. Total(f, T) = f[m] + Total(f, U)
      BY <2>1, <3>1, <3>8, SumRemove
    <3>11. Total(f, U) = Total(g, U)
      BY <3>2, <3>7, <3>8, SumEqual
    <3>12. Total(f, T) = Least(T)
      BY <3>3, <3>4, <3>9, <3>10, <3>11
    <3> QED
      BY <3>12 DEF f
  <2> QED
    BY <2>2, <2>3
<1> HIDE DEF Good
<1>2. S \in Good
  BY <1>1, SubsetInduction
<1> QED
  BY <1>2 DEF Good

\* What rounding left over is given away to the last unit.
LEMMA CorrectionSum ==
    ASSUME NEW paid, IsFiniteSet(paid), paid \subseteq Nat, paid # {}, NEW left \in Nat
    PROVE  /\ \A u \in paid : Correction(left, paid, u) \in Nat
           /\ Total([u \in paid |-> Correction(left, paid, u)], paid) = left
<1> DEFINE n == Cardinality(paid)
           q == left \div n
           r == left % n
           f == [u \in paid |-> q]
           g == FirstOnes(paid, r)
           h == [u \in paid |-> Correction(left, paid, u)]
<1>1. n \in Nat \ {0}
  BY FS_CardinalityType, FS_EmptySet
<1>2. q \in Nat /\ r \in Nat /\ r < n /\ left = n * q + r
  <2> HIDE DEF n
  <2> QED
    BY <1>1
<1> HIDE DEF q, r, n
<1>3. \A u \in paid : h[u] = f[u] + g[u] /\ f[u] \in Int /\ g[u] \in Int /\ Correction(left, paid, u) \in Nat
  BY <1>1, <1>2, SMTT(30) DEF Correction, FirstOnes, Rank, q, r, n
<1>4. \A u \in paid : f[u] = q
  OBVIOUS
<1> HIDE DEF f, g, h
<1>5. Total(f, paid) = n * q
  <2>1. q \in Int
    BY <1>2
  <2>2. Total(f, paid) = Cardinality(paid) * q
    BY <1>4, <2>1, SumConstant
  <2> QED
    BY <2>2 DEF n
<1>6. Total(g, paid) = r
  <2>1. Total(g, paid) = IF r <= n THEN r ELSE n
    BY <1>2, FirstOnesSum DEF g, n
  <2> QED
    BY <1>1, <1>2, <2>1
<1>7. Total(h, paid) = Total(f, paid) + Total(g, paid)
  BY <1>3, SumPlus
<1>8. n * q \in Int /\ Total(h, paid) = left
  BY <1>1, <1>2, <1>5, <1>6, <1>7
<1> QED
  BY <1>3, <1>8 DEF h

\* The fees of one user are not more than the user's part.
LEMMA FeesFit ==
    ASSUME NEW M, IsFiniteSet(M), NEW value \in Nat, NEW plan \in [M -> Nat]
    PROVE  Fees(value, plan) \in [M -> Nat] /\ Total(Fees(value, plan), M) <= value
<1> DEFINE fee == [v \in M |-> (value * plan[v]) \div 100]
           none == [v \in M |-> 0]
<1>1. Fees(value, plan) = IF Total(fee, M) <= value THEN fee ELSE none
  BY DEF Fees
<1>2. fee \in [M -> Nat]
  <2>1. ASSUME NEW v \in M PROVE (value * plan[v]) \div 100 \in Nat
    <3>1. plan[v] \in Nat
      OBVIOUS
    <3>2. value * plan[v] \in Nat
      BY <3>1
    <3> QED
      BY <3>2
  <2> QED
    BY <2>1
<1>3. none \in [M -> Nat] /\ Total(none, M) = 0
  BY SumZero
<1> HIDE DEF fee, none
<1> QED
  BY <1>1, <1>2, <1>3

\* The parts of the users before the correction, and who is paid.
Share(available, shares) == [u \in DOMAIN shares |-> (available \div Total(shares, DOMAIN shares)) * shares[u]]
Net(value, fee) ==
    [u \in DOMAIN value |-> value[u] - Total(fee[u], DOMAIN value)
                              + Total([w \in DOMAIN value |-> fee[w][u]], DOMAIN value)]

\* Fees move coins from one user to another.
LEMMA NetSum ==
    ASSUME NEW M, IsFiniteSet(M), NEW value \in [M -> Nat],
           NEW fee, \A u, w \in M : fee[u][w] \in Nat, \A u \in M : Total(fee[u], M) <= value[u]
    PROVE  Net(value, fee) \in [M -> Nat] /\ Total(Net(value, fee), M) = Total(value, M)
<1> DEFINE out == [u \in M |-> Total(fee[u], M)]
           back == [u \in M |-> Total([w \in M |-> fee[w][u]], M)]
           kept == [u \in M |-> value[u] - out[u]]
           net == Net(value, fee)
<1>1. ASSUME NEW u \in M
      PROVE  out[u] \in Nat /\ back[u] \in Nat /\ kept[u] \in Nat /\ value[u] = kept[u] + out[u]
  <2>1. \A w \in M : fee[u][w] \in Nat /\ fee[w][u] \in Nat
    OBVIOUS
  <2>2. Total(fee[u], M) \in Nat
    BY <2>1, SumNat
  <2>3. Total([w \in M |-> fee[w][u]], M) \in Nat
    <3> DEFINE col == [w \in M |-> fee[w][u]]
    <3>1. \A w \in M : col[w] \in Nat
      BY <2>1
    <3> HIDE DEF col
    <3>2. Total(col, M) \in Nat
      BY <3>1, SumNat
    <3> QED
      BY <3>2 DEF col
  <2> QED
    BY <2>2, <2>3
<1>2. \A u \in M : net[u] = kept[u] + back[u]
  BY DEF Net
<1>3. Total(out, M) = Total(back, M)
  <2> DEFINE fees == [u \in M |-> [w \in M |-> fee[w][u]]]
  <2>1. \A u, w \in M : fee[u][w] \in Int /\ fees[w][u] = fee[u][w]
    OBVIOUS
  <2>2. \A u \in M : out[u] = Total(fee[u], M) /\ back[u] = Total(fees[u], M)
    OBVIOUS
  <2> HIDE DEF fees, out, back
  <2>3. /\ Matrix(fee, M, M) /\ Transposed(fees, fee, M, M)
        /\ RowSums(out, fee, M, M) /\ RowSums(back, fees, M, M)
    BY <2>1, <2>2 DEF Matrix, Transposed, RowSums
  <2> QED
    BY <2>3, SumSwap
<1>4. net = [u \in M |-> net[u]]
  BY DEF Net
<1>5. net \in [M -> Nat]
  <2> HIDE DEF net, out, back, kept
  <2> QED
    BY <1>1, <1>2, <1>4
<1> HIDE DEF net, out, back, kept
<1>6. Total(value, M) = Total(kept, M) + Total(out, M)
  BY <1>1, SumPlus
<1>7. Total(net, M) = Total(kept, M) + Total(back, M)
  BY <1>1, <1>2, SumPlus
<1> QED
  BY <1>3, <1>5, <1>6, <1>7 DEF net

\* Division rounds down.
LEMMA Quotient ==
    ASSUME NEW a \in Nat, NEW t \in Nat, t # 0
    PROVE  /\ a \div t \in Nat /\ (a \div t) * t \in Nat /\ (a \div t) * t <= a
           /\ t <= a => (a \div t) * t > 0
<1>1. a \div t \in Nat /\ a = (a \div t) * t + (a % t) /\ a % t \in 0 .. t - 1
  OBVIOUS
<1>2. (a \div t) * t \in Nat
  BY <1>1
<1> QED
  BY <1>1, <1>2

Numbers(M) == M \subseteq Nat

\* The payouts are natural numbers and use up the coins, if there is a unit for
\* every share.
LEMMA PayoutsSplit ==
    ASSUME NEW M, IsFiniteSet(M), Numbers(M), NEW available \in Nat,
           NEW shares \in [M -> Nat], NEW feePlans \in [M -> [M -> Nat]]
    PROVE  /\ Payouts(available, shares, feePlans) \in [M -> Nat]
           /\ Total(shares, M) > 0 /\ (available = 0 \/ Total(shares, M) <= available)
                => Total(Payouts(available, shares, feePlans), M) = available
<1> DEFINE t == Total(shares, M)
           d == available \div t
           value == Share(available, shares)
           fee == [u \in M |-> Fees(value[u], feePlans[u])]
           net == Net(value, fee)
           paid == {u \in M : net[u] > 0}
           left == available - Total(value, M)
           gift == [u \in M |-> IF u \in paid THEN Correction(left, paid, u) ELSE 0]
           result == [u \in M |-> IF u \in paid THEN net[u] + Correction(left, paid, u) ELSE 0]
<1>1. t \in Nat
  BY SumNat
<1>2. Payouts(available, shares, feePlans) = IF t = 0 THEN [u \in M |-> 0] ELSE result
  BY DEF Payouts, Share, Net
<1>3. CASE t = 0
  <2>1. [u \in M |-> 0] \in [M -> Nat]
    OBVIOUS
  <2> QED
    BY <1>2, <1>3, <2>1
<1>4. CASE t # 0
  <2>1. d \in Nat /\ d * t \in Nat /\ d * t <= available /\ (t <= available => d * t > 0)
    <3> HIDE DEF t
    <3> QED
      BY <1>1, <1>4, Quotient
  <2>2. value = [u \in M |-> d * shares[u]]
    BY DEF Share
  <2> HIDE DEF value, t, d
  <2>3. value \in [M -> Nat] /\ \A u \in M : value[u] = d * shares[u]
    <3>1. \A u \in M : d * shares[u] \in Nat
      BY <2>1
    <3> QED
      BY <2>2, <3>1
  <2>4. Total(value, M) = d * t
    <3>1. d \in Int /\ \A u \in M : shares[u] \in Int /\ value[u] = d * shares[u]
      BY <2>1, <2>3
    <3>2. Total(value, M) = d * Total(shares, M)
      BY <3>1, SumTimes
    <3> QED
      BY <3>2 DEF t
  <2>5. fee \in [M -> [M -> Nat]] /\ \A u \in M : Total(fee[u], M) <= value[u]
    BY <2>3, FeesFit
  <2> HIDE DEF fee
  <2>6. net \in [M -> Nat] /\ Total(net, M) = d * t
    <3>1. \A u, w \in M : fee[u][w] \in Nat
      BY <2>5
    <3> QED
      BY <2>3, <2>4, <2>5, <3>1, NetSum
  <2>7. left \in Nat /\ left = available - d * t
    BY <2>1, <2>4
  <2> HIDE DEF net, left
  <2>8. IsFiniteSet(paid) /\ paid \subseteq Nat /\ paid \subseteq M
    BY FS_Subset DEF Numbers
  <2> HIDE DEF paid
  <2>9. \A u \in paid : Correction(left, paid, u) \in Nat
    BY <2>7, <2>8, CorrectionSum
  <2>10. \A u \in M : net[u] \in Nat /\ (u \notin paid => net[u] = 0)
    BY <2>6 DEF paid
  <2>11. gift \in [M -> Nat] /\ result \in [M -> Nat] /\ \A u \in M : result[u] = net[u] + gift[u]
    BY <2>9, <2>10
  <2>12. ASSUME available = 0 \/ t <= available
         PROVE  Total(result, M) = available
    <3>1. Total(result, M) = Total(net, M) + Total(gift, M)
      <4> HIDE DEF result, gift
      <4>1. \A u \in M : net[u] \in Int /\ gift[u] \in Int /\ result[u] = net[u] + gift[u]
        BY <2>10, <2>11
      <4> QED
        BY <4>1, SumPlus
    <3>2. Total(gift, M) = Total(gift, paid)
      <4>1. \A u \in M : gift[u] \in Int /\ (u \notin paid => gift[u] = 0)
        BY <2>11
      <4> HIDE DEF gift
      <4> QED
        BY <2>8, <4>1, SumSupport, ZenonT(60)
    <3>3. CASE paid # {}
      <4> DEFINE c == [u \in paid |-> Correction(left, paid, u)]
      <4>1. Total(c, paid) = left
        BY <2>7, <2>8, <3>3, CorrectionSum
      <4>2. \A u \in paid : gift[u] \in Int /\ gift[u] = c[u]
        BY <2>8, <2>11
      <4> HIDE DEF gift, c
      <4>3. Total(gift, paid) = left
        BY <2>8, <4>1, <4>2, SumEqual
      <4> QED
        BY <2>1, <2>6, <2>7, <3>1, <3>2, <4>3
    <3>4. CASE paid = {}
      <4>1. \A u \in M : net[u] = 0
        BY <2>10, <3>4
      <4>2. Total(net, M) = 0
        BY <4>1, SumZero
      <4>3. ~(t <= available) /\ available = 0
        <5>1. d * t = 0
          BY <2>6, <4>2
        <5> QED
          BY <1>1, <2>1, <2>12, <5>1
      <4>4. Total(gift, paid) = 0
        BY <3>4, SumEmpty
      <4> QED
        BY <3>1, <3>2, <4>2, <4>3, <4>4
    <3> QED
      BY <3>3, <3>4
  <2> HIDE DEF result
  <2>13. Payouts(available, shares, feePlans) = result
    BY <1>2, <1>4
  <2> QED
    BY <2>11, <2>12, <2>13 DEF t
<1> QED
  BY <1>3, <1>4

----------------------------------------------------------------------------
(* Rounds and lists of rounds.                                             *)

\* distributeBlockReward, whatever the work and the fee plans.
LEMMA DistributeSplits ==
    ASSUME plans \in FeePlans, NEW r \in MiningRound
    PROVE  /\ DistributeBlockReward(r) \in MiningRound
           /\ DistributeBlockReward(r).block = r.block
           /\ SplitExactly(DistributeBlockReward(r))
<1> DEFINE t == Total(r.work.shares, Users)
           m == r.work.meta
           c == r.coins
           part == PPSValue(c, t + m, m)
           q == c \div (t + m)
           result == Payouts(c - part, r.work.shares, plans)
           R == DistributeBlockReward(r)
<1>1. /\ r.work \in Work /\ c \in Coins /\ c \in Nat /\ r.block \in Blocks
      /\ r.work.shares \in [Users -> Nat] /\ m \in Nat
      /\ plans \in [Users -> [Users -> Nat]]
      /\ IsFiniteSet(Users) /\ Numbers(Users)
      /\ c = 0 \/ t + m <= c
  BY RoundAssumptions DEF MiningRound, Numbers
<1>2. t \in Nat
  BY <1>1, SumNat
<1> HIDE DEF t
<1>3. part \in Nat /\ part <= c /\ (c - part = 0 \/ t <= c - part)
  <2>1. CASE t + m = 0
    <3>1. part = 0
      BY <2>1 DEF PPSValue
    <3>2. t = 0
      BY <1>1, <1>2, <2>1
    <3> HIDE DEF part, c, m
    <3> QED
      BY <1>1, <3>1, <3>2
  <2>2. CASE t + m # 0
    <3>1. part = q * m
      BY <2>2 DEF PPSValue
    <3>2. t + m \in Nat
      BY <1>1, <1>2
    <3>3. q \in Nat /\ q * (t + m) <= c /\ (t + m <= c => q * (t + m) > 0)
      BY <1>1, <2>2, <3>2, Quotient
    <3> HIDE DEF q
    <3>4. q * (t + m) = q * t + q * m /\ q * t \in Nat /\ q * m \in Nat
      BY <1>1, <1>2, <3>3
    <3>5. c # 0 => q >= 1
      BY <1>1, <3>2, <3>3
    <3>6. q >= 1 => q * t >= t
      BY <1>2, <3>3
    <3> DEFINE x == q * t
               y == q * m
    <3>7. x \in Nat /\ y \in Nat /\ x + y <= c /\ part = y /\ (c # 0 => x >= t)
      BY <3>1, <3>3, <3>4, <3>5, <3>6
    <3> HIDE DEF part, c, m, x, y
    <3> QED
      BY <1>1, <1>2, <3>7
  <2> QED
    BY <2>1, <2>2
<1>4. R = [r EXCEPT !.pps = part, !.payouts = result]
  BY DEF DistributeBlockReward, t
<1> HIDE DEF part
<1>5. /\ result \in [Users -> Nat]
      /\ t > 0 => Total(result, Users) = c - part
  <2>1. c - part \in Nat
    BY <1>1, <1>3
  <2> QED
    BY <1>1, <1>3, <2>1, PayoutsSplit DEF t
<1> HIDE DEF result
<1>6. /\ R \in MiningRound /\ R.block = r.block /\ R.coins = c /\ R.work = r.work
      /\ R.pps = part /\ R.payouts = result
  BY <1>1, <1>3, <1>4, <1>5 DEF MiningRound
<1>7. SplitExactly(R)
  <2> HIDE DEF R
  <2> QED
    BY <1>1, <1>3, <1>5, <1>6 DEF SplitExactly, t
<1> QED
  BY <1>6, <1>7

\* What erase leaves of the list.
LEMMA Removed ==
    ASSUME NEW S, NEW s \in Seq(S), NEW n \in 1 .. Len(s)
    PROVE  /\ RemoveAt(s, n) \in Seq(S) /\ Len(RemoveAt(s, n)) = Len(s) - 1
           /\ \A k \in 1 .. Len(s) - 1 : RemoveAt(s, n)[k] = IF k < n THEN s[k] ELSE s[k + 1]
<1>1. Len(s) \in Nat /\ n \in Nat
  OBVIOUS
<1> DEFINE a == SubSeq(s, 1, n - 1)
           b == SubSeq(s, n + 1, Len(s))
<1>2. a \in Seq(S) /\ Len(a) = n - 1 /\ \A k \in 1 .. n - 1 : a[k] = s[k]
  BY <1>1
<1>3. b \in Seq(S) /\ Len(b) = Len(s) - n /\ \A k \in 1 .. Len(s) - n : b[k] = s[k + n]
  BY <1>1
<1> HIDE DEF a, b
<1>4. a \o b \in Seq(S) /\ Len(a \o b) = Len(a) + Len(b)
  BY <1>2, <1>3, ConcatProperties
<1>5. Len(a \o b) = Len(s) - 1
  BY <1>1, <1>2, <1>3, <1>4
<1>6. ASSUME NEW k \in 1 .. Len(s) - 1
      PROVE  (a \o b)[k] = IF k < n THEN s[k] ELSE s[k + 1]
  <2>1. k \in 1 .. Len(a) + Len(b)
    BY <1>1, <1>2, <1>3
  <2>2. (a \o b)[k] = IF k <= Len(a) THEN a[k] ELSE b[k - Len(a)]
    BY <1>2, <1>3, <2>1, ConcatProperties
  <2>3. CASE k < n
    BY <1>1, <1>2, <2>2, <2>3
  <2>4. CASE ~(k < n)
    <3>1. k - Len(a) \in 1 .. Len(s) - n /\ (k - Len(a)) + n = k + 1
      BY <1>1, <1>2, <2>4
    <3>2. b[k - Len(a)] = s[k + 1]
      BY <1>3, <3>1
    <3> QED
      BY <1>1, <1>2, <2>2, <2>4, <3>2
  <2> QED
    BY <2>3, <2>4
<1> QED
  BY <1>4, <1>5, <1>6 DEF RemoveAt, a, b

LEMMA RoundIs ==
    ASSUME NEW r \in MiningRound
    PROVE  /\ r.block \in Blocks /\ r.coins \in Coins /\ r.work \in Work
           /\ r.pps \in Nat /\ r.payouts \in [Users -> Nat]
  BY DEF MiningRound

LEMMA ListIsFinite ==
    ASSUME NEW s \in Seq(MiningRound)
    PROVE  /\ DOMAIN s = 1 .. Len(s) /\ Len(s) \in Nat /\ IsFiniteSet(DOMAIN s)
           /\ \A k \in DOMAIN s : s[k] \in MiningRound /\ s[k].pps \in Nat
<1>1. DOMAIN s = 1 .. Len(s) /\ Len(s) \in Nat /\ \A k \in DOMAIN s : s[k] \in MiningRound
  OBVIOUS
<1>2. IsFiniteSet(1 .. Len(s))
  BY <1>1, FS_Interval
<1> QED
  BY <1>1, <1>2, RoundIs

LEMMA PpsOfIsNat == ASSUME NEW s \in Seq(MiningRound) PROVE PpsOf(s) \in Nat
<1> DEFINE f == [k \in DOMAIN s |-> s[k].pps]
<1>1. IsFiniteSet(DOMAIN s) /\ \A k \in DOMAIN s : f[k] \in Nat
  BY ListIsFinite
<1> HIDE DEF f
<1>2. Total(f, DOMAIN s) \in Nat
  BY <1>1, SumNat
<1> QED
  BY <1>2 DEF PpsOf, f

LEMMA PpsOfAppend ==
    ASSUME NEW s \in Seq(MiningRound), NEW R \in MiningRound
    PROVE  PpsOf(Append(s, R)) = PpsOf(s) + R.pps
<1> DEFINE n == Len(s)
           t == Append(s, R)
           f == [k \in DOMAIN s |-> s[k].pps]
           g == [k \in DOMAIN t |-> t[k].pps]
           S == DOMAIN s
<1>1. /\ t \in Seq(MiningRound) /\ DOMAIN t = 1 .. n + 1 /\ t[n + 1] = R
      /\ \A k \in 1 .. n : t[k] = s[k]
  OBVIOUS
<1>2. S = 1 .. n /\ n \in Nat /\ IsFiniteSet(S) /\ \A k \in S : f[k] \in Nat
  BY ListIsFinite
<1>3. DOMAIN t = S \cup {n + 1} /\ n + 1 \notin S
  BY <1>1, <1>2
<1>4. (\A k \in S : f[k] \in Int /\ f[k] = g[k]) /\ g[n + 1] = R.pps /\ \A k \in S \cup {n + 1} : g[k] \in Int
  BY <1>1, <1>2, <1>3, RoundIs
<1> HIDE DEF f, g, S, t
<1>5. Total(g, S \cup {n + 1}) = g[n + 1] + Total(g, S)
  BY <1>2, <1>3, <1>4, SumAdd
<1>6. Total(f, S) = Total(g, S) /\ Total(f, S) \in Int
  BY <1>2, <1>4, SumEqual, SumInt
<1>7. PpsOf(t) = Total(g, S \cup {n + 1})
  BY <1>3 DEF PpsOf, g
<1>8. PpsOf(s) = Total(f, S)
  BY DEF PpsOf, f, S
<1>9. R.pps \in Int
  BY RoundIs
<1> QED
  BY <1>4, <1>5, <1>6, <1>7, <1>8, <1>9 DEF t

LEMMA PpsOfUpdate ==
    ASSUME NEW s \in Seq(MiningRound), NEW n \in 1 .. Len(s), NEW R \in MiningRound
    PROVE  /\ [s EXCEPT ![n] = R] \in Seq(MiningRound)
           /\ PpsOf([s EXCEPT ![n] = R]) = PpsOf(s) - s[n].pps + R.pps
<1> DEFINE t == [s EXCEPT ![n] = R]
           f == [k \in DOMAIN s |-> s[k].pps]
           g == [k \in DOMAIN t |-> t[k].pps]
           S == DOMAIN s
<1>1. t \in Seq(MiningRound) /\ DOMAIN t = S /\ n \in S /\ t[n] = R /\ \A k \in S \ {n} : t[k] = s[k]
  OBVIOUS
<1>2. IsFiniteSet(S) /\ \A k \in S : f[k] \in Int /\ g[k] \in Int
  <2>1. IsFiniteSet(S) /\ \A k \in S : s[k].pps \in Nat
    BY ListIsFinite
  <2>2. \A k \in S : t[k].pps \in Nat
    <3> HIDE DEF t
    <3> QED
      BY <1>1, ListIsFinite
  <2> QED
    BY <1>1, <2>1, <2>2
<1>3. (\A k \in S \ {n} : f[k] = g[k]) /\ f[n] = s[n].pps /\ g[n] = R.pps
  BY <1>1
<1> DEFINE y == n
<1>4. y \in S /\ \A k \in S \ {y} : f[k] = g[k]
  BY <1>1, <1>3
<1> HIDE DEF f, g, S, t, y
<1>6. Total(g, S) = Total(f, S) - f[y] + g[y]
  BY <1>2, <1>4, SumChange
<1>5. PpsOf(t) = Total(g, S) /\ PpsOf(s) = Total(f, S)
  BY <1>1 DEF PpsOf, f, g, S
<1> QED
  BY <1>1, <1>3, <1>5, <1>6 DEF t, y

LEMMA PpsOfRemove ==
    ASSUME NEW s \in Seq(MiningRound), NEW n \in 1 .. Len(s)
    PROVE  PpsOf(s) = PpsOf(RemoveAt(s, n)) + s[n].pps
<1> DEFINE t == RemoveAt(s, n)
           f == [k \in DOMAIN s |-> s[k].pps]
           g == [k \in DOMAIN t |-> t[k].pps]
           S == DOMAIN s
           T == S \ {n}
           m == [k \in DOMAIN t |-> IF k < n THEN k ELSE k + 1]
<1>1. /\ t \in Seq(MiningRound) /\ Len(t) = Len(s) - 1
      /\ \A k \in 1 .. Len(s) - 1 : t[k] = IF k < n THEN s[k] ELSE s[k + 1]
  BY Removed
<1>2. /\ Len(s) \in Nat /\ S = 1 .. Len(s) /\ IsFiniteSet(S) /\ n \in S
      /\ \A k \in S : f[k] \in Int /\ f[k] = s[k].pps
  BY ListIsFinite
<1> HIDE DEF t
<1>3. DOMAIN t = 1 .. Len(s) - 1 /\ IsFiniteSet(DOMAIN t)
  BY <1>1, ListIsFinite
<1>4. m \in [DOMAIN t -> T]
  BY <1>2, <1>3
<1>5. \A j, k \in DOMAIN t : m[j] = m[k] => j = k
  BY <1>2, <1>3
<1>6. ASSUME NEW z \in T PROVE \E k \in DOMAIN t : m[k] = z
  <2>1. CASE z < n
    <3>1. z \in DOMAIN t /\ m[z] = z
      BY <1>2, <1>3, <2>1
    <3> QED
      BY <3>1
  <2>2. CASE ~(z < n)
    <3>1. z - 1 \in DOMAIN t /\ ~(z - 1 < n) /\ z - 1 + 1 = z
      BY <1>2, <1>3, <2>2
    <3>2. m[z - 1] = z
      BY <3>1
    <3> QED
      BY <3>1, <3>2
  <2> QED
    BY <2>1, <2>2
<1>7. \A k \in DOMAIN t : g[k] \in Int /\ f[m[k]] = g[k]
  BY <1>1, <1>2, <1>3, <1>4
<1> DEFINE U == DOMAIN t
<1>8. Total(g, U) = Total(f, T)
  <2>1. /\ IsFiniteSet(U) /\ m \in [U -> T] /\ \A j, k \in U : m[j] = m[k] => j = k
        /\ \A z \in T : \E k \in U : m[k] = z
        /\ \A k \in U : g[k] \in Int /\ f[m[k]] = g[k]
    BY <1>3, <1>4, <1>5, <1>6, <1>7
  <2> HIDE DEF f, g, S, T, m, U
  <2> QED
    BY <2>1, SumRename
<1> HIDE DEF f, g, S, T, m
<1>9. Total(f, S) = f[n] + Total(f, T)
  <2>1. IsFiniteSet(S) /\ n \in S /\ \A k \in S : f[k] \in Int
    BY <1>2
  <2>2. Total(f, S) = f[n] + Total(f, S \ {n})
    BY <2>1, SumRemove
  <2> QED
    BY <2>2 DEF T
<1>10. Total(f, T) \in Int
  <2>1. IsFiniteSet(T) /\ T \subseteq S
    BY <1>2, FS_Subset DEF T
  <2> QED
    BY <1>2, <2>1, SumInt
<1>11. PpsOf(t) = Total(g, DOMAIN t) /\ PpsOf(s) = Total(f, S)
  BY DEF PpsOf, f, g, S
<1> QED
  BY <1>2, <1>8, <1>9, <1>10, <1>11 DEF t

\* Rows of rounds by their blocks.
RowsOf(rows) ==
    /\ DOMAIN rows \subseteq Blocks
    /\ \A b \in DOMAIN rows : rows[b] \in MiningRound /\ rows[b].block = b

\* The list s and the rows hold the same rounds.
Lists(s, rows) ==
    /\ s \in Seq(MiningRound)
    /\ \A k, l \in DOMAIN s : s[k].block = s[l].block => k = l
    /\ {s[k].block : k \in DOMAIN s} = DOMAIN rows
    /\ \A k \in DOMAIN s : s[k] = rows[s[k].block]

LEMMA PpsOfLists ==
    ASSUME NEW s, NEW rows, Lists(s, rows)
    PROVE  PpsOf(s) = PpsOfRows(rows)
<1> DEFINE f == [k \in DOMAIN s |-> s[k].pps]
           g == [b \in DOMAIN rows |-> rows[b].pps]
           m == [k \in DOMAIN s |-> s[k].block]
           S == DOMAIN s
           T == DOMAIN rows
<1>1. IsFiniteSet(S) /\ \A k \in S : f[k] \in Int
  BY ListIsFinite DEF Lists
<1>2. T = {s[k].block : k \in S} /\ \A k \in S : s[k] = rows[s[k].block]
  BY DEF Lists
<1>3. m \in [S -> T] /\ \A z \in T : \E k \in S : m[k] = z
  BY <1>2
<1>4. \A j, k \in S : m[j] = m[k] => j = k
  BY DEF Lists
<1>5. \A k \in S : f[k] \in Int /\ g[m[k]] = f[k]
  BY <1>1, <1>2
<1> HIDE DEF f, g, m, S, T
<1>6. Total(f, S) = Total(g, T)
  BY <1>1, <1>3, <1>4, <1>5, SumRename
<1> QED
  BY <1>6 DEF PpsOf, PpsOfRows, f, g, S, T

LEMMA LoadedLists ==
    ASSUME NEW rows, RowsOf(rows)
    PROVE  Lists(Loaded(rows), rows)
<1> DEFINE S == DOMAIN rows
           n == Cardinality(S)
           keys == Ascending(S)
           s == Loaded(rows)
<1>1. IsFiniteSet(S) /\ S \subseteq Nat
  BY RoundAssumptions, FS_Subset DEF RowsOf
<1>2. n \in Nat
  BY <1>1, FS_CardinalityType
<1>3. /\ keys \in [1 .. n -> S] /\ \A j, k \in 1 .. n : keys[j] = keys[k] => j = k
      /\ \A x \in S : \E k \in 1 .. n : keys[k] = x
  BY <1>1, AscendingIs
<1> HIDE DEF keys, S, n
<1>4. s = [k \in 1 .. n |-> rows[keys[k]]]
  BY <1>3 DEF Loaded, keys, S
<1>5. \A k \in 1 .. n : keys[k] \in S /\ rows[keys[k]] \in MiningRound /\ rows[keys[k]].block = keys[k]
  BY <1>3 DEF RowsOf, S
<1>6. s \in [1 .. n -> MiningRound]
  BY <1>4, <1>5
<1>7. s \in Seq(MiningRound) /\ DOMAIN s = 1 .. n
  BY <1>2, <1>6
<1>8. \A k \in 1 .. n : s[k] = rows[keys[k]] /\ s[k].block = keys[k]
  BY <1>4, <1>5
<1> HIDE DEF s
<1>9. {s[k].block : k \in DOMAIN s} = S
  BY <1>3, <1>5, <1>7, <1>8
<1>10. \A k \in DOMAIN s : s[k] = rows[s[k].block]
  BY <1>7, <1>8
<1>11. \A j, k \in DOMAIN s : s[j].block = s[k].block => j = k
  BY <1>3, <1>7, <1>8
<1> QED
  BY <1>7, <1>9, <1>10, <1>11 DEF Lists, s, S

LEMMA PpsOfPut ==
    ASSUME NEW rows, RowsOf(rows), NEW R \in MiningRound, R.block \notin DOMAIN rows
    PROVE  PpsOfRows(Put([k \in {R.block} |-> R], rows)) = PpsOfRows(rows) + R.pps
<1> DEFINE S == DOMAIN rows
           b == R.block
           new == Put([k \in {b} |-> R], rows)
           f == [x \in S |-> rows[x].pps]
           g == [x \in S \cup {b} |-> new[x].pps]
<1>1. IsFiniteSet(S)
  BY RoundAssumptions, FS_Subset DEF RowsOf
<1>2. DOMAIN new = S \cup {b} /\ new[b] = R /\ \A x \in S : new[x] = rows[x]
  BY DEF Put
<1>3. g[b] \in Int /\ g[b] = R.pps /\ \A x \in S : f[x] \in Int /\ f[x] = g[x]
  BY <1>2, RoundIs DEF RowsOf
<1>4. PpsOfRows(new) = Total(g, S \cup {b}) /\ PpsOfRows(rows) = Total(f, S)
  BY <1>2 DEF PpsOfRows
<1> DEFINE T == S \cup {b}
<1>5. b \in T /\ T \ {b} = S /\ IsFiniteSet(T) /\ \A x \in T : g[x] \in Int
  BY <1>1, <1>3, FS_AddElement
<1> HIDE DEF f, g, S, b, new, T
<1>6. Total(g, T) = g[b] + Total(g, S)
  <2>1. Total(g, T) = g[b] + Total(g, T \ {b})
    BY <1>5, SumRemove
  <2> QED
    BY <1>5, <2>1, Zenon
<1>7. Total(f, S) = Total(g, S) /\ Total(f, S) \in Int
  BY <1>1, <1>3, SumEqual, SumInt
<1> QED
  BY <1>3, <1>4, <1>5, <1>6, <1>7 DEF new, b, T

----------------------------------------------------------------------------
(* Money.                                                                  *)

\* Only the rounds of the blocks that are paid for matter.
LEMMA MoneySame ==
    ASSUME NEW e, NEW p, NEW open, NEW P \in SUBSET Blocks, NEW db, NEW db2,
           \A b \in P : db2[b] = db[b], Money(e, p, db, P, open)
    PROVE  Money(e, p, db2, P, open)
<1>1. ASSUME NEW u
      PROVE  [b \in P |-> db2[b].payouts[u]] = [b \in P |-> db[b].payouts[u]]
  OBVIOUS
<1>2. [b \in P |-> db2[b].pps] = [b \in P |-> db[b].pps]
  OBVIOUS
<1> QED
  BY <1>1, <1>2 DEF Money

\* The PPS account when the open rounds change.
LEMMA MoneyOpen ==
    ASSUME NEW e, NEW p \in Int, NEW open \in Int, NEW P \in SUBSET Blocks, NEW db,
           \A b \in P : db[b] \in MiningRound, Money(e, p, db, P, open), NEW open2 \in Int
    PROVE  Money(e, p + (open2 - open), db, P, open2)
<1> DEFINE f == [b \in P |-> db[b].pps]
<1>1. IsFiniteSet(P)
  BY RoundAssumptions, FS_Subset
<1>5. \A b \in P : f[b] \in Int
  BY RoundIs
<1> HIDE DEF f
<1>2. Total(f, P) \in Int
  BY <1>1, <1>5, SumInt
<1>3. p = Total(f, P) + open
  BY DEF Money, f
<1>4. p + (open2 - open) = Total(f, P) + open2
  BY <1>2, <1>3
<1> QED
  BY <1>4 DEF Money, f

\* The PPS account is never below zero.
LEMMA MoneyIsNat ==
    ASSUME NEW e, NEW p, NEW open \in Nat, NEW P \in SUBSET Blocks, NEW db,
           \A b \in P : db[b] \in MiningRound, Money(e, p, db, P, open)
    PROVE  p \in Nat
<1> DEFINE f == [b \in P |-> db[b].pps]
<1>1. IsFiniteSet(P) /\ \A b \in P : f[b] \in Nat
  BY RoundAssumptions, FS_Subset, RoundIs
<1> HIDE DEF f
<1>2. Total(f, P) \in Nat
  BY <1>1, SumNat
<1> QED
  BY <1>2 DEF Money, f

----------------------------------------------------------------------------
(* The invariant.                                                          *)

LEMMA NoMoney ==
    ASSUME NEW db
    PROVE  Money(NoPayouts, 0, db, {}, 0) /\ PpsOf(<<>>) = 0 /\ PpsOfRows(NoRows) = 0
<1>1. \A f : Total(f, {}) = 0
  BY SumEmpty
<1>2. PpsOf(<<>>) = 0
  BY <1>1 DEF PpsOf
<1>3. DOMAIN NoRows = {}
  BY DEF NoRows
<1>4. PpsOfRows(NoRows) = 0
  BY <1>1, <1>3 DEF PpsOfRows
<1> QED
  BY <1>1, <1>2, <1>4 DEF Money, NoPayouts

LEMMA RoundsInit == Init => RoundsInv
<1> SUFFICES ASSUME Init PROVE RoundsInv
  OBVIOUS
<1>1. Shape
  BY RoundAssumptions DEF Init, Shape, EmptyBatch
<1>2. Aligned
  BY DEF Init, Aligned
<1>3. Paid = {} /\ Kept = {} /\ DOMAIN NoRows = {} /\ Open = {}
  BY DEF Init, Paid, Kept, NoRows, Open
<1>4. Recorded
  BY <1>3 DEF Init, Recorded, EmptyBatch
<1>5. Balanced
  BY <1>3, NoMoney DEF Init, Balanced
<1> QED
  BY <1>1, <1>2, <1>4, <1>5 DEF RoundsInv

\* What the check of the rounds has nothing to do with.
LEMMA StepPlans ==
    ASSUME RoundsInv, NEW p \in FeePlans, OnFeePlanUpdate(p)
    PROVE  RoundsInv'
<1> USE DEF OnFeePlanUpdate, ledger, check, history
<1>1. Shape'
  BY DEF RoundsInv, Shape
<1>2. Aligned'
  BY DEF RoundsInv, Aligned
<1>3. Recorded'
  BY DEF RoundsInv, Recorded, Open, Paid, Waiting
<1>4. Balanced'
  BY DEF RoundsInv, Balanced, Kept, Paid
<1> QED
  BY <1>1, <1>2, <1>3, <1>4 DEF RoundsInv

LEMMA StepChain ==
    ASSUME RoundsInv, NEW b \in Blocks, ChainDecides(b)
    PROVE  RoundsInv'
<1> USE DEF ChainDecides, ledger, check, history, config
<1>1. Shape'
  BY DEF RoundsInv, Shape
<1>2. Aligned'
  BY DEF RoundsInv, Aligned
<1>3. \A y \in Blocks : chain'[y] = "none" => chain[y] = "none"
  BY DEF RoundsInv, Shape
<1>4. Recorded'
  BY <1>3 DEF RoundsInv, Recorded, Open, Paid, Waiting
<1>5. Balanced'
  BY DEF RoundsInv, Balanced, Kept, Paid
<1> QED
  BY <1>1, <1>2, <1>4, <1>5 DEF RoundsInv

LEMMA StepCheckFailed ==
    ASSUME RoundsInv, CheckFailed
    PROVE  RoundsInv'
<1> USE DEF CheckFailed, NoCheck, ledger, history, config
<1>1. batch' = batch /\ i' = 0 /\ it' = 1 /\ Len(query') = 0 /\ Range(query') = {}
  BY DEF RoundsInv, Aligned, Range
<1>2. Shape'
  BY <1>1 DEF RoundsInv, Shape
<1>3. Aligned'
  BY <1>1 DEF Aligned
<1>4. Recorded'
  BY <1>1 DEF RoundsInv, Recorded, Open, Paid, Waiting
<1>5. Balanced'
  BY <1>1 DEF RoundsInv, Balanced, Kept, Paid
<1> QED
  BY <1>2, <1>3, <1>4, <1>5 DEF RoundsInv

LEMMA StepStartCheck ==
    ASSUME RoundsInv, StartCheck
    PROVE  RoundsInv'
<1> USE DEF StartCheck, ledger, history, config
<1>1. /\ rounds \in Seq(MiningRound) /\ Len(rounds) \in Nat /\ DOMAIN rounds = 1 .. Len(rounds)
      /\ \A k \in 1 .. Len(rounds) : rounds[k].block \in Blocks
  BY RoundIs DEF RoundsInv, Shape
<1>2. query' \in Seq(Blocks) /\ Len(query') = Len(rounds) /\ \A k \in 1 .. Len(rounds) : query'[k] = rounds[k].block
  BY <1>1
<1>3. i = 0 /\ it = 1 /\ batch = EmptyBatch
  BY DEF RoundsInv, Aligned
<1>4. Shape'
  BY <1>2 DEF RoundsInv, Shape
<1>5. Aligned'
  BY <1>1, <1>2, <1>3 DEF Aligned
<1>6. Recorded'
  BY DEF RoundsInv, Recorded, Open, Paid, Waiting
<1>7. Balanced'
  BY DEF RoundsInv, Balanced, Kept, Paid
<1> QED
  BY <1>4, <1>5, <1>6, <1>7 DEF RoundsInv

LEMMA PpsOfRowsIsNat == ASSUME NEW rows, RowsOf(rows) PROVE PpsOfRows(rows) \in Nat
<1> DEFINE f == [b \in DOMAIN rows |-> rows[b].pps]
           S == DOMAIN rows
<1>1. IsFiniteSet(S) /\ \A b \in S : f[b] \in Nat
  BY RoundAssumptions, FS_Subset, RoundIs DEF RowsOf
<1> HIDE DEF f, S
<1>2. Total(f, S) \in Nat
  BY <1>1, SumNat
<1> QED
  BY <1>2 DEF PpsOfRows, f, S

\* The amounts of the invariant are numbers.
LEMMA Amounts ==
    ASSUME RoundsInv
    PROVE  /\ RowsOf(saved.rounds)
           /\ pps \in Nat /\ PpsOf(rounds) \in Nat
           /\ saved.pps \in Nat /\ PpsOfRows(saved.rounds) \in Nat
           /\ Paid \in SUBSET Blocks /\ Kept \in SUBSET Blocks
           /\ \A y \in Paid : roundsDb[y] \in MiningRound
<1>1. Paid \in SUBSET Blocks /\ Kept \in SUBSET Blocks /\ \A y \in Paid : roundsDb[y] \in MiningRound
  BY DEF Paid, Kept, RoundsInv, Recorded
<1>2. RowsOf(saved.rounds)
  <2>1. \A y \in DOMAIN saved.rounds : saved.rounds[y] \in MiningRound /\ saved.rounds[y].block = y
    BY DEF RoundsInv, Recorded, Waiting
  <2> QED
    BY <2>1, RoundIs DEF RowsOf
<1>3. PpsOf(rounds) \in Nat /\ PpsOfRows(saved.rounds) \in Nat
  BY <1>2, PpsOfIsNat, PpsOfRowsIsNat DEF RoundsInv, Shape
<1>4. pps \in Nat
  <2>1. Money(earned, pps, roundsDb, Paid, PpsOf(rounds))
    BY DEF RoundsInv, Balanced
  <2> QED
    BY <1>1, <1>3, <2>1, MoneyIsNat
<1>5. saved.pps \in Nat
  <2>1. Money(saved.earned, saved.pps, roundsDb, Kept, PpsOfRows(saved.rounds))
    BY DEF RoundsInv, Balanced
  <2>2. \A y \in Kept : roundsDb[y] \in MiningRound
    BY <1>1 DEF Kept
  <2> QED
    BY <1>1, <1>3, <2>1, <2>2, MoneyIsNat
<1> QED
  BY <1>1, <1>2, <1>3, <1>4, <1>5

LEMMA NewRound ==
    ASSUME RoundsInv, NEW b \in Blocks, NEW c \in Coins, NEW w \in Work,
           NEW r, r = [block |-> b, coins |-> c, work |-> w, pps |-> 0, payouts |-> NoPayouts],
           NEW R, R = IF deferred THEN r ELSE DistributeBlockReward(r)
    PROVE  Waiting(R) /\ R \in MiningRound /\ R.block = b
<1>1. r \in MiningRound /\ r.block = b /\ r.pps = 0
  BY DEF MiningRound, NoPayouts
<1>2. plans \in FeePlans /\ deferred \in BOOLEAN
  BY RoundAssumptions DEF RoundsInv, Shape
<1> QED
  BY <1>1, <1>2, DistributeSplits DEF Waiting

\* A handler that runs while nothing is in the batch.
LEMMA Idle ==
    ASSUME RoundsInv, Yielded
    PROVE  /\ i = 0 /\ it = 1 /\ batch = EmptyBatch /\ batch.deleted = {} /\ DOMAIN batch.put = {}
           /\ DOMAIN saved.rounds = Open /\ saved.pps = pps
           /\ \A k \in DOMAIN rounds : saved.rounds[rounds[k].block] = rounds[k]
<1>1. i = 0 /\ it = 1 /\ batch = EmptyBatch
  BY DEF RoundsInv, Aligned, Yielded
<1>2. batch.deleted = {} /\ DOMAIN batch.put = {}
  BY <1>1 DEF EmptyBatch, NoRows
<1>3. DOMAIN saved.rounds = Open
  BY <1>2 DEF RoundsInv, Recorded
<1>4. \A y \in DOMAIN saved.rounds : Put(batch.put, saved.rounds)[y] = saved.rounds[y]
  BY <1>2 DEF Put
<1>5. \A k \in DOMAIN rounds : rounds[k].block \in DOMAIN saved.rounds
  BY <1>3 DEF Open
<1>6. \A k \in DOMAIN rounds : saved.rounds[rounds[k].block] = rounds[k]
  BY <1>4, <1>5 DEF RoundsInv, Recorded
<1> QED
  BY <1>1, <1>2, <1>3, <1>6 DEF RoundsInv, Balanced

LEMMA StepFound ==
    ASSUME RoundsInv, NEW b \in Blocks, NEW c \in Coins, NEW w \in Work, OnBlockFound(b, c, w)
    PROVE  RoundsInv'
<1> DEFINE r == [block |-> b, coins |-> c, work |-> w, pps |-> 0, payouts |-> NoPayouts]
           R == IF deferred THEN r ELSE DistributeBlockReward(r)
           row == [k \in {b} |-> R]
           rows == saved.rounds
<1>1. Waiting(R) /\ R \in MiningRound /\ R.block = b /\ R.pps \in Nat
  BY NewRound, RoundIs
<1>2. /\ Yielded /\ chain[b] = "none" /\ chain' = [chain EXCEPT ![b] = "pending"]
      /\ foundDb' = foundDb \cup {b} /\ rounds' = Append(rounds, R) /\ pps' = pps + R.pps
      /\ saved' = [saved EXCEPT !.rounds = Put(row, @), !.pps = pps']
      /\ earned' = earned /\ roundsDb' = roundsDb /\ outcome' = outcome /\ crashes' = crashes
      /\ pc' = pc /\ query' = query /\ i' = i /\ it' = it /\ batch' = batch
      /\ deferred' = deferred /\ plans' = plans
  BY DEF OnBlockFound, PutFoundBlock, check, config
<1> HIDE DEF R
<1>3. /\ rounds \in Seq(MiningRound) /\ Len(rounds) \in Nat /\ DOMAIN rounds = 1 .. Len(rounds)
      /\ rounds' \in Seq(MiningRound) /\ Len(rounds') = Len(rounds) + 1
      /\ DOMAIN rounds' = 1 .. Len(rounds) + 1 /\ rounds'[Len(rounds) + 1] = R
      /\ \A k \in 1 .. Len(rounds) : rounds'[k] = rounds[k]
  BY <1>1, <1>2 DEF RoundsInv, Shape
<1>4. /\ i = 0 /\ it = 1 /\ batch.deleted = {} /\ DOMAIN batch.put = {}
      /\ DOMAIN rows = Open /\ saved.pps = pps
      /\ \A k \in DOMAIN rounds : rows[rounds[k].block] = rounds[k]
  BY <1>2, Idle
<1>5. b \notin DOMAIN rows /\ b \notin Open /\ outcome[b] = "none"
  BY <1>2, <1>4 DEF RoundsInv, Recorded
<1>6. /\ saved'.rounds = Put(row, rows) /\ saved'.pps = pps + R.pps /\ saved'.earned = saved.earned
      /\ saved' = [rounds |-> saved'.rounds, earned |-> saved'.earned, pps |-> saved'.pps]
  BY <1>2 DEF RoundsInv, Shape
<1>7. Shape'
  BY <1>2, <1>3, <1>6 DEF RoundsInv, Shape
<1>8. Aligned'
  <2>1. /\ pc # "loop" => i = 0 /\ it = 1 /\ batch = EmptyBatch
        /\ pc = "idle" => query = <<>>
        /\ \A j \in i + 1 .. Len(query) :
              it + (j - i) - 1 <= Len(rounds) /\ rounds[it + (j - i) - 1].block = query[j]
        /\ \A k \in DOMAIN rounds : k >= it + (Len(query) - i) /\ k >= it => rounds[k].block \notin Range(query)
    BY DEF RoundsInv, Aligned
  <2>2. Len(query) \in Nat /\ DOMAIN query = 1 .. Len(query)
    BY DEF RoundsInv, Shape
  <2>3. \A j \in 1 .. Len(query) : j <= Len(rounds) /\ rounds[j].block = query[j]
    BY <1>3, <1>4, <2>1, <2>2
  <2>4. b \notin Range(query)
    BY <1>3, <1>5, <2>2, <2>3 DEF Range, Open
  <2>5. \A j \in 1 .. Len(query) : j <= Len(rounds') /\ rounds'[j].block = query[j]
    BY <1>3, <2>2, <2>3
  <2>6. \A k \in DOMAIN rounds' : k >= 1 + Len(query) => rounds'[k].block \notin Range(query)
    BY <1>1, <1>3, <1>4, <2>1, <2>2, <2>4
  <2> QED
    BY <1>2, <1>4, <2>1, <2>2, <2>5, <2>6 DEF Aligned
<1>9. Open' = Open \cup {b}
  BY <1>1, <1>3 DEF Open
<1>10. /\ DOMAIN saved'.rounds = Open' /\ saved'.rounds[b] = R
       /\ \A y \in DOMAIN rows : y # b /\ saved'.rounds[y] = rows[y]
  BY <1>4, <1>5, <1>6, <1>9 DEF Put
<1>11. Recorded'
  <2>1. \A k, l \in DOMAIN rounds' : rounds'[k].block = rounds'[l].block => k = l
    <3>1. \A k, l \in DOMAIN rounds : rounds[k].block = rounds[l].block => k = l
      BY DEF RoundsInv, Recorded
    <3>2. \A k \in DOMAIN rounds : rounds[k].block # b
      BY <1>5 DEF Open
    <3> QED
      BY <1>1, <1>3, <3>1, <3>2
  <2>2. (\A y \in DOMAIN saved.rounds : Waiting(saved.rounds[y]) /\ saved.rounds[y].block = y)'
    <3>1. \A y \in DOMAIN rows : Waiting(rows[y]) /\ rows[y].block = y
      BY DEF RoundsInv, Recorded
    <3>2. \A y \in DOMAIN saved'.rounds : Waiting(saved'.rounds[y]) /\ saved'.rounds[y].block = y
      BY <1>1, <1>4, <1>9, <1>10, <3>1
    <3> QED
      BY <1>2, <3>2 DEF Waiting
  <2>3. \A k \in DOMAIN rounds' :
           rounds'[k].block \in DOMAIN saved'.rounds /\ saved'.rounds[rounds'[k].block] = rounds'[k]
    BY <1>1, <1>3, <1>4, <1>5, <1>9, <1>10 DEF Open
  <2>5. (\A k \in DOMAIN rounds :
            Waiting(rounds[k]) /\ Put(batch.put, saved.rounds)[rounds[k].block] = rounds[k])'
    <3>1. DOMAIN batch'.put = {}
      BY <1>2, <1>4
    <3>2. \A y \in DOMAIN saved'.rounds : Put(batch'.put, saved'.rounds)[y] = saved'.rounds[y]
      BY <3>1 DEF Put
    <3>3. (\A k \in DOMAIN rounds : Waiting(rounds[k]))'
      BY <2>2, <2>3
    <3> QED
      BY <2>3, <3>2, <3>3
  <2>6. \A y \in Blocks : chain'[y] = "none" => outcome'[y] = "none" /\ y \notin DOMAIN saved'.rounds
    <3>1. \A y \in Blocks : chain'[y] = "none" => y # b /\ chain[y] = "none"
      BY <1>2 DEF RoundsInv, Shape
    <3> QED
      BY <1>2, <1>4, <1>9, <1>10, <3>1 DEF RoundsInv, Recorded
  <2>7. \A y \in Open' : outcome'[y] = "none"
    BY <1>2, <1>5, <1>9 DEF RoundsInv, Recorded
  <2>8. \A y \in Paid' : roundsDb'[y] \in MiningRound /\ SplitExactly(roundsDb'[y])
    BY <1>2 DEF RoundsInv, Recorded, Paid
  <2>9. batch'.deleted = {} /\ DOMAIN batch'.put = {}
    BY <1>2, <1>4
  <2> QED
    BY <1>10, <2>1, <2>2, <2>5, <2>6, <2>7, <2>8, <2>9 DEF Recorded
<1>12. Balanced'
  <2>1. /\ RowsOf(rows) /\ pps \in Int /\ PpsOf(rounds) \in Int /\ PpsOfRows(rows) \in Int
        /\ Paid \in SUBSET Blocks /\ Kept \in SUBSET Blocks
        /\ \A y \in Paid : roundsDb[y] \in MiningRound
        /\ \A y \in Kept : roundsDb[y] \in MiningRound
    BY Amounts DEF Kept
  <2>2. PpsOf(rounds') = PpsOf(rounds) + R.pps /\ PpsOfRows(saved'.rounds) = PpsOfRows(rows) + R.pps
    <3>1. PpsOf(rounds') = PpsOf(rounds) + R.pps
      BY <1>1, <1>2, <1>3, PpsOfAppend
    <3>2. Put(row, rows) = Put([k \in {R.block} |-> R], rows) /\ R.block \notin DOMAIN rows
      BY <1>1, <1>5
    <3>3. PpsOfRows(Put([k \in {R.block} |-> R], rows)) = PpsOfRows(rows) + R.pps
      BY <1>1, <2>1, <3>2, PpsOfPut
    <3> QED
      BY <1>6, <3>1, <3>2, <3>3, Zenon
  <2>3. Paid' = Paid /\ Kept' = Kept
    BY <1>2, <1>4, <1>5, <1>9, <1>10 DEF Paid, Kept
  <2>4. /\ Money(earned, pps, roundsDb, Paid, PpsOf(rounds))
        /\ Money(saved.earned, pps, roundsDb, Kept, PpsOfRows(rows))
    BY <1>4 DEF RoundsInv, Balanced
  <2> DEFINE o1 == PpsOf(rounds')
             o2 == PpsOfRows(saved'.rounds)
  <2>5. o1 \in Int /\ o2 \in Int /\ pps + (o1 - PpsOf(rounds)) = pps' /\ pps + (o2 - PpsOfRows(rows)) = pps'
    BY <1>1, <1>2, <2>1, <2>2
  <2> HIDE DEF o1, o2, rows
  <2>6. /\ Money(earned, pps + (o1 - PpsOf(rounds)), roundsDb, Paid, o1)
        /\ Money(saved.earned, pps + (o2 - PpsOfRows(rows)), roundsDb, Kept, o2)
    BY <2>1, <2>4, <2>5, MoneyOpen
  <2>7. Money(earned, pps', roundsDb, Paid, o1) /\ Money(saved.earned, pps', roundsDb, Kept, o2)
    BY <2>5, <2>6
  <2> QED
    BY <1>2, <1>6, <2>3, <2>7 DEF Balanced, Money, o1, o2
<1> QED
  BY <1>7, <1>8, <1>11, <1>12 DEF RoundsInv

\* With the check over, the answers are gone.
LEMMA AlignedAfter ==
    ASSUME NoCheck
    PROVE  Aligned'
  BY DEF NoCheck, Aligned, Range

\* After a crash the rows of accounting.state are the open rounds again, and
\* what has been paid for is what its balances say.
LEMMA StepReload ==
    ASSUME RoundsInv, Reload, saved' = saved, roundsDb' = roundsDb,
           deferred' = deferred, plans' = plans, foundDb' \subseteq Blocks,
           chain' \in [Blocks -> {"none", "pending", "mature", "uncle", "orphan"}],
           \A b \in Blocks : chain'[b] = "none" => chain[b] = "none"
    PROVE  RoundsInv'
<1> DEFINE rows == saved.rounds
<1>1. /\ crashes < MaxCrashes /\ crashes' = crashes + 1
      /\ rounds' = Loaded(rows) /\ earned' = saved.earned /\ pps' = saved.pps
      /\ outcome' = [b \in Blocks |-> IF b \in DOMAIN rows THEN "none" ELSE outcome[b]]
      /\ NoCheck
  BY DEF Reload
<1>2. RowsOf(rows)
  BY Amounts
<1>3. Lists(rounds', rows)
  BY <1>1, <1>2, LoadedLists
<1>4. /\ rounds' \in Seq(MiningRound)
      /\ \A k, l \in DOMAIN rounds' : rounds'[k].block = rounds'[l].block => k = l
      /\ \A k \in DOMAIN rounds' : rounds'[k].block \in DOMAIN rows /\ rounds'[k] = rows[rounds'[k].block]
  BY <1>3 DEF Lists
<1>5. Open' = DOMAIN rows
  BY <1>3 DEF Open, Lists
<1>6. batch' = EmptyBatch /\ batch'.deleted = {} /\ DOMAIN batch'.put = {}
  BY <1>1 DEF NoCheck, EmptyBatch, NoRows
<1>7. Shape'
  <2>1. Len(rounds') \in Nat
    BY <1>4
  <2>2. crashes' \in 0 .. MaxCrashes
    BY <1>1, RoundAssumptions DEF RoundsInv, Shape
  <2>3. outcome' \in [Blocks -> {"none", "orphan", "mature"}]
    BY <1>1 DEF RoundsInv, Shape
  <2>4. pc' = "idle" /\ query' \in Seq(Blocks) /\ i' = 0 /\ it' = 1 /\ batch' = [put |-> batch'.put, deleted |-> batch'.deleted]
    BY <1>1 DEF NoCheck, EmptyBatch
  <2> QED
    BY <1>4, <2>1, <2>2, <2>3, <2>4 DEF RoundsInv, Shape
<1>8. Paid' = Kept /\ Kept' = Kept
  BY <1>1, <1>2 DEF Paid, Kept, RowsOf
<1>9. Recorded'
  <2>1. (\A y \in DOMAIN saved.rounds : Waiting(saved.rounds[y]) /\ saved.rounds[y].block = y)'
    BY DEF RoundsInv, Recorded, Waiting
  <2>2. (\A k \in DOMAIN rounds :
            Waiting(rounds[k]) /\ Put(batch.put, saved.rounds)[rounds[k].block] = rounds[k])'
    <3>1. \A y \in DOMAIN saved'.rounds : Put(batch'.put, saved'.rounds)[y] = saved'.rounds[y]
      BY <1>6 DEF Put
    <3>2. (\A k \in DOMAIN rounds : Waiting(rounds[k]))'
      BY <1>4, <2>1
    <3> QED
      BY <1>4, <3>1, <3>2
  <2>3. \A y \in Blocks : chain'[y] = "none" => outcome'[y] = "none" /\ y \notin DOMAIN saved'.rounds
    BY <1>1 DEF RoundsInv, Recorded
  <2>4. \A y \in Open' : outcome'[y] = "none"
    BY <1>1, <1>2, <1>5 DEF RowsOf
  <2>5. \A y \in Paid' : roundsDb'[y] \in MiningRound /\ SplitExactly(roundsDb'[y])
    BY <1>8 DEF RoundsInv, Recorded, Kept
  <2> QED
    BY <1>4, <1>5, <1>6, <2>1, <2>2, <2>3, <2>4, <2>5 DEF Recorded
<1>10. Balanced'
  <2>1. Money(saved.earned, saved.pps, roundsDb, Kept, PpsOfRows(rows))
    BY DEF RoundsInv, Balanced
  <2>2. PpsOf(rounds') = PpsOfRows(rows)
    BY <1>3, PpsOfLists
  <2> QED
    BY <1>1, <1>8, <2>1, <2>2 DEF Balanced, Money
<1> QED
  BY <1>1, <1>7, <1>9, <1>10, AlignedAfter DEF RoundsInv

LEMMA StepRestart == ASSUME RoundsInv, Restart PROVE RoundsInv'
  BY StepReload DEF Restart, history, config, RoundsInv, Shape

LEMMA StepRestartInFound ==
    ASSUME RoundsInv, NEW b \in Blocks, RestartInOnBlockFound(b)
    PROVE  RoundsInv'
<1>1. /\ Reload /\ saved' = saved /\ roundsDb' = roundsDb /\ deferred' = deferred /\ plans' = plans
      /\ chain' = [chain EXCEPT ![b] = "pending"] /\ foundDb' = foundDb \cup {b}
  BY DEF RestartInOnBlockFound, PutFoundBlock, config
<1>2. /\ chain' \in [Blocks -> {"none", "pending", "mature", "uncle", "orphan"}]
      /\ foundDb' \subseteq Blocks
      /\ \A y \in Blocks : chain'[y] = "none" => chain[y] = "none"
  BY <1>1 DEF RoundsInv, Shape
<1> QED
  BY <1>1, <1>2, StepReload

\* The end of the check writes the open rounds and the balances.
LEMMA StepFinish == ASSUME RoundsInv, FinishCheck PROVE RoundsInv'
<1> DEFINE rows == SavedRounds
<1>1. /\ NoCheck /\ rounds' = rounds /\ earned' = earned /\ pps' = pps
      /\ foundDb' = foundDb /\ roundsDb' = roundsDb /\ deferred' = deferred /\ plans' = plans
      /\ chain' = chain /\ outcome' = outcome /\ crashes' = crashes
      /\ saved' = [rounds |-> rows, earned |-> earned,
                   pps |-> IF batch.deleted = {} THEN saved.pps ELSE pps]
  BY DEF FinishCheck, ledger, history, config
<1>2. saved'.rounds = rows /\ saved'.earned = earned /\ saved'.pps = pps
  BY <1>1 DEF RoundsInv, Balanced
<1>3. /\ DOMAIN saved.rounds = Open \cup batch.deleted /\ Open \cap batch.deleted = {}
      /\ DOMAIN batch.put \subseteq DOMAIN saved.rounds
      /\ \A k, l \in DOMAIN rounds : rounds[k].block = rounds[l].block => k = l
      /\ \A k \in DOMAIN rounds :
            Waiting(rounds[k]) /\ Put(batch.put, saved.rounds)[rounds[k].block] = rounds[k]
  BY DEF RoundsInv, Recorded
<1>4. DOMAIN rows = Open /\ \A y \in Open : rows[y] = Put(batch.put, saved.rounds)[y]
  BY <1>3 DEF SavedRounds, Put
<1>5. \A k \in DOMAIN rounds : rounds[k].block \in DOMAIN rows /\ rows[rounds[k].block] = rounds[k]
  BY <1>3, <1>4 DEF Open
<1>6. Lists(rounds, rows)
  BY <1>3, <1>4, <1>5 DEF Lists, Open, RoundsInv, Shape
<1> HIDE DEF rows
<1>7. batch' = EmptyBatch /\ batch'.deleted = {} /\ DOMAIN batch'.put = {}
  BY <1>1 DEF NoCheck, EmptyBatch, NoRows
<1>8. Shape'
  <2>1. /\ pc' = "idle" /\ query' \in Seq(Blocks) /\ i' = 0 /\ it' = 1 
        /\ batch' = [put |-> batch'.put, deleted |-> batch'.deleted]
        /\ saved' = [rounds |-> saved'.rounds, earned |-> saved'.earned, pps |-> saved'.pps]
    BY <1>1 DEF NoCheck, EmptyBatch
  <2>2. Len(rounds) \in Nat
    BY DEF RoundsInv, Shape
  <2> QED
    BY <1>1, <2>1, <2>2 DEF RoundsInv, Shape
<1>9. Open' = Open /\ Paid' = Paid /\ Kept' = Paid
  BY <1>1, <1>2, <1>4 DEF Open, Paid, Kept, RoundsInv, Recorded
<1>10. Recorded'
  <2>1. (\A y \in DOMAIN saved.rounds : Waiting(saved.rounds[y]) /\ saved.rounds[y].block = y)'
    <3>1. \A y \in Open : \E k \in DOMAIN rounds : rounds[k].block = y
      BY DEF Open
    <3>2. \A y \in DOMAIN rows : Waiting(rows[y]) /\ rows[y].block = y
      BY <1>3, <1>4, <1>5, <3>1
    <3> QED
      BY <1>1, <1>2, <3>2 DEF Waiting
  <2>2. (\A k \in DOMAIN rounds :
            Waiting(rounds[k]) /\ Put(batch.put, saved.rounds)[rounds[k].block] = rounds[k])'
    <3>1. \A y \in DOMAIN saved'.rounds : Put(batch'.put, saved'.rounds)[y] = saved'.rounds[y]
      BY <1>7 DEF Put
    <3>2. (\A k \in DOMAIN rounds : Waiting(rounds[k]))'
      BY <1>1, <1>3 DEF Waiting
    <3> QED
      BY <1>1, <1>2, <1>5, <3>1, <3>2
  <2>3. \A y \in Blocks : chain'[y] = "none" => outcome'[y] = "none" /\ y \notin DOMAIN saved'.rounds
    BY <1>1, <1>2, <1>3, <1>4 DEF RoundsInv, Recorded
  <2>4. \A y \in Open' : outcome'[y] = "none"
    BY <1>1, <1>9 DEF RoundsInv, Recorded
  <2>5. \A y \in Paid' : roundsDb'[y] \in MiningRound /\ SplitExactly(roundsDb'[y])
    BY <1>1, <1>9 DEF RoundsInv, Recorded
  <2> QED
    BY <1>1, <1>2, <1>3, <1>4, <1>7, <1>9, <2>1, <2>2, <2>3, <2>4, <2>5 DEF Recorded
<1>11. Balanced'
  <2>1. Money(earned, pps, roundsDb, Paid, PpsOf(rounds))
    BY DEF RoundsInv, Balanced
  <2>2. PpsOf(rounds) = PpsOfRows(rows)
    BY <1>6, PpsOfLists
  <2> QED
    BY <1>1, <1>2, <1>9, <2>1, <2>2 DEF Balanced, Money
<1> QED
  BY <1>1, <1>8, <1>10, <1>11, AlignedAfter DEF RoundsInv

\* What the loop makes of a round.
LEMMA ProcessedIs ==
    ASSUME RoundsInv, it <= Len(rounds), NEW v \in Verdicts, NEW c \in Coins,
           NEW r, r = rounds[it], NEW R, R = Processed(r, v, c)
    PROVE  /\ r \in MiningRound /\ R \in MiningRound /\ R.block = r.block
           /\ r.pps \in Nat /\ R.pps \in Nat
           /\ v # "mature" => Waiting(R) /\ R.pps = r.pps
           /\ v = "mature" => SplitExactly(R) /\ IF deferred THEN r.pps = 0 ELSE R.pps = r.pps
<1>1. deferred \in BOOLEAN /\ plans \in FeePlans /\ it \in DOMAIN rounds
  BY RoundAssumptions DEF RoundsInv, Shape
<1>2. Waiting(r)
  BY <1>1 DEF RoundsInv, Recorded
<1>3. r \in MiningRound
  BY <1>2 DEF Waiting
<1>4. CASE ~deferred
  <2>1. R = r
    BY <1>4 DEF Processed
  <2> QED
    BY <1>2, <1>3, <1>4, <2>1, RoundIs DEF Waiting
<1>5. CASE deferred
  <2> DEFINE q == [r EXCEPT !.coins = c]
  <2>1. q \in MiningRound /\ q.block = r.block /\ q.pps = r.pps /\ r.pps = 0
    BY <1>2, <1>3, <1>5 DEF Waiting, MiningRound
  <2> HIDE DEF q
  <2>2. R = IF v = "mature" THEN DistributeBlockReward(q) ELSE q
    BY <1>5 DEF Processed, q
  <2> QED
    BY <1>1, <1>3, <1>5, <2>1, <2>2, DistributeSplits, RoundIs DEF Waiting
<1> QED
  BY <1>1, <1>4, <1>5

\* What ProcessRound leaves alone and what it depends on.
LEMMA InLoop ==
    ASSUME RoundsInv, NEW v, NEW c, ProcessRound(v, c)
    PROVE  /\ it \in 1 .. Len(rounds) /\ it <= Len(rounds) /\ it \in Nat /\ i \in Nat /\ pc' = "loop"
           /\ rounds \in Seq(MiningRound) /\ Len(rounds) \in Nat /\ DOMAIN rounds = 1 .. Len(rounds)
           /\ query \in Seq(Blocks) /\ Len(query) \in Nat
           /\ query' = query /\ saved' = saved /\ foundDb' = foundDb /\ deferred' = deferred
           /\ plans' = plans /\ chain' = chain /\ crashes' = crashes
  BY DEF ProcessRound, config, RoundsInv, Shape

LEMMA StepKeep ==
    ASSUME RoundsInv, NEW v \in Verdicts, NEW c \in Coins, ProcessRound(v, c), v = "unconfirmed"
    PROVE  RoundsInv'
<1> DEFINE r == rounds[it]
           R == Processed(r, v, c)
<1>1. /\ it \in 1 .. Len(rounds) /\ it \in Nat /\ i \in Nat /\ pc' = "loop"
      /\ rounds \in Seq(MiningRound) /\ Len(rounds) \in Nat /\ DOMAIN rounds = 1 .. Len(rounds)
      /\ query \in Seq(Blocks) /\ Len(query) \in Nat
      /\ query' = query /\ saved' = saved /\ foundDb' = foundDb /\ deferred' = deferred
      /\ plans' = plans /\ chain' = chain /\ crashes' = crashes
  BY InLoop
<1>2. /\ r \in MiningRound /\ R \in MiningRound /\ R.block = r.block
      /\ r.pps \in Nat /\ R.pps \in Nat /\ R.pps = r.pps /\ Waiting(R)
  BY <1>1, ProcessedIs
<1>3. /\ rounds' = [rounds EXCEPT ![it] = R] /\ it' = it + 1 /\ i' = i + 1
      /\ batch' = IF R = r THEN batch ELSE [batch EXCEPT !.put = Put([b \in {R.block} |-> R], @)]
      /\ earned' = earned /\ pps' = pps /\ roundsDb' = roundsDb /\ outcome' = outcome
  BY DEF ProcessRound, KeepRound
<1> HIDE DEF R, r
<1>4. rounds' \in Seq(MiningRound) /\ PpsOf(rounds') = PpsOf(rounds)
  <2>1. PpsOf([rounds EXCEPT ![it] = R]) = PpsOf(rounds) - r.pps + R.pps
    BY <1>1, <1>2, PpsOfUpdate DEF r
  <2>2. PpsOf(rounds) \in Nat
    BY Amounts
  <2> QED
    BY <1>1, <1>2, <1>3, <2>1, <2>2
<1>5. /\ Len(rounds') = Len(rounds) /\ DOMAIN rounds' = DOMAIN rounds /\ rounds'[it] = R
      /\ \A k \in DOMAIN rounds : rounds'[k].block = rounds[k].block /\ (k # it => rounds'[k] = rounds[k])
  BY <1>1, <1>2, <1>3 DEF r
<1>6. /\ batch'.deleted = batch.deleted /\ batch' = [put |-> batch'.put, deleted |-> batch'.deleted]
      /\ batch'.put = IF R = r THEN batch.put ELSE Put([b \in {R.block} |-> R], batch.put)
  BY <1>3 DEF RoundsInv, Shape
<1>7. Shape'
  BY <1>1, <1>3, <1>4, <1>5, <1>6 DEF RoundsInv, Shape
<1>8. Aligned'
  <2>1. /\ \A j \in i + 1 .. Len(query) :
              it + (j - i) - 1 <= Len(rounds) /\ rounds[it + (j - i) - 1].block = query[j]
        /\ \A k \in DOMAIN rounds : k >= it + (Len(query) - i) /\ k >= it => rounds[k].block \notin Range(query)
    BY DEF RoundsInv, Aligned
  <2>2. \A j \in i + 2 .. Len(query) :
           it + 1 + (j - (i + 1)) - 1 <= Len(rounds') /\ rounds'[it + 1 + (j - (i + 1)) - 1].block = query[j]
    <3> SUFFICES ASSUME NEW j \in i + 2 .. Len(query)
                 PROVE  it + 1 + (j - (i + 1)) - 1 <= Len(rounds') /\ rounds'[it + 1 + (j - (i + 1)) - 1].block = query[j]
      OBVIOUS
    <3> DEFINE k == it + (j - i) - 1
    <3>1. it + 1 + (j - (i + 1)) - 1 = k /\ j \in i + 1 .. Len(query) /\ k \in Int /\ k >= 1
      BY <1>1
    <3>2. k <= Len(rounds) /\ rounds[k].block = query[j]
      BY <2>1, <3>1
    <3> HIDE DEF k
    <3> QED
      BY <1>1, <1>5, <3>1, <3>2
  <2>3. \A k \in DOMAIN rounds' :
           k >= it + 1 + (Len(query) - (i + 1)) /\ k >= it + 1 => rounds'[k].block \notin Range(query)
    BY <1>1, <1>5, <2>1, SMTT(30)
  <2> QED
    BY <1>1, <1>3, <2>2, <2>3 DEF Aligned
<1>9. Open' = Open /\ Paid' = Paid /\ Kept' = Kept
  BY <1>1, <1>3, <1>5 DEF Open, Paid, Kept
<1>10. Recorded'
  <2> DEFINE all == Put(batch.put, saved.rounds)
             new == Put(batch'.put, saved.rounds)
  <2>1. /\ DOMAIN saved.rounds = Open \cup batch.deleted /\ DOMAIN batch.put \subseteq DOMAIN saved.rounds
        /\ \A k, l \in DOMAIN rounds : rounds[k].block = rounds[l].block => k = l
        /\ \A k \in DOMAIN rounds : Waiting(rounds[k]) /\ all[rounds[k].block] = rounds[k]
    BY DEF RoundsInv, Recorded
  <2>2. r.block \in Open /\ it \in DOMAIN rounds
    BY <1>1 DEF Open, r
  <2>3. DOMAIN batch'.put \subseteq DOMAIN saved.rounds
    BY <1>2, <1>6, <2>1, <2>2 DEF Put
  <2>4. \A y \in DOMAIN saved.rounds : new[y] = IF y = R.block THEN R ELSE all[y]
    <3>1. CASE R = r
      BY <1>6, <2>1, <2>2, <3>1 DEF r
    <3>2. CASE R # r
      BY <1>6, <2>1, <3>2 DEF Put
    <3> QED
      BY <3>1, <3>2
  <2>5. \A k \in DOMAIN rounds : rounds[k].block \in DOMAIN saved.rounds
    BY <2>1 DEF Open
  <2> HIDE DEF all, new
  <2>6. ASSUME NEW k \in DOMAIN rounds PROVE Waiting(rounds'[k]) /\ new[rounds'[k].block] = rounds'[k]
    <3>1. CASE k = it
      BY <1>2, <1>5, <2>2, <2>4, <2>5, <3>1 DEF r
    <3>2. CASE k # it
      <4>1. rounds[k].block # R.block
        BY <1>2, <2>1, <2>2, <3>2 DEF r
      <4> QED
        BY <1>5, <2>1, <2>4, <2>5, <3>2, <4>1
    <3> QED
      BY <3>1, <3>2
  <2>7. (\A k \in DOMAIN rounds :
            Waiting(rounds[k]) /\ Put(batch.put, saved.rounds)[rounds[k].block] = rounds[k])'
    BY <1>1, <1>5, <2>6 DEF Waiting, new
  <2>8. (\A k, l \in DOMAIN rounds : rounds[k].block = rounds[l].block => k = l)'
    BY <1>5, <2>1
  <2>9. (\A y \in DOMAIN saved.rounds : Waiting(saved.rounds[y]) /\ saved.rounds[y].block = y)'
    BY <1>1 DEF RoundsInv, Recorded, Waiting
  <2> QED
    BY <1>1, <1>3, <1>6, <1>9, <2>1, <2>3, <2>7, <2>8, <2>9 DEF RoundsInv, Recorded
<1>11. Balanced'
  BY <1>1, <1>3, <1>4, <1>6, <1>9 DEF RoundsInv, Balanced, Money
<1> QED
  BY <1>7, <1>8, <1>10, <1>11 DEF RoundsInv

LEMMA StepClose ==
    ASSUME RoundsInv, NEW v \in Verdicts, NEW c \in Coins, ProcessRound(v, c), v # "unconfirmed"
    PROVE  RoundsInv'
<1> DEFINE r == rounds[it]
           R == Processed(r, v, c)
           b == r.block
           n == it
<1>1. /\ it \in 1 .. Len(rounds) /\ it \in Nat /\ i \in Nat /\ pc' = "loop"
      /\ rounds \in Seq(MiningRound) /\ Len(rounds) \in Nat /\ DOMAIN rounds = 1 .. Len(rounds)
      /\ query \in Seq(Blocks) /\ Len(query) \in Nat
      /\ query' = query /\ saved' = saved /\ foundDb' = foundDb /\ deferred' = deferred
      /\ plans' = plans /\ chain' = chain /\ crashes' = crashes
  BY InLoop
<1>2. /\ r \in MiningRound /\ R \in MiningRound /\ R.block = r.block /\ r.pps \in Nat /\ R.pps \in Nat
      /\ v # "mature" => R.pps = r.pps
      /\ v = "mature" => SplitExactly(R) /\ IF deferred THEN r.pps = 0 ELSE R.pps = r.pps
      /\ b \in Blocks
  BY <1>1, ProcessedIs, RoundIs
<1>3. /\ rounds' = RemoveAt(rounds, it) /\ it' = it /\ i' = i + 1
      /\ earned' = IF v = "orphan" THEN earned ELSE [u \in Users |-> earned[u] + R.payouts[u]]
      /\ pps' = pps + PPSChange(R, v)
      /\ roundsDb' = [roundsDb EXCEPT ![b] = R]
      /\ batch' = [batch EXCEPT !.deleted = @ \cup {b}]
      /\ outcome' = [outcome EXCEPT ![b] = v]
      /\ v \in {"orphan", "mature"}
  BY <1>2 DEF ProcessRound, CloseRound, Verdicts
<1> HIDE DEF R
<1>4. /\ rounds' \in Seq(MiningRound) /\ Len(rounds') = Len(rounds) - 1
      /\ \A k \in 1 .. Len(rounds) - 1 : rounds'[k] = IF k < it THEN rounds[k] ELSE rounds[k + 1]
  BY <1>1, <1>3, Removed
<1>5. DOMAIN rounds' = 1 .. Len(rounds) - 1
  BY <1>1, <1>4
<1>6. /\ batch'.deleted = batch.deleted \cup {b} /\ batch'.put = batch.put
      /\ batch' = [put |-> batch'.put, deleted |-> batch'.deleted]
  BY <1>3 DEF RoundsInv, Shape
<1>7. \A k, l \in DOMAIN rounds : rounds[k].block = rounds[l].block => k = l
  BY DEF RoundsInv, Recorded
<1>8. Open' = Open \ {b} /\ b \in Open
  <2>1. it \in DOMAIN rounds
    BY <1>1
  <2>2. \A k \in DOMAIN rounds' : \E l \in DOMAIN rounds : l # it /\ rounds'[k] = rounds[l]
    <3> SUFFICES ASSUME NEW k \in DOMAIN rounds' PROVE \E l \in DOMAIN rounds : l # it /\ rounds'[k] = rounds[l]
      OBVIOUS
    <3>1. CASE k < it
      BY <1>1, <1>4, <1>5, <3>1
    <3>2. CASE ~(k < it)
      <4>1. k + 1 \in DOMAIN rounds /\ k + 1 # it /\ rounds'[k] = rounds[k + 1]
        BY <1>1, <1>4, <1>5, <3>2
      <4> QED
        BY <4>1
    <3> QED
      BY <3>1, <3>2
  <2>3. \A l \in DOMAIN rounds : l # it => \E k \in DOMAIN rounds' : rounds'[k] = rounds[l]
    <3> SUFFICES ASSUME NEW l \in DOMAIN rounds, l # it PROVE \E k \in DOMAIN rounds' : rounds'[k] = rounds[l]
      OBVIOUS
    <3>1. CASE l < it
      BY <1>1, <1>4, <1>5, <3>1, SMTT(30)
    <3>2. CASE ~(l < it)
      <4>1. l - 1 \in DOMAIN rounds' /\ ~(l - 1 < it) /\ (l - 1) + 1 = l
        BY <1>1, <1>5, <3>2
      <4>2. rounds'[l - 1] = rounds[l]
        BY <1>4, <1>5, <4>1
      <4> QED
        BY <4>1, <4>2
    <3> QED
      BY <3>1, <3>2
  <2> QED
    BY <1>7, <2>1, <2>2, <2>3 DEF Open
<1>9. Shape'
  BY <1>1, <1>2, <1>3, <1>4, <1>6 DEF RoundsInv, Shape
<1>10. Aligned'
  <2>1. /\ \A j \in i + 1 .. Len(query) :
              it + (j - i) - 1 <= Len(rounds) /\ rounds[it + (j - i) - 1].block = query[j]
        /\ \A k \in DOMAIN rounds : k >= it + (Len(query) - i) /\ k >= it => rounds[k].block \notin Range(query)
    BY DEF RoundsInv, Aligned
  <2>2. \A j \in i + 2 .. Len(query) :
           it + (j - (i + 1)) - 1 <= Len(rounds') /\ rounds'[it + (j - (i + 1)) - 1].block = query[j]
    <3> SUFFICES ASSUME NEW j \in i + 2 .. Len(query)
                 PROVE  it + (j - (i + 1)) - 1 <= Len(rounds') /\ rounds'[it + (j - (i + 1)) - 1].block = query[j]
      OBVIOUS
    <3> DEFINE k == it + (j - (i + 1)) - 1
    <3>1. k + 1 = it + (j - i) - 1 /\ j \in i + 1 .. Len(query) /\ k \in Int /\ k >= it
      BY <1>1
    <3>2. k + 1 <= Len(rounds) /\ rounds[k + 1].block = query[j]
      BY <2>1, <3>1
    <3> HIDE DEF k
    <3>3. k \in 1 .. Len(rounds) - 1 /\ k <= Len(rounds')
      BY <1>1, <1>4, <3>1, <3>2
    <3>4. rounds'[k] = rounds[k + 1]
      BY <1>1, <1>4, <3>1, <3>3
    <3> QED
      BY <3>2, <3>3, <3>4 DEF k
  <2>3. ASSUME NEW k \in DOMAIN rounds', k >= it + (Len(query) - (i + 1)), k >= it
        PROVE  rounds'[k].block \notin Range(query)
    <3>1. k + 1 \in DOMAIN rounds /\ k + 1 >= it + (Len(query) - i) /\ k + 1 >= it /\ rounds'[k] = rounds[k + 1]
      BY <1>1, <1>4, <1>5, <2>3
    <3> QED
      BY <2>1, <3>1
  <2>4. /\ \A j \in i' + 1 .. Len(query') :
              it' + (j - i') - 1 <= Len(rounds') /\ rounds'[it' + (j - i') - 1].block = query'[j]
        /\ \A k \in DOMAIN rounds' :
              k >= it' + (Len(query') - i') /\ k >= it' => rounds'[k].block \notin Range(query')
    <3>1. i' + 1 = i + 2
      BY <1>1, <1>3
    <3> QED
      BY <1>1, <1>3, <2>2, <2>3, <3>1
  <2> QED
    BY <1>1, <2>4 DEF Aligned
<1>11. b \in DOMAIN saved.rounds /\ outcome[b] = "none" /\ b \notin Paid /\ b \notin Kept /\ chain[b] # "none"
  BY <1>2, <1>8 DEF RoundsInv, Recorded, Paid, Kept
<1>12. Paid' = (IF v = "mature" THEN Paid \cup {b} ELSE Paid) /\ Kept' = Kept
  BY <1>1, <1>2, <1>3, <1>11 DEF Paid, Kept, RoundsInv, Shape
<1>13. roundsDb'[b] = R /\ \A y \in Blocks : y # b => roundsDb'[y] = roundsDb[y] /\ outcome'[y] = outcome[y]
  BY <1>2, <1>3 DEF RoundsInv, Shape
<1>14. Recorded'
  <2>1. /\ DOMAIN saved.rounds = Open \cup batch.deleted /\ Open \cap batch.deleted = {}
        /\ DOMAIN batch.put \subseteq DOMAIN saved.rounds /\ batch.deleted \subseteq Blocks
        /\ \A k \in DOMAIN rounds :
              Waiting(rounds[k]) /\ Put(batch.put, saved.rounds)[rounds[k].block] = rounds[k]
    BY DEF RoundsInv, Recorded
  <2>2. (\A k, l \in DOMAIN rounds : rounds[k].block = rounds[l].block => k = l)'
    <3> SUFFICES ASSUME NEW k \in DOMAIN rounds', NEW l \in DOMAIN rounds', rounds'[k].block = rounds'[l].block
                 PROVE  k = l
      OBVIOUS
    <3> DEFINE x == IF k < it THEN k ELSE k + 1
               z == IF l < it THEN l ELSE l + 1
    <3>1. x \in DOMAIN rounds /\ z \in DOMAIN rounds /\ rounds'[k] = rounds[x] /\ rounds'[l] = rounds[z]
      BY <1>1, <1>4, <1>5
    <3>2. x = z
      BY <1>7, <3>1
    <3> QED
      BY <1>1, <1>5, <3>2
  <2>3. (\A k \in DOMAIN rounds :
            Waiting(rounds[k]) /\ Put(batch.put, saved.rounds)[rounds[k].block] = rounds[k])'
    <3> SUFFICES ASSUME NEW k \in DOMAIN rounds'
                 PROVE  Waiting(rounds'[k]) /\ Put(batch.put, saved.rounds)[rounds'[k].block] = rounds'[k]
      BY <1>1, <1>6 DEF Waiting
    <3> DEFINE x == IF k < it THEN k ELSE k + 1
    <3>1. x \in DOMAIN rounds /\ rounds'[k] = rounds[x]
      BY <1>1, <1>4, <1>5
    <3> QED
      BY <2>1, <3>1
  <2>4. (\A y \in DOMAIN saved.rounds : Waiting(saved.rounds[y]) /\ saved.rounds[y].block = y)'
    BY <1>1 DEF RoundsInv, Recorded, Waiting
  <2>5. (\A y \in Blocks : chain[y] = "none" => outcome[y] = "none" /\ y \notin DOMAIN saved.rounds)'
    BY <1>1, <1>11, <1>13 DEF RoundsInv, Recorded
  <2>6. \A y \in Open : y \in Blocks
    BY <1>1, RoundIs DEF Open
  <2>7. \A y \in Open' : outcome'[y] = "none"
    BY <1>8, <1>13, <2>6 DEF RoundsInv, Recorded
  <2>8. \A y \in Paid' : roundsDb'[y] \in MiningRound /\ SplitExactly(roundsDb'[y])
    BY <1>2, <1>11, <1>12, <1>13 DEF RoundsInv, Recorded, Paid
  <2>9. /\ DOMAIN saved'.rounds = Open' \cup batch'.deleted /\ Open' \cap batch'.deleted = {}
        /\ DOMAIN batch'.put \subseteq DOMAIN saved'.rounds /\ batch'.deleted \subseteq Blocks
    BY <1>1, <1>2, <1>6, <1>8, <2>1
  <2> QED
    BY <2>2, <2>3, <2>4, <2>5, <2>7, <2>8, <2>9 DEF Recorded
<1>15. Balanced'
  <2> DEFINE o1 == PpsOf(rounds)
             o2 == PpsOf(rounds')
             db2 == roundsDb'
  <2>1. /\ pps \in Int /\ o1 \in Int /\ o2 \in Int
        /\ Paid \in SUBSET Blocks /\ Kept \in SUBSET Blocks
        /\ \A y \in Paid : roundsDb[y] \in MiningRound
    BY <1>4, Amounts, PpsOfIsNat
  <2>2. o1 = o2 + r.pps
    BY <1>1, <1>3, PpsOfRemove
  <2>3. /\ Money(earned, pps, roundsDb, Paid, o1)
        /\ Money(saved.earned, saved.pps, roundsDb, Kept, PpsOfRows(saved.rounds))
    BY DEF RoundsInv, Balanced
  <2>4. (\A y \in Paid : db2[y] = roundsDb[y]) /\ (\A y \in Kept : db2[y] = roundsDb[y]) /\ db2[b] = R
    BY <1>11, <1>13, <2>1
  <2> HIDE DEF o1, o2, db2, b, r
  <2>5. Money(saved.earned, saved.pps, db2, Kept, PpsOfRows(saved.rounds))
    BY <2>1, <2>3, <2>4, MoneySame
  <2>6. Money(earned', pps', db2, Paid', o2)
    <3>1. CASE v = "orphan"
      <4>1. Money(earned, pps, db2, Paid, o1)
        BY <2>1, <2>3, <2>4, MoneySame
      <4>2. \A y \in Paid : db2[y] \in MiningRound
        BY <2>1, <2>4
      <4>3. Money(earned, pps + (o2 - o1), db2, Paid, o2)
        BY <2>1, <4>1, <4>2, MoneyOpen
      <4>4. pps' = pps + (o2 - o1)
        BY <1>2, <1>3, <2>1, <2>2, <3>1 DEF PPSChange
      <4>5. earned' = earned /\ Paid' = Paid
        BY <1>3, <1>12, <3>1
      <4> QED
        BY <4>3, <4>4, <4>5
    <3>2. CASE v = "mature"
      <4>1. \A y \in Paid : db2[y] = roundsDb[y] /\ roundsDb[y] \in MiningRound
        BY <2>1, <2>4
      <4>2. b \notin Paid /\ db2[b] \in MiningRound
        BY <1>2, <1>11, <2>4
      <4>3. deferred \in BOOLEAN
        BY RoundAssumptions DEF RoundsInv, Shape
      <4>4. pps' = pps + R.pps + (o2 - o1)
        <5>1. CASE deferred
          <6>1. PPSChange(R, v) = R.pps /\ r.pps = 0
            BY <1>2, <3>2, <5>1 DEF PPSChange
          <6> QED
            BY <1>2, <1>3, <2>1, <2>2, <6>1
        <5>2. CASE ~deferred
          <6>1. PPSChange(R, v) = 0 /\ r.pps = R.pps
            BY <1>2, <3>2, <5>2 DEF PPSChange
          <6> QED
            BY <1>2, <1>3, <2>1, <2>2, <6>1
        <5> QED
          BY <4>3, <5>1, <5>2
      <4>5. earned' = [u \in Users |-> earned[u] + db2[b].payouts[u]] /\ Paid' = Paid \cup {b}
        BY <1>3, <1>12, <2>4, <3>2
      <4>6. pps' = pps + db2[b].pps + (o2 - o1)
        BY <2>4, <4>4
      <4> DEFINE e1 == earned
                 e2 == earned'
                 p1 == pps
                 p2 == pps'
                 P == Paid
                 T == Paid'
                 db == roundsDb
                 y == b
      <4>7. /\ p1 \in Int /\ o1 \in Int /\ o2 \in Int /\ P \in SUBSET Blocks /\ Money(e1, p1, db, P, o1)
            /\ \A x \in P : db2[x] = db[x] /\ db[x] \in MiningRound
            /\ y \notin P /\ db2[y] \in MiningRound
            /\ p2 = p1 + db2[y].pps + (o2 - o1)
            /\ \A x : x \in T <=> x \in P \/ x = y
        BY <2>1, <2>3, <4>1, <4>2, <4>5, <4>6
      <4>9. e2 \in [Users -> Nat] /\ \A u \in Users : e2[u] = e1[u] + db2[y].payouts[u]
        <5>1. e1 \in [Users -> Nat] /\ db2[y].payouts \in [Users -> Nat]
          BY <4>7, RoundIs DEF Money
        <5> QED
          BY <4>5, <5>1
      <4> HIDE DEF e1, e2, p1, p2, P, T, db, y
      <4>8. Money(e2, p2, db2, T, o2)
        <5> DEFINE Q == db2[y]
        <5>adds. T = P \cup {y}
          BY <4>7
        <5>1. IsFiniteSet(P)
          BY <4>7, RoundAssumptions, FS_Subset
        <5>0. y \in T /\ T \ {y} = P /\ IsFiniteSet(T)
          <6>1. y \in T /\ T \ {y} = P
            BY <4>7, <5>adds
          <6>2. IsFiniteSet(T)
            BY <5>adds, <5>1, FS_AddElement
          <6> QED
            BY <6>1, <6>2
        <5>2. Q.pps \in Nat /\ \A u \in Users : Q.payouts[u] \in Nat
          BY <4>7, RoundIs
        <5>3. \A x \in P : db[x].pps \in Nat /\ \A u \in Users : db[x].payouts[u] \in Nat
          BY <4>7, RoundIs
        <5>4. ASSUME NEW u \in Users
              PROVE  Total([x \in T |-> db2[x].payouts[u]], T)
                       = Total([x \in P |-> db[x].payouts[u]], P) + Q.payouts[u]
          <6> DEFINE f == [x \in P |-> db[x].payouts[u]]
                     g == [x \in T |-> db2[x].payouts[u]]
          <6>1. (\A x \in P : f[x] \in Int /\ f[x] = g[x]) /\ g[y] \in Int /\ g[y] = Q.payouts[u]
            BY <4>7, <5>adds, <5>2, <5>3
          <6>2. \A x \in T : g[x] \in Int
            BY <4>7, <6>1
          <6> HIDE DEF f, g, Q
          <6>3. Total(g, T) = g[y] + Total(g, P)
            <7>1. Total(g, T) = g[y] + Total(g, T \ {y})
              BY <5>0, <6>2, SumRemove
            <7> QED
              BY <5>0, <7>1, Zenon
          <6>4. Total(f, P) = Total(g, P) /\ Total(f, P) \in Int
            BY <5>1, <6>1, SumEqual, SumInt
          <6>5. Total(g, T) = Total(f, P) + g[y]
            BY <5>0, <6>1, <6>3, <6>4
          <6> QED
            BY <6>1, <6>4, <6>5 DEF f, g
        <5>5. /\ Total([x \in T |-> db2[x].pps], T) = Total([x \in P |-> db[x].pps], P) + Q.pps
              /\ Total([x \in P |-> db[x].pps], P) \in Int
          <6> DEFINE f == [x \in P |-> db[x].pps]
                     g == [x \in T |-> db2[x].pps]
          <6>1. (\A x \in P : f[x] \in Int /\ f[x] = g[x]) /\ g[y] \in Int /\ g[y] = Q.pps
            BY <4>7, <5>adds, <5>2, <5>3
          <6>2. \A x \in T : g[x] \in Int
            BY <4>7, <6>1
          <6> HIDE DEF f, g, Q
          <6>3. Total(g, T) = g[y] + Total(g, P)
            <7>1. Total(g, T) = g[y] + Total(g, T \ {y})
              BY <5>0, <6>2, SumRemove
            <7> QED
              BY <5>0, <7>1, Zenon
          <6>4. Total(f, P) = Total(g, P) /\ Total(f, P) \in Int
            BY <5>1, <6>1, SumEqual, SumInt
          <6>5. Total(g, T) = Total(f, P) + g[y]
            BY <5>0, <6>1, <6>3, <6>4
          <6> QED
            BY <6>1, <6>4, <6>5 DEF f, g
        <5> HIDE DEF Q
        <5>6. /\ e1 \in [Users -> Nat] /\ p1 = Total([x \in P |-> db[x].pps], P) + o1
              /\ \A u \in Users : e1[u] = Total([x \in P |-> db[x].payouts[u]], P)
          BY <4>7 DEF Money
        <5>7. \A u \in Users : e2[u] = Total([x \in T |-> db2[x].payouts[u]], T)
          BY <4>9, <5>4, <5>6 DEF Q
        <5>8. p2 = Total([x \in T |-> db2[x].pps], T) + o2
          BY <4>7, <5>2, <5>5, <5>6 DEF Q
        <5> QED
          BY <4>9, <5>7, <5>8 DEF Money
      <4> QED
        BY <4>8 DEF e2, p2, T
    <3> QED
      BY <1>3, <3>1, <3>2
  <2>7. batch'.deleted # {}
    BY <1>6
  <2> QED
    BY <1>1, <1>12, <2>5, <2>6, <2>7 DEF Balanced, o2, db2, Money
<1> QED
  BY <1>9, <1>10, <1>14, <1>15 DEF RoundsInv

LEMMA RoundsStep == RoundsInv /\ [Next]_vars => RoundsInv'
<1> SUFFICES ASSUME RoundsInv, [Next]_vars PROVE RoundsInv'
  OBVIOUS
<1>1. ASSUME NEW v \in Verdicts, NEW c \in Coins, ProcessRound(v, c) PROVE RoundsInv'
  BY <1>1, StepKeep, StepClose
<1>2. CASE CheckStep
  BY <1>1, <1>2, StepStartCheck, StepCheckFailed, StepFinish DEF CheckStep
<1>3. CASE UNCHANGED vars
  <2> USE <1>3 DEF vars, ledger, check, history, config
  <2>1. Shape'
    BY DEF RoundsInv, Shape
  <2>2. Aligned'
    BY DEF RoundsInv, Aligned
  <2>3. Recorded'
    BY DEF RoundsInv, Recorded, Open, Paid, Waiting
  <2>4. Balanced'
    BY DEF RoundsInv, Balanced, Kept, Paid
  <2> QED
    BY <2>1, <2>2, <2>3, <2>4 DEF RoundsInv
<1> QED
  BY <1>2, <1>3, StepFound, StepPlans, StepChain, StepRestart, StepRestartInFound DEF Next

----------------------------------------------------------------------------
(* Theorems.                                                               *)

\* Every behaviour keeps the answers aligned with the rounds, the rows with the
\* open rounds, and the money with the paid and the open rounds.
THEOREM RoundsInvHolds == Spec => []RoundsInv
  BY RoundsInit, RoundsStep, PTL DEF Spec

\* The rounds, the running check and the databases are well formed, no balance
\* is below zero, and the loop's index never runs ahead of the list
\* (checkBlockConfirmations).
THEOREM TypeCorrect == Spec => []TypeOK
<1>1. RoundsInv => TypeOK
  <2> SUFFICES ASSUME RoundsInv PROVE TypeOK
    OBVIOUS
  <2>1. pps \in Nat /\ saved.pps \in Nat /\ RowsOf(saved.rounds)
    BY Amounts
  <2>2. earned \in [Users -> Nat] /\ saved.earned \in [Users -> Nat]
    BY DEF RoundsInv, Balanced, Money
  <2>3. \A r \in MiningRound : IsRound(r)
    BY RoundIs DEF IsRound
  <2>4. \A k \in DOMAIN rounds : IsRound(rounds[k])
    BY <2>3 DEF RoundsInv, Shape
  <2>5. \A b \in DOMAIN saved.rounds : IsRound(saved.rounds[b]) /\ saved.rounds[b].block = b
    BY <2>1, <2>3 DEF RowsOf
  <2>6. \A b \in Blocks : roundsDb[b] # NoRound => IsRound(roundsDb[b])
    BY <2>3 DEF RoundsInv, Shape
  <2>7. DOMAIN batch.put \subseteq Blocks /\ batch.deleted \subseteq Blocks
    BY <2>1 DEF RoundsInv, Recorded, RowsOf
  <2> QED
    BY <2>1, <2>2, <2>4, <2>5, <2>6, <2>7 DEF RoundsInv, Shape, TypeOK
<1> QED
  BY <1>1, RoundsInvHolds, PTL

\* Every coin given away is accounted for by a round, once, through crashes in
\* the middle of the check as well: the users have what the paid rounds of
\* RoundsDb_ say, and the PPS account its part of the paid and open rounds.
THEOREM CoinsConservedHolds == Spec => []CoinsConserved
<1>1. RoundsInv => CoinsConserved
  BY DEF RoundsInv, Balanced, Money, PpsOf, CoinsConserved
<1> QED
  BY <1>1, RoundsInvHolds, PTL

\* The payouts of every paid round and its PPS part add up to the reward of its
\* block (distributeBlockReward), for any work, fee plans and reward.
THEOREM RewardIsSplitExactlyHolds == Spec => []RewardIsSplitExactly
<1>1. RoundsInv => RewardIsSplitExactly
  BY DEF RoundsInv, Recorded, RewardIsSplitExactly
<1> QED
  BY <1>1, RoundsInvHolds, PTL

\* A round the check asked about is settled by the answer for its own block,
\* whatever rounds were opened during the query or erased by the loop.
THEOREM SettledByChainHolds == Spec => SettledByChain
<1> DEFINE Settled ==
             \A b \in Blocks :
                outcome'[b] # outcome[b] /\ crashes' = crashes /\ b \in Range(query) =>
                    /\ outcome'[b] = "mature" => chain[b] \in {"mature", "uncle"}
                    /\ outcome'[b] = "orphan" /\ deferred => chain[b] \in {"orphan", "uncle"}
<1>1. RoundsInv /\ [Next]_vars => [Settled]_vars
  <2> SUFFICES ASSUME RoundsInv, Next, crashes' = crashes, NEW y \in Blocks,
                      outcome'[y] # outcome[y], y \in Range(query)
               PROVE  /\ outcome'[y] = "mature" => chain[y] \in {"mature", "uncle"}
                      /\ outcome'[y] = "orphan" /\ deferred => chain[y] \in {"orphan", "uncle"}
    OBVIOUS
  <2>1. ~Reload
    BY DEF RoundsInv, Shape, Reload
  <2>2. ~UNCHANGED outcome
    OBVIOUS
  <2>3. PICK v \in Verdicts, c \in Coins : ProcessRound(v, c)
    <3>1. ~StartCheck /\ ~CheckFailed /\ ~FinishCheck
      BY <2>2 DEF StartCheck, CheckFailed, FinishCheck
    <3>2. /\ \A b \in Blocks, c \in Coins, w \in Work : ~OnBlockFound(b, c, w)
          /\ \A p \in FeePlans : ~OnFeePlanUpdate(p)
          /\ \A b \in Blocks : ~ChainDecides(b)
      BY <2>2 DEF OnBlockFound, OnFeePlanUpdate, ChainDecides
    <3>3. ~Restart /\ \A b \in Blocks : ~RestartInOnBlockFound(b)
      BY <2>1 DEF Restart, RestartInOnBlockFound
    <3> QED
      BY <3>1, <3>2, <3>3 DEF Next, CheckStep
  <2> DEFINE r == rounds[it]
  <2>4. /\ it \in 1 .. Len(rounds) /\ it <= Len(rounds) /\ it \in Nat /\ i \in Nat
        /\ DOMAIN rounds = 1 .. Len(rounds) /\ Len(query) \in Nat
    BY <2>3, InLoop
  <2>5. /\ v # "unconfirmed" /\ outcome' = [outcome EXCEPT ![r.block] = v]
        /\ <<v, c>> \in Answers(r)
    <3>1. Processed(r, v, c).block = r.block
      BY <2>4, ProcessedIs
    <3>2. v # "unconfirmed" /\ CloseRound(Processed(r, v, c), v) /\ <<v, c>> \in Answers(r)
      BY <2>2, <2>3 DEF ProcessRound, KeepRound
    <3> QED
      BY <3>1, <3>2 DEF CloseRound
  <2>6. y = r.block /\ outcome'[y] = v
    BY <2>5 DEF RoundsInv, Shape
  <2>7. i < Len(query) /\ query[i + 1] = y
    <3>1. /\ \A j \in i + 1 .. Len(query) :
                it + (j - i) - 1 <= Len(rounds) /\ rounds[it + (j - i) - 1].block = query[j]
          /\ \A k \in DOMAIN rounds : k >= it + (Len(query) - i) /\ k >= it => rounds[k].block \notin Range(query)
      BY DEF RoundsInv, Aligned
    <3>2. ~(it >= it + (Len(query) - i))
      <4>1. it \in DOMAIN rounds /\ it >= it
        BY <2>4
      <4>2. rounds[it].block \in Range(query)
        BY <2>6
      <4> QED
        BY <3>1, <4>1, <4>2
    <3>3. i < Len(query) /\ i + 1 \in i + 1 .. Len(query) /\ it + ((i + 1) - i) - 1 = it
      BY <2>4, <3>2
    <3>4. rounds[it + ((i + 1) - i) - 1].block = query[i + 1]
      BY <3>1, <3>3
    <3> QED
      BY <2>6, <3>3, <3>4
  <2>8. v \in NodeVerdicts(y)
    BY <2>5, <2>7 DEF Answers
  <2>9. chain[y] \in {"pending", "mature", "uncle", "orphan"}
    <3>1. y \in DOMAIN saved.rounds
      BY <2>4, <2>6 DEF RoundsInv, Recorded, Open
    <3> QED
      BY <3>1 DEF RoundsInv, Recorded, Shape
  <2> QED
    BY <2>5, <2>6, <2>8, <2>9 DEF NodeVerdicts
<1>2. Spec => [][Settled]_vars
  BY <1>1, RoundsInvHolds, PTL DEF Spec
<1> QED
  BY <1>2 DEF SettledByChain
=============================================================================
