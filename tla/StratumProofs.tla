---------------------------- MODULE StratumProofs ----------------------------
(***************************************************************************)
(* Proofs about Stratum.  Works first: what a push and a deletion do to a  *)
(* storage, then the operations of the code that are made of them.         *)
(***************************************************************************)
EXTENDS Stratum, FiniteSetLemmas, SequenceTheorems

Fields == {"inst", "primary", "secondary", "merged", "work", "byId", "current", "known",
           "accepted", "pending", "lastId"}
Singles == {"primary", "secondary"}
Seqs == Singles \cup {"merged"}

\* A storage is a record whose sequences hold ids.
Shape(s) ==
    /\ DOMAIN s = Fields /\ s.inst \in Instances /\ s.lastId \in Nat
    /\ s.primary \in [Coins -> Seq(Nat)] /\ s.secondary \in [Coins -> Seq(Nat)]
    /\ s.merged \in [Coins -> Seq(Nat)]
    /\ DOMAIN s.known = Coins /\ DOMAIN s.accepted = Coins /\ DOMAIN s.pending = Coins

\* The storage e has what s has, but for the first n works of a sequence.
Erased(s, e, q, c, n) ==
    LET ids == {s[q][c][i] : i \in 1 .. n}
    IN  /\ e.inst = s.inst /\ e.lastId = s.lastId
        /\ e.known = s.known /\ e.accepted = s.accepted /\ e.pending = s.pending
        /\ \A r \in Seqs, d \in Coins : r # q \/ d # c => e[r][d] = s[r][d]
        /\ Len(e[q][c]) = Len(s[q][c]) - n
        /\ \A i \in 1 .. Len(s[q][c]) - n : e[q][c][i] = s[q][c][i + n]
        /\ e.byId = s.byId \ ids /\ DOMAIN e.work = DOMAIN s.work \ ids
        /\ \A id \in DOMAIN s.work \ ids : e.work[id] = Unlink(s.work[id], ids)
        /\ e.current = IF s.current \in ids THEN NoWork ELSE s.current

\* The storage e has what s has, and a new work w in a sequence.
Pushed(s, e, q, c, w) ==
    LET id == s.lastId + 1
    IN  /\ e.inst = s.inst /\ e.lastId = id
        /\ e.known = s.known /\ e.accepted = s.accepted /\ e.pending = s.pending
        /\ \A r \in Seqs, d \in Coins : r # q \/ d # c => e[r][d] = s[r][d]
        /\ e[q][c] = Append(s[q][c], id)
        /\ e.byId = s.byId \cup {id} /\ DOMAIN e.work = DOMAIN s.work \cup {id}
        /\ e.work[id] = w /\ \A i \in DOMAIN s.work \ {id} : e.work[i] = s.work[i]
        /\ e.current = s.current

LEMMA FirstWorks ==
    ASSUME NEW x \in Seq(Nat), NEW n \in 0 .. Len(x)
    PROVE  /\ Range(SubSeq(x, 1, n)) = {x[i] : i \in 1 .. n}
           /\ SubSeq(x, n + 1, Len(x)) \in Seq(Nat)
           /\ Len(SubSeq(x, n + 1, Len(x))) = Len(x) - n
           /\ \A i \in 1 .. Len(x) - n : SubSeq(x, n + 1, Len(x))[i] = x[i + n]
<1>1. Len(x) \in Nat /\ n \in Nat /\ DOMAIN x = 1 .. Len(x)
  OBVIOUS
<1>2. DOMAIN SubSeq(x, 1, n) = 1 .. n /\ \A i \in 1 .. n : SubSeq(x, 1, n)[i] = x[i]
  BY <1>1
<1>3. Range(SubSeq(x, 1, n)) = {x[i] : i \in 1 .. n}
  BY <1>2 DEF Range
<1>4. /\ SubSeq(x, n + 1, Len(x)) \in Seq(Nat)
      /\ Len(SubSeq(x, n + 1, Len(x))) = Len(x) - n
      /\ \A i \in 1 .. Len(x) - n : SubSeq(x, n + 1, Len(x))[i] = x[i + n]
  <2>1. n + 1 \in Int /\ Len(x) \in Int /\ \A i \in n + 1 .. Len(x) : x[i] \in Nat
    BY <1>1
  <2>2. /\ SubSeq(x, n + 1, Len(x)) \in Seq(Nat)
        /\ Len(SubSeq(x, n + 1, Len(x))) = IF n + 1 <= Len(x) THEN Len(x) - (n + 1) + 1 ELSE 0
        /\ \A i \in 1 .. Len(x) - (n + 1) + 1 : SubSeq(x, n + 1, Len(x))[i] = x[n + 1 + i - 1]
    BY <2>1, SubSeqProperties
  <2>3. Len(x) - (n + 1) + 1 = Len(x) - n /\ \A i \in 1 .. Len(x) - n : n + 1 + i - 1 = i + n
    BY <1>1
  <2>4. (IF n + 1 <= Len(x) THEN Len(x) - (n + 1) + 1 ELSE 0) = Len(x) - n
    <3> DEFINE l == Len(x)
    <3>1. l \in Nat /\ n \in 0 .. l
      BY <1>1
    <3> HIDE DEF l
    <3>2. CASE n + 1 <= l
      BY <3>1, <3>2
    <3>3. CASE ~(n + 1 <= l)
      BY <3>1, <3>3
    <3> QED
      BY <3>2, <3>3 DEF l
  <2> QED
    BY <2>2, <2>3, <2>4
<1> QED
  BY <1>3, <1>4

\* One sequence is exchanged.
Exchanged(s, e, q, c, x) ==
    /\ \A r \in Seqs, d \in Coins : r # q \/ d # c => e[r][d] = s[r][d]
    /\ e[q][c] = x
    /\ \A r \in Seqs : e[r] \in [Coins -> Seq(Nat)]

LEMMA OtherSequences ==
    ASSUME NEW s, NEW e, \A r \in Seqs : s[r] \in [Coins -> Seq(Nat)],
           NEW q \in Seqs, NEW c \in Coins, NEW x \in Seq(Nat),
           \A r \in Seqs : r # q => e[r] = s[r], e[q] = [s[q] EXCEPT ![c] = x]
    PROVE  Exchanged(s, e, q, c, x)
<1>1. e[q][c] = x /\ \A d \in Coins : d # c => e[q][d] = s[q][d]
  OBVIOUS
<1>2. e[q] \in [Coins -> Seq(Nat)]
  OBVIOUS
<1> QED
  BY <1>1, <1>2 DEF Exchanged

LEMMA EraseErased ==
    ASSUME NEW s, Shape(s), NEW q \in Seqs, NEW c \in Coins, NEW n \in 0 .. Len(s[q][c])
    PROVE  Shape(Erase(s, q, c, n)) /\ Erased(s, Erase(s, q, c, n), q, c, n)
<1> DEFINE ids == Range(SubSeq(s[q][c], 1, n))
           e == Erase(s, q, c, n)
<1>1. s[q] \in [Coins -> Seq(Nat)] /\ s[q][c] \in Seq(Nat)
  BY DEF Shape, Seqs, Singles
<1>2. /\ ids = {s[q][c][i] : i \in 1 .. n}
      /\ SubSeq(s[q][c], n + 1, Len(s[q][c])) \in Seq(Nat)
      /\ Len(SubSeq(s[q][c], n + 1, Len(s[q][c]))) = Len(s[q][c]) - n
      /\ \A i \in 1 .. Len(s[q][c]) - n : SubSeq(s[q][c], n + 1, Len(s[q][c]))[i] = s[q][c][i + n]
  BY <1>1, FirstWorks
<1>3. /\ DOMAIN e = Fields /\ e.inst = s.inst /\ e.lastId = s.lastId
      /\ e.known = s.known /\ e.accepted = s.accepted /\ e.pending = s.pending
  BY DEF Erase, Shape, Fields, Seqs, Singles
<1>4. /\ e.byId = s.byId \ ids /\ e.work = [id \in DOMAIN s.work \ ids |-> Unlink(s.work[id], ids)]
      /\ e.current = IF s.current \in ids THEN NoWork ELSE s.current
  BY DEF Erase, Shape, Fields, Seqs, Singles
<1>5. /\ \A r \in Seqs : r # q => e[r] = s[r]
      /\ e[q] = [s[q] EXCEPT ![c] = SubSeq(s[q][c], n + 1, Len(s[q][c]))]
  BY DEF Erase, Shape, Fields, Seqs, Singles
<1> HIDE DEF e, ids
<1>6. /\ \A r \in Seqs, d \in Coins : r # q \/ d # c => e[r][d] = s[r][d]
      /\ e[q][c] = SubSeq(s[q][c], n + 1, Len(s[q][c]))
      /\ \A r \in Seqs : e[r] \in [Coins -> Seq(Nat)]
  <2>1. \A r \in Seqs : s[r] \in [Coins -> Seq(Nat)]
    BY DEF Shape, Seqs, Singles
  <2> QED
    <3> DEFINE x == SubSeq(s[q][c], n + 1, Len(s[q][c]))
    <3>1. x \in Seq(Nat) /\ e[q] = [s[q] EXCEPT ![c] = x]
      BY <1>2, <1>5
    <3>2. \A r \in Seqs : r # q => e[r] = s[r]
      BY <1>5
    <3> HIDE DEF x
    <3>3. Exchanged(s, e, q, c, x)
      BY <2>1, <3>1, <3>2, OtherSequences
    <3> QED
      BY <3>3 DEF x, Exchanged
<1>7. Shape(e)
  BY <1>3, <1>6 DEF Shape, Seqs, Singles
<1>8. Erased(s, e, q, c, n)
  BY <1>2, <1>3, <1>4, <1>6 DEF Erased
<1> QED
  BY <1>7, <1>8 DEF e

LEMMA PushPushed ==
    ASSUME NEW s, Shape(s), NEW q \in Seqs, NEW c \in Coins, NEW w
    PROVE  Shape(Push(s, q, c, w)) /\ Pushed(s, Push(s, q, c, w), q, c, w)
<1> DEFINE id == s.lastId + 1
           e == Push(s, q, c, w)
<1>1. \A r \in Seqs : s[r] \in [Coins -> Seq(Nat)]
  BY DEF Shape, Seqs, Singles
<1>2. id \in Nat
  BY DEF Shape
<1>3. /\ DOMAIN e = Fields /\ e.inst = s.inst /\ e.lastId = id
      /\ e.known = s.known /\ e.accepted = s.accepted /\ e.pending = s.pending
  BY DEF Push, Shape, Fields, Seqs, Singles
<1>4. /\ e.byId = s.byId \cup {id} /\ e.work = With(s.work, id, w)
      /\ e.current = s.current
  BY DEF Push, Shape, Fields, Seqs, Singles
<1>5. /\ \A r \in Seqs : r # q => e[r] = s[r]
      /\ e[q] = [s[q] EXCEPT ![c] = Append(s[q][c], id)]
  BY DEF Push, Shape, Fields, Seqs, Singles
<1> HIDE DEF e, id
<1>6. /\ \A r \in Seqs, d \in Coins : r # q \/ d # c => e[r][d] = s[r][d]
      /\ e[q][c] = Append(s[q][c], id)
      /\ \A r \in Seqs : e[r] \in [Coins -> Seq(Nat)]
  <2>1. Append(s[q][c], id) \in Seq(Nat)
    BY <1>1, <1>2
  <2> QED
    <3> DEFINE x == Append(s[q][c], id)
    <3>1. x \in Seq(Nat) /\ e[q] = [s[q] EXCEPT ![c] = x]
      BY <1>5, <2>1
    <3>2. \A r \in Seqs : r # q => e[r] = s[r]
      BY <1>5
    <3> HIDE DEF x
    <3>3. Exchanged(s, e, q, c, x)
      BY <1>1, <3>1, <3>2, OtherSequences
    <3> QED
      BY <3>3 DEF x, Exchanged
<1>7. /\ DOMAIN e.work = DOMAIN s.work \cup {id} /\ e.work[id] = w
      /\ \A i \in DOMAIN s.work \ {id} : e.work[i] = s.work[i]
  BY <1>4 DEF With
<1>8. Shape(e)
  BY <1>2, <1>3, <1>6 DEF Shape, Seqs, Singles
<1>9. Pushed(s, e, q, c, w)
  BY <1>3, <1>4, <1>6, <1>7 DEF Pushed, id
<1> QED
  BY <1>8, <1>9 DEF e

----------------------------------------------------------------------------
(* What a storage keeps true of itself.                                    *)

\* Work `id' is its own part of coin c: a single work.
Own(s, id, c) ==
    id \in DOMAIN s.work /\ c \in CoinsOf(s.work[id]) /\ s.work[id].part[c] = id

IsWork(w) ==
    /\ DOMAIN w = {"part", "block", "live"}
    /\ DOMAIN w.part \subseteq Coins /\ w.block \in [DOMAIN w.part -> Blocks] /\ w.live \subseteq DOMAIN w.part

\* The ids that are known are those of the allocated works.
IdsKnown(s) ==
    /\ s.byId = DOMAIN s.work /\ DOMAIN s.work \subseteq 1 .. s.lastId
    /\ s.current \in DOMAIN s.work \cup {NoWork}

\* Each of these works is in one place of one sequence.
HeldOnce(s) ==
    /\ \A q \in Seqs, c \in Coins : \A i \in 1 .. Len(s[q][c]) : s[q][c][i] \in DOMAIN s.work
    /\ \A id \in DOMAIN s.work :
          \E q \in Seqs, c \in Coins : \E i \in 1 .. Len(s[q][c]) : s[q][c][i] = id
    /\ \A q, r \in Seqs, c, d \in Coins :
          \A i \in 1 .. Len(s[q][c]), j \in 1 .. Len(s[r][d]) :
              s[q][c][i] = s[r][d][j] => q = r /\ c = d /\ i = j

\* A link leads to a single work of its coin, for the same block.
LinksOK(s) ==
    \A id \in DOMAIN s.work :
        /\ IsWork(s.work[id])
        /\ \A c \in s.work[id].live :
              /\ Own(s, s.work[id].part[c], c)
              /\ s.work[s.work[id].part[c]].block[c] = s.work[id].block[c]

IsSingle(s, id, c) ==
    s.work[id].part[c] = id /\ CoinsOf(s.work[id]) = {c} /\ s.work[id].live = {c}

SinglesOK(s) ==
    \A q \in Singles, c \in Coins : \A i \in 1 .. Len(s[q][c]) : IsSingle(s, s[q][c][i], c)

MergedOK(s) ==
    \A p \in Coins : \A i \in 1 .. Len(s.merged[p]) :
        \A c \in CoinsOf(s.work[s.merged[p][i]]) :
            s.work[s.merged[p][i]].part[c] < s.merged[p][i]

StorageOK(s) ==
    Shape(s) /\ IdsKnown(s) /\ HeldOnce(s) /\ LinksOK(s) /\ SinglesOK(s) /\ MergedOK(s)

LEMMA Unlinked ==
    ASSUME NEW w, IsWork(w), NEW ids
    PROVE  /\ IsWork(Unlink(w, ids))
           /\ Unlink(w, ids).part = w.part /\ Unlink(w, ids).block = w.block
           /\ Unlink(w, ids).live = {c \in w.live : w.part[c] \notin ids}
  BY DEF IsWork, Unlink

LEMMA SeqShape ==
    ASSUME NEW s, Shape(s), NEW q \in Seqs, NEW c \in Coins
    PROVE  s[q][c] \in Seq(Nat) /\ Len(s[q][c]) \in Nat /\ DOMAIN s[q][c] = 1 .. Len(s[q][c])
  BY DEF Shape, Seqs, Singles

LEMMA IdIs ==
    ASSUME NEW s, StorageOK(s), NEW id \in DOMAIN s.work
    PROVE  id \in Nat /\ 0 < id /\ id <= s.lastId /\ s.lastId \in Nat
<1>1. id \in 1 .. s.lastId /\ s.lastId \in Nat
  BY DEF StorageOK, IdsKnown, Shape
<1> QED
  BY <1>1

LEMMA ErasedKeeps ==
    ASSUME NEW s, StorageOK(s), NEW e, Shape(e),
           NEW q \in Seqs, NEW c \in Coins, NEW n \in 0 .. Len(s[q][c]), Erased(s, e, q, c, n)
    PROVE  StorageOK(e)
<1> DEFINE ids == {s[q][c][i] : i \in 1 .. n}
<1>1. /\ \A r \in Seqs, d \in Coins : r # q \/ d # c => e[r][d] = s[r][d]
      /\ Len(e[q][c]) = Len(s[q][c]) - n
      /\ \A i \in 1 .. Len(s[q][c]) - n : e[q][c][i] = s[q][c][i + n]
  BY DEF Erased
<1>2. /\ e.byId = s.byId \ ids /\ DOMAIN e.work = DOMAIN s.work \ ids /\ e.lastId = s.lastId
      /\ \A id \in DOMAIN s.work \ ids : e.work[id] = Unlink(s.work[id], ids)
      /\ e.current = IF s.current \in ids THEN NoWork ELSE s.current
  BY DEF Erased
<1>3. Len(s[q][c]) \in Nat /\ n \in Nat /\ n <= Len(s[q][c])
  BY SeqShape DEF StorageOK
<1> DEFINE at(r, d, i) == IF r = q /\ d = c THEN i + n ELSE i
<1>4. \A r \in Seqs, d \in Coins : \A i \in 1 .. Len(e[r][d]) :
          /\ at(r, d, i) \in 1 .. Len(s[r][d]) /\ e[r][d][i] = s[r][d][at(r, d, i)]
          /\ r = q /\ d = c => at(r, d, i) > n
  <2> SUFFICES ASSUME NEW r \in Seqs, NEW d \in Coins, NEW i \in 1 .. Len(e[r][d])
               PROVE  /\ at(r, d, i) \in 1 .. Len(s[r][d]) /\ e[r][d][i] = s[r][d][at(r, d, i)]
                      /\ r = q /\ d = c => at(r, d, i) > n
    OBVIOUS
  <2>1. CASE r # q \/ d # c
    BY <1>1, <2>1
  <2>2. CASE r = q /\ d = c
    <3>1. i \in 1 .. Len(s[q][c]) - n
      BY <1>1, <2>2
    <3>2. i + n \in 1 .. Len(s[q][c]) /\ i + n > n
      BY <1>3, <3>1
    <3> QED
      BY <1>1, <2>2, <3>1, <3>2
  <2> QED
    BY <2>1, <2>2
<1>5. \A r \in Seqs, d \in Coins : \A i, j \in 1 .. Len(e[r][d]) : at(r, d, i) = at(r, d, j) => i = j
  <2>1. \A r \in Seqs, d \in Coins : \A i \in 1 .. Len(e[r][d]) : i \in Int
    OBVIOUS
  <2> QED
    BY <1>3, <2>1
<1>6. \A r \in Seqs, d \in Coins : \A j \in 1 .. Len(s[r][d]) :
          s[r][d][j] \notin ids => \E i \in 1 .. Len(e[r][d]) : e[r][d][i] = s[r][d][j]
  <2> SUFFICES ASSUME NEW r \in Seqs, NEW d \in Coins, NEW j \in 1 .. Len(s[r][d]), s[r][d][j] \notin ids
               PROVE  \E i \in 1 .. Len(e[r][d]) : e[r][d][i] = s[r][d][j]
    OBVIOUS
  <2>1. CASE r # q \/ d # c
    BY <1>1, <2>1
  <2>2. CASE r = q /\ d = c
    <3>1. j > n
      BY <1>3, <2>2
    <3>2. j - n \in 1 .. Len(s[q][c]) - n /\ (j - n) + n = j
      BY <1>3, <2>2, <3>1
    <3>3. e[q][c][j - n] = s[q][c][(j - n) + n]
      BY <1>1, <3>2
    <3> QED
      BY <1>1, <2>2, <3>2, <3>3
  <2> QED
    BY <2>1, <2>2
<1> HIDE DEF ids, at
<1>7. \A r \in Seqs, d \in Coins : \A i \in 1 .. Len(e[r][d]) :
          e[r][d][i] \in DOMAIN s.work \ ids
  <2> SUFFICES ASSUME NEW r \in Seqs, NEW d \in Coins, NEW i \in 1 .. Len(e[r][d])
               PROVE  e[r][d][i] \in DOMAIN s.work \ ids
    OBVIOUS
  <2> DEFINE j == at(r, d, i)
  <2>1. j \in 1 .. Len(s[r][d]) /\ e[r][d][i] = s[r][d][j] /\ (r = q /\ d = c => j > n)
    BY <1>4
  <2> HIDE DEF j
  <2>2. s[r][d][j] \in DOMAIN s.work
    BY <2>1 DEF StorageOK, HeldOnce
  <2>3. ASSUME NEW k \in 1 .. n PROVE s[r][d][j] # s[q][c][k]
    <3>1. k \in 1 .. Len(s[q][c]) /\ (j > n => j # k)
      BY <1>3
    <3>2. s[r][d][j] = s[q][c][k] => r = q /\ d = c /\ j = k
      BY <2>1, <3>1 DEF StorageOK, HeldOnce
    <3> QED
      BY <2>1, <3>1, <3>2
  <2>4. e[r][d][i] \notin ids
    BY <2>1, <2>3 DEF ids
  <2> QED
    BY <2>1, <2>2, <2>4
<1>8. \A id \in DOMAIN s.work \ ids :
          /\ IsWork(e.work[id])
          /\ e.work[id].part = s.work[id].part /\ e.work[id].block = s.work[id].block
          /\ e.work[id].live = {d \in s.work[id].live : s.work[id].part[d] \notin ids}
  BY <1>2, Unlinked DEF StorageOK, LinksOK
<1>9. IdsKnown(e)
  BY <1>2 DEF StorageOK, IdsKnown, NoWork
<1>10. HeldOnce(e)
  <2>1. \A id \in DOMAIN s.work \ ids :
            \E r \in Seqs, d \in Coins : \E i \in 1 .. Len(e[r][d]) : e[r][d][i] = id
    <3> SUFFICES ASSUME NEW id \in DOMAIN s.work \ ids
                 PROVE  \E r \in Seqs, d \in Coins : \E i \in 1 .. Len(e[r][d]) : e[r][d][i] = id
      OBVIOUS
    <3>1. PICK r \in Seqs, d \in Coins : \E j \in 1 .. Len(s[r][d]) : s[r][d][j] = id
      BY DEF StorageOK, HeldOnce
    <3> QED
      BY <1>6, <3>1, SMTT(30)
  <2>2. ASSUME NEW r1 \in Seqs, NEW r2 \in Seqs, NEW d1 \in Coins, NEW d2 \in Coins,
               NEW i \in 1 .. Len(e[r1][d1]), NEW j \in 1 .. Len(e[r2][d2]), e[r1][d1][i] = e[r2][d2][j]
        PROVE  r1 = r2 /\ d1 = d2 /\ i = j
    <3> DEFINE k == at(r1, d1, i)
               l == at(r2, d2, j)
    <3>0. /\ k \in 1 .. Len(s[r1][d1]) /\ e[r1][d1][i] = s[r1][d1][k]
          /\ l \in 1 .. Len(s[r2][d2]) /\ e[r2][d2][j] = s[r2][d2][l]
      BY <1>4
    <3>1. r1 = r2 /\ d1 = d2 /\ k = l
      <4> HIDE DEF k, l
      <4>1. s[r1][d1][k] = s[r2][d2][l]
        BY <2>2, <3>0
      <4> QED
        BY <3>0, <4>1 DEF StorageOK, HeldOnce
    <3> QED
      BY <1>5, <3>1
  <2> QED
    BY <1>2, <1>7, <2>1, <2>2 DEF HeldOnce
<1>11. LinksOK(e)
  <2> SUFFICES ASSUME NEW id \in DOMAIN s.work \ ids, NEW d \in e.work[id].live
               PROVE  /\ Own(e, e.work[id].part[d], d)
                      /\ e.work[e.work[id].part[d]].block[d] = e.work[id].block[d]
    BY <1>2, <1>8 DEF LinksOK
  <2>1. d \in s.work[id].live /\ s.work[id].part[d] \notin ids /\ e.work[id].part[d] = s.work[id].part[d]
    BY <1>8
  <2>2. /\ Own(s, s.work[id].part[d], d)
        /\ s.work[s.work[id].part[d]].block[d] = s.work[id].block[d]
    BY <2>1 DEF StorageOK, LinksOK
  <2> DEFINE p == s.work[id].part[d]
  <2>3. p \in DOMAIN s.work \ ids /\ d \in DOMAIN s.work[p].part /\ s.work[p].part[d] = p
    BY <2>1, <2>2 DEF Own, CoinsOf
  <2>4. p \in DOMAIN e.work /\ e.work[p].part = s.work[p].part /\ e.work[p].block = s.work[p].block
    BY <1>2, <1>8, <2>3
  <2>5. e.work[id].part[d] = p /\ e.work[id].block = s.work[id].block
    BY <1>8, <2>1
  <2> HIDE DEF p
  <2>6. Own(e, p, d)
    BY <2>3, <2>4 DEF Own, CoinsOf
  <2>7. e.work[p].block[d] = e.work[id].block[d]
    BY <2>2, <2>4, <2>5 DEF p
  <2> QED
    BY <2>5, <2>6, <2>7
<1>12. SinglesOK(e)
  <2> SUFFICES ASSUME NEW r \in Singles, NEW d \in Coins, NEW i \in 1 .. Len(e[r][d])
               PROVE  IsSingle(e, e[r][d][i], d)
    BY DEF SinglesOK
  <2>1. r \in Seqs
    BY DEF Seqs
  <2> DEFINE id == e[r][d][i]
  <2> PICK j \in 1 .. Len(s[r][d]) : e[r][d][i] = s[r][d][j]
    BY <1>4, <2>1
  <2>2. id = s[r][d][j] /\ id \in DOMAIN s.work \ ids
    BY <1>7, <2>1
  <2> HIDE DEF id
  <2>3. IsSingle(s, id, d)
    BY <2>2 DEF StorageOK, SinglesOK
  <2>4. IsSingle(e, id, d)
    BY <1>8, <2>2, <2>3 DEF CoinsOf, IsSingle
  <2> QED
    BY <2>4 DEF id
<1>13. MergedOK(e)
  <2> SUFFICES ASSUME NEW p \in Coins, NEW i \in 1 .. Len(e.merged[p]), NEW d \in CoinsOf(e.work[e.merged[p][i]])
               PROVE  e.work[e.merged[p][i]].part[d] < e.merged[p][i]
    BY DEF MergedOK
  <2>1. "merged" \in Seqs
    BY DEF Seqs
  <2>2. /\ e.merged[p][i] = s.merged[p][at("merged", p, i)]
        /\ at("merged", p, i) \in 1 .. Len(s.merged[p]) /\ e.merged[p][i] \in DOMAIN s.work \ ids
    BY <1>4, <1>7, <2>1
  <2>3. d \in CoinsOf(s.work[e.merged[p][i]]) /\ e.work[e.merged[p][i]].part = s.work[e.merged[p][i]].part
    BY <1>8, <2>2 DEF CoinsOf
  <2> QED
    BY <2>2, <2>3 DEF StorageOK, MergedOK
<1> QED
  BY <1>9, <1>10, <1>11, <1>12, <1>13 DEF StorageOK

\* A new work w for a sequence of coin c.
Fits(s, q, c, w) ==
    /\ IsWork(w) /\ w.live = CoinsOf(w)
    /\ q \in Singles => w.part[c] = s.lastId + 1 /\ CoinsOf(w) = {c}
    /\ q = "merged" => \A d \in CoinsOf(w) :
           Own(s, w.part[d], d) /\ s.work[w.part[d]].block[d] = w.block[d]

LEMMA PushedKeeps ==
    ASSUME NEW s, StorageOK(s), NEW e, Shape(e),
           NEW q \in Seqs, NEW c \in Coins, NEW w, Fits(s, q, c, w), Pushed(s, e, q, c, w)
    PROVE  StorageOK(e)
<1> DEFINE new == s.lastId + 1
<1>1. /\ \A r \in Seqs, d \in Coins : r # q \/ d # c => e[r][d] = s[r][d]
      /\ e[q][c] = Append(s[q][c], new)
  BY DEF Pushed
<1>2. /\ e.byId = s.byId \cup {new} /\ DOMAIN e.work = DOMAIN s.work \cup {new} /\ e.lastId = new
      /\ e.work[new] = w /\ \A id \in DOMAIN s.work \ {new} : e.work[id] = s.work[id]
      /\ e.current = s.current
  BY DEF Pushed
<1>3. s.lastId \in Nat /\ DOMAIN s.work \subseteq 1 .. s.lastId /\ new \notin DOMAIN s.work
  BY DEF StorageOK, Shape, IdsKnown
<1>4. s[q][c] \in Seq(Nat) /\ Len(s[q][c]) \in Nat
  BY SeqShape DEF StorageOK
<1> HIDE DEF new
<1>5. /\ Len(e[q][c]) = Len(s[q][c]) + 1 /\ e[q][c][Len(s[q][c]) + 1] = new
      /\ \A i \in 1 .. Len(s[q][c]) : e[q][c][i] = s[q][c][i]
  BY <1>1, <1>4
<1>6. \A r \in Seqs, d \in Coins : \A i \in 1 .. Len(s[r][d]) :
          i \in 1 .. Len(e[r][d]) /\ e[r][d][i] = s[r][d][i]
  <2> SUFFICES ASSUME NEW r \in Seqs, NEW d \in Coins, NEW i \in 1 .. Len(s[r][d])
               PROVE  i \in 1 .. Len(e[r][d]) /\ e[r][d][i] = s[r][d][i]
    OBVIOUS
  <2>1. CASE r # q \/ d # c
    BY <1>1, <2>1
  <2>2. CASE r = q /\ d = c
    BY <1>4, <1>5, <2>2
  <2> QED
    BY <2>1, <2>2
<1>7. \A r \in Seqs, d \in Coins : \A i \in 1 .. Len(e[r][d]) :
          \/ i \in 1 .. Len(s[r][d]) /\ e[r][d][i] = s[r][d][i] /\ e[r][d][i] \in DOMAIN s.work
          \/ r = q /\ d = c /\ i = Len(s[q][c]) + 1 /\ e[r][d][i] = new
  <2> SUFFICES ASSUME NEW r \in Seqs, NEW d \in Coins, NEW i \in 1 .. Len(e[r][d])
               PROVE  \/ i \in 1 .. Len(s[r][d]) /\ e[r][d][i] = s[r][d][i] /\ e[r][d][i] \in DOMAIN s.work
                      \/ r = q /\ d = c /\ i = Len(s[q][c]) + 1 /\ e[r][d][i] = new
    OBVIOUS
  <2>1. i \in 1 .. Len(s[r][d]) \/ (r = q /\ d = c /\ i = Len(s[q][c]) + 1)
    <3>1. CASE r # q \/ d # c
      BY <1>1, <3>1
    <3>2. CASE r = q /\ d = c
      <4>1. i \in 1 .. Len(s[q][c]) + 1
        BY <1>5, <3>2
      <4> QED
        BY <1>4, <3>2, <4>1
    <3> QED
      BY <3>1, <3>2
  <2>2. CASE i \in 1 .. Len(s[r][d])
    <3>1. e[r][d][i] = s[r][d][i]
      BY <1>6, <2>2
    <3>2. s[r][d][i] \in DOMAIN s.work
      BY <2>2 DEF StorageOK, HeldOnce
    <3> QED
      BY <2>2, <3>1, <3>2
  <2> QED
    BY <1>5, <2>1, <2>2
<1>8. IdsKnown(e)
  <2>1. new \in 1 .. new /\ 1 .. s.lastId \subseteq 1 .. new
    BY <1>3 DEF new
  <2> QED
    BY <1>2, <1>3, <2>1 DEF StorageOK, IdsKnown
<1>9. HeldOnce(e)
  <2>1. \A r \in Seqs, d \in Coins : \A i \in 1 .. Len(e[r][d]) : e[r][d][i] \in DOMAIN e.work
    BY <1>2, <1>7
  <2>2. ASSUME NEW id \in DOMAIN e.work
        PROVE  \E r \in Seqs, d \in Coins : \E i \in 1 .. Len(e[r][d]) : e[r][d][i] = id
    <3>1. CASE id = new
      <4>1. Len(s[q][c]) + 1 \in 1 .. Len(e[q][c])
        BY <1>4, <1>5
      <4> QED
        BY <1>5, <3>1, <4>1
    <3>2. CASE id \in DOMAIN s.work
      <4>1. PICK r \in Seqs, d \in Coins : \E i \in 1 .. Len(s[r][d]) : s[r][d][i] = id
        BY <3>2 DEF StorageOK, HeldOnce
      <4> QED
        BY <1>6, <4>1
    <3> QED
      BY <1>2, <3>1, <3>2
  <2>3. ASSUME NEW r1 \in Seqs, NEW r2 \in Seqs, NEW d1 \in Coins, NEW d2 \in Coins,
               NEW i \in 1 .. Len(e[r1][d1]), NEW j \in 1 .. Len(e[r2][d2]), e[r1][d1][i] = e[r2][d2][j]
        PROVE  r1 = r2 /\ d1 = d2 /\ i = j
    <3>1. CASE e[r1][d1][i] = new
      BY <1>3, <1>7, <2>3, <3>1
    <3>2. CASE e[r1][d1][i] # new
      <4>1. /\ i \in 1 .. Len(s[r1][d1]) /\ e[r1][d1][i] = s[r1][d1][i]
            /\ j \in 1 .. Len(s[r2][d2]) /\ e[r2][d2][j] = s[r2][d2][j]
        BY <1>7, <2>3, <3>2
      <4>2. s[r1][d1][i] = s[r2][d2][j]
        BY <2>3, <4>1
      <4> QED
        BY <4>1, <4>2 DEF StorageOK, HeldOnce
    <3> QED
      BY <3>1, <3>2
  <2> QED
    BY <2>1, <2>2, <2>3 DEF HeldOnce
<1>10. \A id, d : Own(s, id, d) => Own(e, id, d) /\ e.work[id] = s.work[id]
  BY <1>2, <1>3 DEF Own
<1>11. q \in Singles => Own(e, new, c) /\ w.part[c] = new /\ w.live = {c} /\ CoinsOf(w) = {c}
  BY <1>2 DEF Fits, Own, new
<1>12. LinksOK(e)
  <2> SUFFICES ASSUME NEW id \in DOMAIN e.work
               PROVE  /\ IsWork(e.work[id])
                      /\ \A d \in e.work[id].live :
                            /\ Own(e, e.work[id].part[d], d)
                            /\ e.work[e.work[id].part[d]].block[d] = e.work[id].block[d]
    BY DEF LinksOK
  <2>1. CASE id # new
    <3>1. id \in DOMAIN s.work /\ e.work[id] = s.work[id]
      BY <1>2, <2>1
    <3>2. IsWork(s.work[id])
      BY <3>1 DEF StorageOK, LinksOK
    <3>3. ASSUME NEW d \in s.work[id].live
          PROVE  /\ Own(e, s.work[id].part[d], d)
                 /\ e.work[s.work[id].part[d]].block[d] = s.work[id].block[d]
      <4>1. /\ Own(s, s.work[id].part[d], d)
            /\ s.work[s.work[id].part[d]].block[d] = s.work[id].block[d]
        BY <3>1 DEF StorageOK, LinksOK
      <4> QED
        BY <1>10, <4>1
    <3> QED
      BY <3>1, <3>2, <3>3
  <2>2. CASE id = new /\ q \in Singles
    BY <1>2, <1>11, <2>2 DEF Fits
  <2>3. CASE id = new /\ q = "merged"
    <3>1. ASSUME NEW d \in w.live
          PROVE  Own(e, w.part[d], d) /\ e.work[w.part[d]].block[d] = w.block[d]
      <4>1. Own(s, w.part[d], d) /\ s.work[w.part[d]].block[d] = w.block[d]
        BY <2>3 DEF Fits
      <4> QED
        BY <1>10, <4>1
    <3> QED
      BY <1>2, <2>3, <3>1 DEF Fits
  <2> QED
    BY <1>2, <2>1, <2>2, <2>3 DEF Seqs
<1>13. SinglesOK(e)
  <2> SUFFICES ASSUME NEW r \in Singles, NEW d \in Coins, NEW i \in 1 .. Len(e[r][d])
               PROVE  IsSingle(e, e[r][d][i], d)
    BY DEF SinglesOK
  <2>1. r \in Seqs
    BY DEF Seqs
  <2>2. CASE e[r][d][i] = new
    <3>1. r = q /\ d = c
      BY <1>3, <1>7, <2>1, <2>2
    <3>2. IsSingle(e, new, c)
      BY <1>2, <1>11, <3>1 DEF IsSingle
    <3> QED
      BY <2>2, <3>1, <3>2
  <2>3. CASE e[r][d][i] # new
    <3>1. i \in 1 .. Len(s[r][d]) /\ e[r][d][i] = s[r][d][i] /\ e[r][d][i] \in DOMAIN s.work
      BY <1>7, <2>1, <2>3
    <3>2. IsSingle(s, e[r][d][i], d)
      BY <3>1 DEF StorageOK, SinglesOK
    <3> QED
      BY <1>2, <2>3, <3>1, <3>2 DEF IsSingle
  <2> QED
    BY <2>2, <2>3
<1>14. MergedOK(e)
  <2> SUFFICES ASSUME NEW p \in Coins, NEW i \in 1 .. Len(e.merged[p]), NEW d \in CoinsOf(e.work[e.merged[p][i]])
               PROVE  e.work[e.merged[p][i]].part[d] < e.merged[p][i]
    BY DEF MergedOK
  <2>1. "merged" \in Seqs
    BY DEF Seqs
  <2>2. CASE e.merged[p][i] = new
    <3>1. q = "merged"
      BY <1>3, <1>7, <2>1, <2>2
    <3>2. w.part[d] \in DOMAIN s.work
      BY <1>2, <2>2, <3>1 DEF Fits, Own
    <3> QED
      BY <1>2, <1>3, <2>2, <3>2 DEF new
  <2>3. CASE e.merged[p][i] # new
    <3>1. i \in 1 .. Len(s.merged[p]) /\ e.merged[p][i] = s.merged[p][i] /\ e.merged[p][i] \in DOMAIN s.work
      BY <1>7, <2>1, <2>3
    <3>2. e.work[e.merged[p][i]] = s.work[s.merged[p][i]]
      BY <1>2, <2>3, <3>1
    <3> QED
      BY <3>1, <3>2 DEF StorageOK, MergedOK
  <2> QED
    BY <2>2, <2>3
<1> QED
  BY <1>8, <1>9, <1>12, <1>13, <1>14 DEF StorageOK

----------------------------------------------------------------------------
(* The operations that push and delete.                                    *)

\* Two storages with the same works.
Alike(s, e) ==
    /\ e.inst = s.inst /\ e.lastId = s.lastId /\ e.work = s.work /\ e.byId = s.byId
    /\ e.primary = s.primary /\ e.secondary = s.secondary /\ e.merged = s.merged

LEMMA AlikeKeeps ==
    ASSUME NEW s, StorageOK(s), NEW e, Shape(e), Alike(s, e), e.current \in DOMAIN e.work \cup {NoWork}
    PROVE  StorageOK(e) /\ \A q \in Seqs : e[q] = s[q]
<1>1. \A q \in Seqs : e[q] = s[q]
  BY DEF Alike, Seqs, Singles
<1>2. IdsKnown(e)
  BY DEF StorageOK, IdsKnown, Alike
<1>3. HeldOnce(e)
  <2>1. \A q \in Seqs, c \in Coins : e[q][c] = s[q][c]
    BY <1>1
  <2>2. \A q \in Seqs, c \in Coins : \A i \in 1 .. Len(s[q][c]) : s[q][c][i] \in DOMAIN s.work
    BY DEF StorageOK, HeldOnce
  <2>3. \A id \in DOMAIN s.work :
            \E q \in Seqs, c \in Coins : \E i \in 1 .. Len(s[q][c]) : s[q][c][i] = id
    BY DEF StorageOK, HeldOnce
  <2>4. \A q, r \in Seqs, c, d \in Coins :
            \A i \in 1 .. Len(s[q][c]), j \in 1 .. Len(s[r][d]) :
                s[q][c][i] = s[r][d][j] => q = r /\ c = d /\ i = j
    BY DEF StorageOK, HeldOnce
  <2>5. \A q, r \in Seqs, c, d \in Coins :
            \A i \in 1 .. Len(e[q][c]), j \in 1 .. Len(e[r][d]) :
                e[q][c][i] = e[r][d][j] => q = r /\ c = d /\ i = j
    <3> SUFFICES ASSUME NEW q \in Seqs, NEW r \in Seqs, NEW c \in Coins, NEW d \in Coins,
                        NEW i \in 1 .. Len(e[q][c]), NEW j \in 1 .. Len(e[r][d]), e[q][c][i] = e[r][d][j]
                 PROVE  q = r /\ c = d /\ i = j
      OBVIOUS
    <3>1. e[q][c] = s[q][c] /\ e[r][d] = s[r][d]
      BY <2>1
    <3>2. i \in 1 .. Len(s[q][c]) /\ j \in 1 .. Len(s[r][d]) /\ s[q][c][i] = s[r][d][j]
      BY <3>1
    <3> QED
      BY <2>4, <3>2
  <2>6. \A id \in DOMAIN e.work :
            \E q \in Seqs, c \in Coins : \E i \in 1 .. Len(e[q][c]) : e[q][c][i] = id
    BY <2>1, <2>3 DEF Alike
  <2> QED
    BY <2>1, <2>2, <2>5, <2>6 DEF HeldOnce, Alike
<1>4. LinksOK(e)
  <2>1. LinksOK(s) /\ e.work = s.work
    BY DEF StorageOK, Alike
  <2>2. \A id, c : Own(e, id, c) <=> Own(s, id, c)
    BY <2>1 DEF Own
  <2> QED
    BY <2>1, <2>2 DEF LinksOK
<1>5. SinglesOK(e)
  <2> SUFFICES ASSUME NEW q \in Singles, NEW c \in Coins, NEW i \in 1 .. Len(e[q][c])
               PROVE  IsSingle(e, e[q][c][i], c)
    BY DEF SinglesOK
  <2>1. e[q] = s[q]
    BY <1>1 DEF Seqs
  <2>2. IsSingle(s, s[q][c][i], c)
    BY <2>1 DEF StorageOK, SinglesOK
  <2> QED
    BY <2>1, <2>2 DEF IsSingle, Alike
<1>6. MergedOK(e)
  BY DEF StorageOK, MergedOK, Alike
<1> QED
  BY <1>1, <1>2, <1>3, <1>4, <1>5, <1>6 DEF StorageOK

LEMMA NewBlockKeeps ==
    ASSUME NEW s, StorageOK(s), NEW q \in Seqs, NEW c \in Coins
    PROVE  /\ StorageOK(NewBlock(s, q, c))
           /\ Alike(Erase(s, q, c, Len(s[q][c])), NewBlock(s, q, c))
           /\ NewBlock(s, q, c).known = [s.known EXCEPT ![c] = FALSE]
           /\ NewBlock(s, q, c).accepted = [s.accepted EXCEPT ![c] = {}]
           /\ NewBlock(s, q, c).pending = [s.pending EXCEPT ![c] = NoShare]
<1> DEFINE n == Len(s[q][c])
           z == Erase(s, q, c, n)
           e == NewBlock(s, q, c)
<1>1. n \in 0 .. Len(s[q][c])
  BY SeqShape DEF StorageOK
<1>2. Shape(z) /\ Erased(s, z, q, c, n)
  BY <1>1, EraseErased DEF StorageOK
<1>3. StorageOK(z)
  BY <1>1, <1>2, ErasedKeeps
<1>4. e = [z EXCEPT !.known[c] = FALSE, !.accepted[c] = {}, !.pending[c] = NoShare]
  BY DEF NewBlock
<1> HIDE DEF z, e, n
<1>5. /\ DOMAIN e = Fields /\ Alike(z, e) /\ e.current = z.current
      /\ e.known = [z.known EXCEPT ![c] = FALSE]
      /\ e.accepted = [z.accepted EXCEPT ![c] = {}]
      /\ e.pending = [z.pending EXCEPT ![c] = NoShare]
  BY <1>2, <1>4 DEF Shape, Fields, Alike
<1>6. Shape(e)
  BY <1>2, <1>5 DEF Shape, Alike
<1>7. e.current \in DOMAIN e.work \cup {NoWork}
  BY <1>3, <1>5 DEF StorageOK, IdsKnown, Alike
<1>8. StorageOK(e)
  BY <1>3, <1>5, <1>6, <1>7, AlikeKeeps
<1>9. z.known = s.known /\ z.accepted = s.accepted /\ z.pending = s.pending
  BY <1>2 DEF Erased
<1> QED
  BY <1>5, <1>8, <1>9 DEF z, e, n

\* The works of s that are still in e are what they were, with fewer links;
\* the others in e are new.
Evolved(s, e) ==
    /\ e.inst = s.inst /\ s.lastId <= e.lastId
    /\ \A id \in DOMAIN e.work :
          \/ id > s.lastId
          \/ /\ id \in DOMAIN s.work
             /\ e.work[id].part = s.work[id].part /\ e.work[id].block = s.work[id].block
             /\ e.work[id].live \subseteq s.work[id].live

\* Only one sequence of s is another in e.
OnlyIn(s, e, q, c) == \A r \in Seqs, d \in Coins : r # q \/ d # c => e[r][d] = s[r][d]

Within(s, q, c, id) == \E i \in 1 .. Len(s[q][c]) : s[q][c][i] = id

\* Only links to works of that sequence are gone.
LinksLost(s, e, q, c) ==
    \A id \in DOMAIN s.work \cap DOMAIN e.work : \A d \in s.work[id].live :
        d \in e.work[id].live \/ Within(s, q, c, s.work[id].part[d])

Changed(s, e, q, c) == Evolved(s, e) /\ OnlyIn(s, e, q, c) /\ LinksLost(s, e, q, c)

LEMMA ErasedChanged ==
    ASSUME NEW s, StorageOK(s), NEW q \in Seqs, NEW c \in Coins, NEW n \in 0 .. Len(s[q][c]),
           NEW e, Erased(s, e, q, c, n)
    PROVE  /\ Changed(s, e, q, c) /\ e.lastId = s.lastId
           /\ \A id : Within(e, q, c, id) => Within(s, q, c, id)
<1> DEFINE ids == {s[q][c][i] : i \in 1 .. n}
<1>1. /\ e.inst = s.inst /\ e.lastId = s.lastId /\ OnlyIn(s, e, q, c)
      /\ DOMAIN e.work = DOMAIN s.work \ ids
      /\ \A id \in DOMAIN s.work \ ids : e.work[id] = Unlink(s.work[id], ids)
  BY DEF Erased, OnlyIn
<1>2. s.lastId \in Nat /\ Len(s[q][c]) \in Nat /\ n \in Nat /\ n <= Len(s[q][c])
  BY SeqShape DEF StorageOK, Shape
<1>3. \A id \in ids : Within(s, q, c, id)
  BY <1>2 DEF Within
<1> HIDE DEF ids
<1>4. \A id \in DOMAIN s.work \ ids :
          /\ e.work[id].part = s.work[id].part /\ e.work[id].block = s.work[id].block
          /\ e.work[id].live = {d \in s.work[id].live : s.work[id].part[d] \notin ids}
  BY <1>1, Unlinked DEF StorageOK, LinksOK
<1>5. Evolved(s, e)
  <2>1. s.lastId <= e.lastId
    BY <1>1, <1>2
  <2> QED
    BY <1>1, <1>4, <2>1 DEF Evolved
<1>6. LinksLost(s, e, q, c)
  BY <1>1, <1>3, <1>4 DEF LinksLost
<1>7. ASSUME NEW id, Within(e, q, c, id)
      PROVE  Within(s, q, c, id)
  <2>1. /\ Len(e[q][c]) = Len(s[q][c]) - n
        /\ \A i \in 1 .. Len(s[q][c]) - n : e[q][c][i] = s[q][c][i + n]
    BY DEF Erased
  <2>2. PICK i \in 1 .. Len(s[q][c]) - n : e[q][c][i] = id
    BY <1>7, <2>1 DEF Within
  <2>3. i + n \in 1 .. Len(s[q][c])
    BY <1>2
  <2> QED
    BY <2>1, <2>2, <2>3 DEF Within
<1> QED
  BY <1>1, <1>5, <1>6, <1>7 DEF Changed

LEMMA PushedChanged ==
    ASSUME NEW s, StorageOK(s), NEW q \in Seqs, NEW c \in Coins, NEW w,
           NEW e, Pushed(s, e, q, c, w)
    PROVE  /\ Changed(s, e, q, c) /\ e.lastId = s.lastId + 1
           /\ \A id : Within(e, q, c, id) => Within(s, q, c, id) \/ id = e.lastId
<1> DEFINE new == s.lastId + 1
<1>1. /\ e.inst = s.inst /\ e.lastId = new /\ OnlyIn(s, e, q, c)
      /\ e[q][c] = Append(s[q][c], new)
      /\ DOMAIN e.work = DOMAIN s.work \cup {new}
      /\ \A id \in DOMAIN s.work \ {new} : e.work[id] = s.work[id]
  BY DEF Pushed, OnlyIn
<1>2. s.lastId \in Nat /\ DOMAIN s.work \subseteq 1 .. s.lastId /\ new > s.lastId
  BY DEF StorageOK, Shape, IdsKnown
<1>3. s[q][c] \in Seq(Nat) /\ Len(s[q][c]) \in Nat
  BY SeqShape DEF StorageOK
<1>4. new \notin DOMAIN s.work /\ s.lastId <= new
  BY <1>2
<1> HIDE DEF new
<1>5. Evolved(s, e)
  BY <1>1, <1>2, <1>4 DEF Evolved
<1>6. LinksLost(s, e, q, c)
  BY <1>1, <1>4 DEF LinksLost
<1>7. ASSUME NEW id, Within(e, q, c, id)
      PROVE  Within(s, q, c, id) \/ id = new
  <2>1. PICK i \in 1 .. Len(s[q][c]) + 1 : Append(s[q][c], new)[i] = id
    BY <1>1, <1>3, <1>7 DEF Within
  <2> QED
    BY <1>3, <2>1 DEF Within
<1> QED
  BY <1>1, <1>5, <1>6, <1>7 DEF Changed, new

LEMMA EvolvedTwice ==
    ASSUME NEW s, StorageOK(s), NEW u, StorageOK(u), NEW e, StorageOK(e), Evolved(s, u), Evolved(u, e)
    PROVE  Evolved(s, e)
<1>1. s.lastId \in Nat /\ u.lastId \in Nat /\ e.lastId \in Nat /\ s.lastId <= u.lastId /\ u.lastId <= e.lastId
      /\ e.inst = s.inst
  BY DEF StorageOK, Shape, Evolved
<1>2. ASSUME NEW id \in DOMAIN e.work
      PROVE  \/ id > s.lastId
             \/ /\ id \in DOMAIN s.work
                /\ e.work[id].part = s.work[id].part /\ e.work[id].block = s.work[id].block
                /\ e.work[id].live \subseteq s.work[id].live
  <2>1. id \in Nat
    BY <1>1 DEF StorageOK, IdsKnown
  <2>2. CASE id > u.lastId
    BY <1>1, <2>1, <2>2
  <2>3. CASE ~(id > u.lastId)
    <3>1. /\ id \in DOMAIN u.work
          /\ e.work[id].part = u.work[id].part /\ e.work[id].block = u.work[id].block
          /\ e.work[id].live \subseteq u.work[id].live
      BY <2>3 DEF Evolved
    <3>2. \/ id > s.lastId
          \/ /\ id \in DOMAIN s.work
             /\ u.work[id].part = s.work[id].part /\ u.work[id].block = s.work[id].block
             /\ u.work[id].live \subseteq s.work[id].live
      BY <3>1 DEF Evolved
    <3> QED
      BY <3>1, <3>2
  <2> QED
    BY <2>2, <2>3
<1>3. s.lastId <= e.lastId
  BY <1>1
<1> QED
  BY <1>1, <1>2, <1>3 DEF Evolved

LEMMA ChangedTwice ==
    ASSUME NEW s, StorageOK(s), NEW u, StorageOK(u), NEW e, StorageOK(e), NEW q \in Seqs, NEW c \in Coins,
           Changed(s, u, q, c), Changed(u, e, q, c),
           \A id : Within(u, q, c, id) => Within(s, q, c, id) \/ id > s.lastId
    PROVE  Changed(s, e, q, c)
<1>1. Evolved(s, e)
  BY EvolvedTwice DEF Changed
<1>2. OnlyIn(s, e, q, c)
  BY DEF Changed, OnlyIn
<1>3. ASSUME NEW id \in DOMAIN s.work \cap DOMAIN e.work, NEW d \in s.work[id].live
      PROVE  d \in e.work[id].live \/ Within(s, q, c, s.work[id].part[d])
  <2>1. /\ id \in Nat /\ id <= s.lastId /\ s.lastId \in Nat /\ u.lastId \in Nat /\ s.lastId <= u.lastId
        /\ ~(id > s.lastId) /\ ~(id > u.lastId)
    <3>1. id \in Nat /\ id <= s.lastId /\ s.lastId \in Nat /\ u.lastId \in Nat
      BY IdIs DEF StorageOK, Shape
    <3>2. s.lastId <= u.lastId
      BY DEF Changed, Evolved
    <3> QED
      BY <3>1, <3>2
  <2>2. id \in DOMAIN u.work /\ u.work[id].part = s.work[id].part
    BY <2>1 DEF Changed, Evolved
  <2>3. s.work[id].part[d] \in DOMAIN s.work
    BY DEF StorageOK, LinksOK, Own
  <2>4. ~(s.work[id].part[d] > s.lastId)
    BY <2>1, <2>3 DEF StorageOK, IdsKnown
  <2>5. d \in u.work[id].live \/ Within(s, q, c, s.work[id].part[d])
    BY <2>2 DEF Changed, LinksLost
  <2>6. d \in u.work[id].live => d \in e.work[id].live \/ Within(u, q, c, s.work[id].part[d])
    BY <2>2 DEF Changed, LinksLost
  <2> QED
    BY <2>4, <2>5, <2>6
<1>4. LinksLost(s, e, q, c)
  BY <1>3 DEF LinksLost
<1> QED
  BY <1>1, <1>2, <1>4 DEF Changed

LEMMA Extra ==
    ASSUME NEW l \in Nat, l > 0
    PROVE  Max({0, l - WorksetSizeLimit}) \in 0 .. l - 1
<1>1. WorksetSizeLimit \in Nat /\ WorksetSizeLimit > 0
  BY StorageAssumptions
<1>2. CASE l >= WorksetSizeLimit
  <2>1. l - WorksetSizeLimit \in 0 .. l - 1 /\ 0 \in 0 .. l - 1 /\ l - WorksetSizeLimit \in Nat
    BY <1>1, <1>2
  <2> QED
    BY <2>1, MaxOfTwo
<1>3. CASE ~(l >= WorksetSizeLimit)
  <2>1. l - WorksetSizeLimit \in Int /\ 0 >= l - WorksetSizeLimit /\ ~(l - WorksetSizeLimit >= 0)
    BY <1>1, <1>3
  <2> HIDE DEF Max
  <2> DEFINE y == l - WorksetSizeLimit
  <2>2. Max({0, y}) = CHOOSE x \in {0, y} : \A z \in {0, y} : x >= z
    BY DEF Max
  <2> HIDE DEF y
  <2>3. Max({0, y}) = 0
    BY <2>1, <2>2 DEF y
  <2> QED
    BY <2>3 DEF y
<1> QED
  BY <1>2, <1>3

\* The newest work of a sequence.
Newest(s, q, c) == s[q][c][Len(s[q][c])]

\* What a template for block b leaves of the state of coin c: all of it, or
\* nothing when the newest work was for another block.
SameShares(s, e, c) ==
    e.known[c] = s.known[c] /\ e.accepted[c] = s.accepted[c] /\ e.pending[c] = s.pending[c]
NoShares(e, c) == e.known[c] = FALSE /\ e.accepted[c] = {} /\ e.pending[c] = NoShare
Replaced(s, q, c, b) == Len(s[q][c]) > 0 /\ s.work[Newest(s, q, c)].block[c] # b
SharesAfter(s, e, q, c, b) == IF Replaced(s, q, c, b) THEN NoShares(e, c) ELSE SameShares(s, e, c)

\* A single work for block b is the newest one of e; those before it that are
\* still there came when b was the block already.
SinglePushed(s, e, q, c, b) ==
    /\ StorageOK(e) /\ Changed(s, e, q, c) /\ e.lastId = s.lastId + 1
    /\ Len(e[q][c]) > 0 /\ Newest(e, q, c) = e.lastId
    /\ e.work[e.lastId].block[c] = b
    /\ \A id : Within(e, q, c, id) =>
           \/ id = e.lastId
           \/ Within(s, q, c, id) /\ Len(s[q][c]) > 0 /\ s.work[Newest(s, q, c)].block[c] = b
    /\ \A d \in Coins : d # c => SameShares(s, e, d)
    /\ SharesAfter(s, e, q, c, b)

LEMMA PushSingleWorkDoes ==
    ASSUME NEW s, StorageOK(s), NEW q \in Singles, NEW c \in Coins, NEW b \in Blocks
    PROVE  SinglePushed(s, PushSingleWork(s, q, c, b), q, c, b)
<1> DEFINE old == s[q][c]
           other == old # <<>> /\ s.work[Last(old)].block[c] # b
           s1 == IF other THEN NewBlock(s, q, c) ELSE s
           w == SingleWork(c, s.lastId + 1, b)
           s2 == Push(s1, q, c, w)
           n == Max({0, Len(s2[q][c]) - WorksetSizeLimit})
           e == Erase(s2, q, c, n)
<1>0. q \in Seqs /\ e = PushSingleWork(s, q, c, b)
  BY DEF Seqs, PushSingleWork
<1>1. old \in Seq(Nat) /\ Len(old) \in Nat /\ (old # <<>> <=> Len(old) > 0) /\ s.lastId \in Nat
      /\ (old # <<>> => Last(old) = Newest(s, q, c))
  <2>1. old \in Seq(Nat) /\ Len(old) \in Nat /\ s.lastId \in Nat
    BY <1>0, SeqShape DEF StorageOK, Shape
  <2>2. Last(old) = Newest(s, q, c)
    BY DEF Newest, Last
  <2> HIDE DEF old
  <2>3. old # <<>> <=> Len(old) > 0
    BY <2>1
  <2> QED
    BY <2>1, <2>2, <2>3
<1>2. /\ StorageOK(s1) /\ s1.lastId = s.lastId
      /\ Changed(s, s1, q, c) /\ \A d \in Coins : d # c => SameShares(s, s1, d)
      /\ \/ SameShares(s, s1, c) /\ s1 = s /\ ~other
         \/ Replaced(s, q, c, b) /\ NoShares(s1, c) /\ Len(s1[q][c]) = 0
  <2>1. CASE ~other
    <3>1. s1 = s
      BY <2>1
    <3>2. Changed(s, s, q, c)
      BY <1>1 DEF Changed, Evolved, OnlyIn, LinksLost
    <3> QED
      BY <2>1, <3>1, <3>2 DEF SameShares
  <2>2. CASE other
    <3> DEFINE z == Erase(s, q, c, Len(old))
    <3>1. s1 = NewBlock(s, q, c)
      BY <2>2
    <3>2. /\ StorageOK(s1) /\ Alike(z, s1)
          /\ s1.known = [s.known EXCEPT ![c] = FALSE]
          /\ s1.accepted = [s.accepted EXCEPT ![c] = {}]
          /\ s1.pending = [s.pending EXCEPT ![c] = NoShare]
      <4> HIDE DEF s1
      <4> QED
        BY <1>0, <3>1, NewBlockKeeps
    <3>3. Len(old) \in 0 .. Len(old)
      BY <1>1
    <3>4. Shape(z) /\ Erased(s, z, q, c, Len(old))
      BY <1>0, <3>3, EraseErased DEF StorageOK
    <3>5. Changed(s, z, q, c) /\ z.lastId = s.lastId
      <4>1. Erased(s, z, q, c, Len(s[q][c])) /\ Len(s[q][c]) \in 0 .. Len(s[q][c])
        BY <3>3, <3>4
      <4> HIDE DEF z, s1, old
      <4> QED
        BY <1>0, <4>1, ErasedChanged
    <3>6. Len(z[q][c]) = 0
      BY <1>1, <3>4 DEF Erased
    <3> HIDE DEF z, s1, old
    <3>7. \A r \in Seqs : s1[r] = z[r]
      BY <3>2 DEF Alike, Seqs, Singles
    <3>8. Changed(s, s1, q, c)
      BY <3>2, <3>5, <3>7 DEF Changed, Evolved, OnlyIn, LinksLost, Alike
    <3>9. /\ DOMAIN s.known = Coins /\ DOMAIN s.accepted = Coins /\ DOMAIN s.pending = Coins
      BY DEF StorageOK, Shape
    <3>10. \A d \in Coins : d # c => SameShares(s, s1, d)
      BY <3>2, <3>9 DEF SameShares
    <3>11. Replaced(s, q, c, b) /\ NoShares(s1, c)
      BY <1>1, <2>2, <3>2, <3>9 DEF Replaced, NoShares, old
    <3> QED
      BY <1>0, <3>2, <3>5, <3>6, <3>7, <3>8, <3>10, <3>11 DEF Alike
  <2> QED
    BY <2>1, <2>2
<1> HIDE DEF s1
<1>3. Shape(s2) /\ Pushed(s1, s2, q, c, w)
  BY <1>0, <1>2, PushPushed DEF StorageOK
<1>4. Fits(s1, q, c, w)
  <2>1. /\ DOMAIN w = {"part", "block", "live"} /\ DOMAIN w.part = {c} /\ w.block \in [{c} -> Blocks]
        /\ w.live = {c} /\ w.part[c] = s.lastId + 1
    BY DEF SingleWork, CWork
  <2> HIDE DEF w
  <2>2. q # "merged"
    BY DEF Singles
  <2> QED
    BY <1>2, <2>1, <2>2 DEF Fits, IsWork, CoinsOf
<1>5. w.block[c] = b
  BY DEF SingleWork, CWork
<1> HIDE DEF w, s2
<1>6. StorageOK(s2)
  BY <1>0, <1>2, <1>3, <1>4, PushedKeeps
<1>7. /\ Changed(s1, s2, q, c) /\ s2.lastId = s.lastId + 1
      /\ \A id : Within(s2, q, c, id) => Within(s1, q, c, id) \/ id = s2.lastId
  BY <1>0, <1>2, <1>3, PushedChanged
<1>8. /\ s2[q][c] = Append(s1[q][c], s2.lastId) /\ s2.work[s2.lastId] = w
      /\ s2.known = s1.known /\ s2.accepted = s1.accepted /\ s2.pending = s1.pending
  BY <1>2, <1>3, <1>7 DEF Pushed
<1>9. s1[q][c] \in Seq(Nat) /\ Len(s1[q][c]) \in Nat
  BY <1>0, <1>2, SeqShape DEF StorageOK
<1>10. /\ Len(s2[q][c]) = Len(s1[q][c]) + 1 /\ Len(s2[q][c]) \in Nat /\ Len(s2[q][c]) > 0
       /\ s2[q][c][Len(s2[q][c])] = s2.lastId
  BY <1>8, <1>9
<1>11. n \in 0 .. Len(s2[q][c]) - 1 /\ n \in 0 .. Len(s2[q][c])
  <2>1. n \in 0 .. Len(s2[q][c]) - 1
    BY <1>10, Extra
  <2> QED
    BY <1>10, <2>1
<1>12. Shape(e) /\ Erased(s2, e, q, c, n)
  BY <1>0, <1>6, <1>11, EraseErased DEF StorageOK
<1> HIDE DEF n, e, old
<1>13. StorageOK(e)
  BY <1>0, <1>6, <1>11, <1>12, ErasedKeeps
<1>14. /\ Changed(s2, e, q, c) /\ e.lastId = s2.lastId
       /\ \A id : Within(e, q, c, id) => Within(s2, q, c, id)
  BY <1>0, <1>6, <1>11, <1>12, ErasedChanged
<1>15. Len(e[q][c]) > 0 /\ Newest(e, q, c) = e.lastId
  <2>1. /\ Len(e[q][c]) = Len(s2[q][c]) - n
        /\ \A i \in 1 .. Len(s2[q][c]) - n : e[q][c][i] = s2[q][c][i + n]
    BY <1>12 DEF Erased
  <2>2. Len(s2[q][c]) - n \in 1 .. Len(s2[q][c]) - n /\ Len(s2[q][c]) - n + n = Len(s2[q][c])
    BY <1>10, <1>11
  <2> QED
    BY <1>10, <1>14, <2>1, <2>2 DEF Newest
<1>16. e.known = s1.known /\ e.accepted = s1.accepted /\ e.pending = s1.pending
  BY <1>8, <1>12 DEF Erased
<1>17. e.work[e.lastId].block[c] = b
  <2>1. Within(e, q, c, e.lastId)
    <3>1. Len(e[q][c]) \in Nat
      BY <1>0, <1>13, SeqShape DEF StorageOK
    <3> QED
      BY <1>15, <3>1 DEF Within, Newest
  <2>2. e.lastId \in DOMAIN e.work
    BY <1>0, <1>13, <2>1 DEF StorageOK, HeldOnce, Within
  <2>3. ~(e.lastId > s2.lastId)
    BY <1>14, <1>6 DEF StorageOK, Shape
  <2>4. e.work[e.lastId].block = s2.work[e.lastId].block
    BY <1>14, <2>2, <2>3 DEF Changed, Evolved
  <2> QED
    BY <1>5, <1>8, <1>14, <2>4
<1>18. s2.lastId > s.lastId
  BY <1>1, <1>7
<1>19. \A id : Within(e, q, c, id) => (id = e.lastId) \/ Within(s1, q, c, id)
  BY <1>7, <1>14
<1>20. Changed(s, e, q, c)
  <2>1. \A id : Within(s1, q, c, id) => Within(s, q, c, id)
    <3>1. CASE s1 = s
      BY <3>1
    <3>2. CASE Len(s1[q][c]) = 0
      BY <3>2 DEF Within
    <3> QED
      BY <1>2, <3>1, <3>2
  <2>2. Changed(s, s2, q, c)
    BY <1>0, <1>2, <1>6, <1>7, <2>1, ChangedTwice
  <2>3. \A id : Within(s2, q, c, id) => Within(s, q, c, id) \/ id > s.lastId
    BY <1>7, <1>18, <2>1
  <2> QED
    BY <1>0, <1>6, <1>13, <1>14, <2>2, <2>3, ChangedTwice
<1>21. \A id : Within(e, q, c, id) =>
           \/ id = e.lastId
           \/ Within(s, q, c, id) /\ Len(s[q][c]) > 0 /\ s.work[Newest(s, q, c)].block[c] = b
  <2> SUFFICES ASSUME NEW id, Within(s1, q, c, id)
               PROVE  Within(s, q, c, id) /\ Len(s[q][c]) > 0 /\ s.work[Newest(s, q, c)].block[c] = b
    BY <1>19
  <2>1. Len(s1[q][c]) # 0
    BY <1>9 DEF Within
  <2>2. s1 = s /\ ~other
    BY <1>2, <2>1
  <2>3. Len(old) > 0
    BY <1>1, <1>9, <2>1, <2>2 DEF old
  <2> QED
    BY <1>1, <2>2, <2>3 DEF old
<1>22. \A d \in Coins : d # c => SameShares(s, e, d)
  BY <1>2, <1>16 DEF SameShares
<1>23. SharesAfter(s, e, q, c, b)
  <2>1. SameShares(s1, s, c) => SameShares(s, s1, c)
    BY DEF SameShares
  <2>2. ~other => ~Replaced(s, q, c, b)
    BY <1>1 DEF Replaced, old
  <2>3. (~Replaced(s, q, c, b) /\ SameShares(s, s1, c)) \/ (Replaced(s, q, c, b) /\ NoShares(s1, c))
    BY <1>2, <2>2
  <2> QED
    BY <1>16, <2>3 DEF SharesAfter, SameShares, NoShares
<1> QED
  BY <1>0, <1>7, <1>13, <1>14, <1>15, <1>17, <1>20, <1>21, <1>22, <1>23 DEF SinglePushed

\* The secondary coins a merged work of p has, and all its parts, the newest
\* works of the coins.
Others(s, p) == {c \in s.inst.secondary \ {p} : s.secondary[c] # <<>>}
NewestPart(s, p, c) == IF c = p THEN Newest(s, "primary", p) ELSE Newest(s, "secondary", c)
HasAllParts(s, p, w) ==
    /\ CoinsOf(w) = {p} \cup Others(s, p) /\ w.live = CoinsOf(w)
    /\ \A c \in CoinsOf(w) : w.part[c] = NewestPart(s, p, c)

LinksKept(s, e) == \A id \in DOMAIN s.work \cap DOMAIN e.work : e.work[id].live = s.work[id].live

\* A merged work is pushed if its secondary coins have a tree.
MergedPushed(s, e, p) ==
    /\ StorageOK(e) /\ Evolved(s, e) /\ OnlyIn(s, e, "merged", p) /\ LinksKept(s, e)
    /\ e.known = s.known /\ e.accepted = s.accepted /\ e.pending = s.pending
    /\ \/ Others(s, p) \notin Mergeable /\ e = s
       \/ /\ Len(e.merged[p]) > 0 /\ HasAllParts(e, p, e.work[Newest(e, "merged", p)])
          /\ Others(s, p) \in Mergeable

LEMMA SomeSecondary ==
    ASSUME NEW s, StorageOK(s), NEW p \in Coins
    PROVE  Others(s, p) \subseteq Coins /\ p \notin Others(s, p)
  BY StorageAssumptions DEF Others, StorageOK, Shape

LEMMA NewestHeld ==
    ASSUME NEW s, StorageOK(s), NEW q \in Seqs, NEW c \in Coins, s[q][c] # <<>>
    PROVE  /\ Len(s[q][c]) \in Nat /\ Len(s[q][c]) > 0 /\ Last(s[q][c]) = Newest(s, q, c)
           /\ Newest(s, q, c) \in DOMAIN s.work
           /\ q \in Singles => IsSingle(s, Newest(s, q, c), c) /\ Own(s, Newest(s, q, c), c)
<1>1. s[q][c] \in Seq(Nat) /\ Len(s[q][c]) \in Nat
  BY SeqShape DEF StorageOK
<1>2. Len(s[q][c]) > 0 /\ Len(s[q][c]) \in 1 .. Len(s[q][c])
  BY <1>1
<1>3. Last(s[q][c]) = Newest(s, q, c)
  BY DEF Last, Newest
<1>4. Newest(s, q, c) \in DOMAIN s.work
  BY <1>2 DEF StorageOK, HeldOnce, Newest
<1>5. q \in Singles => IsSingle(s, Newest(s, q, c), c)
  BY <1>2 DEF StorageOK, SinglesOK, Newest
<1> QED
  BY <1>1, <1>2, <1>3, <1>4, <1>5 DEF IsSingle, Own

LEMMA PushMergedWorkDoes ==
    ASSUME NEW s, StorageOK(s), NEW p \in Coins, s.primary[p] # <<>>
    PROVE  MergedPushed(s, PushMergedWork(s, p), p)
<1> DEFINE others == Others(s, p)
           part == [c \in {p} \cup others |-> Last(IF c = p THEN s.primary[c] ELSE s.secondary[c])]
           w == CWork(part, [c \in DOMAIN part |-> s.work[part[c]].block[c]])
           s1 == Push(s, "merged", p, w)
           first == Min({k \in DOMAIN s1.merged[p] : s1.work[s1.merged[p][k]].live # {}})
           e == Erase(s1, "merged", p, first - 1)
<1>1. PushMergedWork(s, p) = IF others \in Mergeable THEN e ELSE s
  BY DEF PushMergedWork, Others
<1>2. others \subseteq Coins /\ p \notin others /\ "merged" \in Seqs /\ "merged" \notin Singles
      /\ "primary" \in Singles /\ "secondary" \in Singles /\ \A q \in Singles : q \in Seqs
  BY SomeSecondary DEF Seqs, Singles
<1>3. CASE others \notin Mergeable
  <2>1. Evolved(s, s) /\ OnlyIn(s, s, "merged", p) /\ LinksKept(s, s)
    BY DEF Evolved, OnlyIn, LinksKept, StorageOK, Shape
  <2> QED
    BY <1>1, <1>3, <2>1 DEF MergedPushed
<1>4. CASE others \in Mergeable
  <2>1. \A c \in {p} \cup others :
            Own(s, NewestPart(s, p, c), c) /\ part[c] = NewestPart(s, p, c)
    <3>1. Own(s, Newest(s, "primary", p), p) /\ Last(s.primary[p]) = Newest(s, "primary", p)
      BY <1>2, NewestHeld
    <3>2. ASSUME NEW c \in others
          PROVE  Own(s, Newest(s, "secondary", c), c) /\ Last(s.secondary[c]) = Newest(s, "secondary", c)
      <4>1. s.secondary[c] # <<>>
        BY DEF Others
      <4> QED
        BY <1>2, <4>1, NewestHeld
    <3> QED
      BY <1>2, <3>1, <3>2 DEF NewestPart
  <2>2. /\ DOMAIN w = {"part", "block", "live"} /\ w.part = part /\ DOMAIN part = {p} \cup others
        /\ w.block = [c \in {p} \cup others |-> s.work[part[c]].block[c]] /\ w.live = {p} \cup others
    BY DEF CWork
  <2> HIDE DEF others
  <2>3. Fits(s, "merged", p, w)
    <3> HIDE DEF w, part
    <3>1. ASSUME NEW c \in {p} \cup others PROVE s.work[part[c]].block[c] \in Blocks
      <4>1. part[c] \in DOMAIN s.work /\ c \in DOMAIN s.work[part[c]].part
        BY <2>1 DEF Own, CoinsOf
      <4>2. s.work[part[c]].block \in [DOMAIN s.work[part[c]].part -> Blocks]
        BY <4>1 DEF StorageOK, LinksOK, IsWork
      <4> QED
        BY <4>1, <4>2
    <3>2. w.block \in [DOMAIN w.part -> Blocks]
      BY <2>2, <3>1
    <3>3. IsWork(w)
      BY <1>2, <2>2, <3>2 DEF IsWork
    <3> QED
      BY <1>2, <2>1, <2>2, <3>3 DEF Fits, CoinsOf
  <2> HIDE DEF w, part
  <2>4. Shape(s1) /\ Pushed(s, s1, "merged", p, w)
    BY <1>2, PushPushed DEF StorageOK
  <2> HIDE DEF s1
  <2>5. StorageOK(s1)
    BY <1>2, <2>3, <2>4, PushedKeeps
  <2>6. Changed(s, s1, "merged", p) /\ s1.lastId = s.lastId + 1
    BY <1>2, <2>4, PushedChanged
  <2>7. /\ s1["merged"][p] = Append(s["merged"][p], s1.lastId) /\ s1.work[s1.lastId] = w
        /\ s1.known = s.known /\ s1.accepted = s.accepted /\ s1.pending = s.pending
    BY <2>4, <2>6 DEF Pushed
  <2>8. /\ Len(s1.merged[p]) \in Nat /\ Len(s1.merged[p]) > 0
        /\ s1.merged[p][Len(s1.merged[p])] = s1.lastId /\ DOMAIN s1.merged[p] = 1 .. Len(s1.merged[p])
    <3>1. s["merged"][p] \in Seq(Nat)
      BY <1>2, SeqShape DEF StorageOK
    <3>2. s1["merged"][p] = Append(s["merged"][p], s1.lastId)
      BY <2>7
    <3> QED
      BY <3>1, <3>2
  <2>9. first \in 1 .. Len(s1.merged[p])
    <3> DEFINE L == Len(s1.merged[p])
               K == {k \in DOMAIN s1.merged[p] : s1.work[s1.merged[p][k]].live # {}}
    <3>1. L \in K
      <4>1. L \in DOMAIN s1.merged[p]
        BY <2>8
      <4>2. s1.work[s1.merged[p][L]].live # {}
        BY <2>2, <2>7, <2>8
      <4> HIDE DEF L
      <4> QED
        BY <4>1, <4>2
    <3>2. K \subseteq 1 .. L /\ IsFiniteSet(1 .. L) /\ 1 .. L \subseteq Nat
      <4>1. K \subseteq 1 .. L
        BY <2>8
      <4>2. L \in Int /\ 1 \in Int
        BY <2>8
      <4> HIDE DEF L, K
      <4>3. IsFiniteSet(1 .. L)
        BY <4>2, FS_Interval
      <4> QED
        BY <4>1, <4>3
    <3>3. IsFiniteSet(K)
      BY <3>2, FS_Subset
    <3> HIDE DEF K
    <3>4. Min(K) \in K
      BY <3>1, <3>2, <3>3, MinExists
    <3> QED
      BY <3>2, <3>4 DEF K
  <2> HIDE DEF first
  <2>10. first - 1 \in 0 .. Len(s1.merged[p])
    BY <2>8, <2>9
  <2>11. Shape(e) /\ Erased(s1, e, "merged", p, first - 1)
    BY <1>2, <2>5, <2>10, EraseErased DEF StorageOK
  <2> HIDE DEF e
  <2>12. StorageOK(e)
    BY <1>2, <2>5, <2>10, <2>11, ErasedKeeps
  <2>13. Changed(s1, e, "merged", p) /\ e.lastId = s1.lastId
    BY <1>2, <2>5, <2>10, <2>11, ErasedChanged
  <2>14. Evolved(s, e) /\ OnlyIn(s, e, "merged", p)
    <3>1. Evolved(s, e)
      BY <2>5, <2>6, <2>12, <2>13, EvolvedTwice DEF Changed
    <3> QED
      BY <2>6, <2>13, <3>1 DEF Changed, OnlyIn
  <2>15. ASSUME NEW u, StorageOK(u), NEW id, NEW c, Own(u, id, c)
         PROVE  ~Within(u, "merged", p, id)
    <3> SUFFICES ASSUME NEW i \in 1 .. Len(u["merged"][p]), u["merged"][p][i] = id PROVE FALSE
      BY DEF Within
    <3>1. u.work[u.merged[p][i]].part[c] < u.merged[p][i]
      BY <2>15 DEF StorageOK, MergedOK, Own
    <3>2. id \in Nat
      BY <2>15, IdIs DEF Own
    <3>3. id < id
      BY <2>15, <3>1 DEF Own
    <3> QED
      BY <3>2, <3>3
  <2>16. ASSUME NEW id \in DOMAIN s.work \cap DOMAIN e.work
         PROVE  e.work[id].live = s.work[id].live
    <3>1. id \in Nat /\ id <= s.lastId /\ s.lastId \in Nat /\ ~(id > s.lastId) /\ ~(id > s1.lastId)
      <4>1. id \in Nat /\ id <= s.lastId /\ s.lastId \in Nat
        BY IdIs
      <4> QED
        BY <2>6, <4>1
    <3>2. id \in DOMAIN s1.work /\ s1.work[id].part = s.work[id].part /\ s1.work[id].live \subseteq s.work[id].live
          /\ e.work[id].live \subseteq s1.work[id].live
      <4>1. id \in DOMAIN s1.work
        BY <2>13, <3>1 DEF Changed, Evolved
      <4> QED
        BY <2>6, <2>13, <3>1, <4>1 DEF Changed, Evolved
    <3>3. ASSUME NEW c \in s.work[id].live
          PROVE  c \in e.work[id].live
      <4>1. Own(s, s.work[id].part[c], c)
        BY DEF StorageOK, LinksOK
      <4>2. c \in s1.work[id].live
        BY <2>6, <2>15, <3>2, <4>1 DEF Changed, LinksLost
      <4>3. Own(s1, s1.work[id].part[c], c)
        BY <2>5, <3>2, <4>2 DEF StorageOK, LinksOK
      <4> QED
        BY <2>5, <2>13, <2>15, <3>2, <4>2, <4>3 DEF Changed, LinksLost
    <3> QED
      BY <3>2, <3>3
  <2>17. /\ Len(e.merged[p]) > 0 /\ Newest(e, "merged", p) = e.lastId /\ Len(e.merged[p]) \in Nat
    <3>1. /\ Len(e["merged"][p]) = Len(s1["merged"][p]) - (first - 1)
          /\ \A i \in 1 .. Len(s1["merged"][p]) - (first - 1) : e["merged"][p][i] = s1["merged"][p][i + (first - 1)]
      BY <2>11 DEF Erased
    <3> DEFINE l == Len(s1.merged[p])
    <3>2. l - (first - 1) \in 1 .. l - (first - 1) /\ (l - (first - 1)) + (first - 1) = l
          /\ l - (first - 1) > 0 /\ l - (first - 1) \in Nat
      BY <2>8, <2>9
    <3> QED
      BY <2>8, <2>13, <3>1, <3>2 DEF Newest
  <2>18. HasAllParts(e, p, e.work[e.lastId])
    <3>1. e.lastId \in DOMAIN e.work
      <4>1. \A i \in 1 .. Len(e["merged"][p]) : e["merged"][p][i] \in DOMAIN e.work
        BY <1>2, <2>12 DEF StorageOK, HeldOnce
      <4>2. Len(e["merged"][p]) \in 1 .. Len(e["merged"][p])
        BY <2>17
      <4>3. e["merged"][p][Len(e["merged"][p])] = e.lastId
        BY <2>17 DEF Newest
      <4> QED
        BY <4>1, <4>2, <4>3
    <3>2. ~(e.lastId > s1.lastId) /\ s1.lastId \in Nat
      BY <2>5, <2>13 DEF StorageOK, Shape
    <3>3. e.lastId \in DOMAIN s1.work
      BY <2>13, <3>1, <3>2 DEF Changed, Evolved
    <3>4. e.work[e.lastId].part = w.part /\ e.work[e.lastId].live \subseteq w.live
      BY <2>7, <2>13, <3>1, <3>2 DEF Changed, Evolved
    <3>5. e.work[e.lastId].live = w.live
      <4> SUFFICES ASSUME NEW c \in w.live PROVE c \in e.work[e.lastId].live
        BY <3>4
      <4>1. Own(s1, w.part[c], c)
        BY <2>5, <2>7, <2>13, <3>3 DEF StorageOK, LinksOK
      <4> QED
        BY <2>5, <2>7, <2>13, <2>15, <3>1, <3>3, <4>1 DEF Changed, LinksLost
    <3>6. e.inst = s.inst /\ e.secondary = s.secondary /\ \A c \in Coins :
              Newest(e, "primary", c) = Newest(s, "primary", c) /\ Newest(e, "secondary", c) = Newest(s, "secondary", c)
      <4>1. \A c \in Coins : e["primary"][c] = s["primary"][c] /\ e["secondary"][c] = s["secondary"][c]
        BY <1>2, <2>14 DEF OnlyIn
      <4>2. e.secondary = s.secondary
        BY <2>12, <4>1 DEF StorageOK, Shape
      <4> QED
        BY <2>14, <4>1, <4>2 DEF Evolved, Newest
    <3>7. Others(e, p) = others /\ \A c \in {p} \cup others : NewestPart(e, p, c) = NewestPart(s, p, c)
      BY <1>2, <3>6 DEF Others, others, NewestPart
    <3> QED
      BY <2>1, <2>2, <3>4, <3>5, <3>7 DEF HasAllParts, CoinsOf
  <2>19. e.known = s.known /\ e.accepted = s.accepted /\ e.pending = s.pending
    BY <2>7, <2>11 DEF Erased
  <2> QED
    BY <1>1, <1>4, <2>12, <2>14, <2>16, <2>17, <2>18, <2>19 DEF MergedPushed, LinksKept, others
<1> QED
  BY <1>3, <1>4

\* The storage e after the merged works of the coins D have been renewed.
SameSingles(s, e) == e.primary = s.primary /\ e.secondary = s.secondary
Renewed(s, e, D) ==
    /\ StorageOK(e) /\ Evolved(s, e) /\ SameSingles(s, e) /\ LinksKept(s, e)
    /\ e.known = s.known /\ e.accepted = s.accepted /\ e.pending = s.pending
    /\ \A p \in Coins :
          IF p \in D /\ s.primary[p] # <<>> /\ Others(s, p) \in Mergeable
          THEN Len(e.merged[p]) > 0 /\ HasAllParts(e, p, e.work[Newest(e, "merged", p)])
          ELSE e.merged[p] = s.merged[p]

LEMMA RenewedNone ==
    ASSUME NEW s, StorageOK(s)
    PROVE  Renewed(s, s, {})
<1>1. Evolved(s, s) /\ SameSingles(s, s) /\ LinksKept(s, s)
  BY DEF Evolved, SameSingles, LinksKept, StorageOK, Shape
<1> QED
  BY <1>1 DEF Renewed

LEMMA SamePartsAndLinks ==
    ASSUME NEW u, StorageOK(u), NEW e, StorageOK(e), Evolved(u, e), SameSingles(u, e),
           NEW p \in Coins, NEW i, i \in DOMAIN u.work, i \in DOMAIN e.work,
           e.work[i].live = u.work[i].live, HasAllParts(u, p, u.work[i])
    PROVE  HasAllParts(e, p, e.work[i])
<1>1. i \in Nat /\ i <= u.lastId /\ u.lastId \in Nat
  BY IdIs
<1>2. ~(i > u.lastId)
  BY <1>1
<1>3. e.work[i].part = u.work[i].part
  BY <1>2 DEF Evolved
<1>4. e.inst = u.inst /\ \A c \in Coins : e["primary"][c] = u["primary"][c] /\ e["secondary"][c] = u["secondary"][c]
  BY DEF Evolved, SameSingles
<1>5. Others(e, p) = Others(u, p)
  BY <1>4 DEF SameSingles, Others
<1>6. \A c \in {p} \cup Others(u, p) : NewestPart(e, p, c) = NewestPart(u, p, c)
  BY <1>4, SomeSecondary DEF NewestPart, Newest
<1> QED
  BY <1>3, <1>5, <1>6 DEF HasAllParts, CoinsOf

LEMMA RenewedOne ==
    ASSUME NEW s, StorageOK(s), NEW D, NEW u, Renewed(s, u, D), NEW p \in Coins, p \notin D
    PROVE  Renewed(s, Renew(u, p), D \cup {p})
<1> DEFINE e == Renew(u, p)
<1>1. /\ StorageOK(u) /\ Evolved(s, u) /\ SameSingles(s, u) /\ LinksKept(s, u)
      /\ u.known = s.known /\ u.accepted = s.accepted /\ u.pending = s.pending
      /\ \A d \in Coins :
            IF d \in D /\ s.primary[d] # <<>> /\ Others(s, d) \in Mergeable
            THEN Len(u.merged[d]) > 0 /\ HasAllParts(u, d, u.work[Newest(u, "merged", d)])
            ELSE u.merged[d] = s.merged[d]
  BY DEF Renewed
<1>2. \A d \in Coins : Others(u, d) = Others(s, d) /\ u.primary[d] = s.primary[d]
  BY <1>1 DEF SameSingles, Evolved, Others
<1>3. CASE s.primary[p] = <<>>
  <2>1. e = u
    BY <1>2, <1>3 DEF Renew
  <2> HIDE DEF e
  <2> QED
    BY <1>1, <1>3, <2>1 DEF Renewed, e
<1>4. CASE s.primary[p] # <<>>
  <2>1. MergedPushed(u, e, p)
    BY <1>1, <1>2, <1>4, PushMergedWorkDoes DEF Renew
  <2> HIDE DEF e
  <2>2. StorageOK(e) /\ e.known = s.known /\ e.accepted = s.accepted /\ e.pending = s.pending
        /\ Evolved(u, e) /\ OnlyIn(u, e, "merged", p) /\ LinksKept(u, e)
    BY <1>1, <2>1 DEF MergedPushed
  <2>3. SameSingles(u, e) /\ SameSingles(s, e)
    <3>1. \A c \in Coins : e["primary"][c] = u["primary"][c] /\ e["secondary"][c] = u["secondary"][c]
      BY <2>2 DEF OnlyIn, Seqs, Singles
    <3>2. e.primary = u.primary /\ e.secondary = u.secondary
      BY <1>1, <2>2, <3>1 DEF StorageOK, Shape
    <3> QED
      BY <1>1, <3>2 DEF SameSingles
  <2>4. Evolved(s, e)
    BY <1>1, <2>2, EvolvedTwice
  <2>5. LinksKept(s, e)
    <3> SUFFICES ASSUME NEW id \in DOMAIN s.work \cap DOMAIN e.work
                 PROVE  e.work[id].live = s.work[id].live
      BY DEF LinksKept
    <3>1. id \in Nat /\ id <= s.lastId /\ s.lastId \in Nat
      BY IdIs
    <3>2. u.lastId \in Nat /\ s.lastId <= u.lastId
      BY <1>1 DEF StorageOK, Shape, Evolved
    <3>3. ~(id > u.lastId)
      BY <3>1, <3>2
    <3>4. id \in DOMAIN u.work
      BY <2>2, <3>3 DEF Evolved
    <3> QED
      BY <1>1, <2>2, <3>4 DEF LinksKept
  <2>6. ASSUME NEW d \in Coins, d # p
        PROVE  /\ e.merged[d] = u.merged[d]
               /\ Len(u.merged[d]) > 0 /\ HasAllParts(u, d, u.work[Newest(u, "merged", d)]) =>
                      HasAllParts(e, d, e.work[Newest(e, "merged", d)])
    <3>1. e["merged"][d] = u["merged"][d] /\ "merged" \in Seqs
      BY <2>2, <2>6 DEF OnlyIn, Seqs
    <3>2. SUFFICES ASSUME Len(u.merged[d]) > 0, HasAllParts(u, d, u.work[Newest(u, "merged", d)])
                   PROVE  HasAllParts(e, d, e.work[Newest(e, "merged", d)])
      BY <3>1
    <3> DEFINE i == Newest(u, "merged", d)
    <3>3. i = Newest(e, "merged", d)
      BY <3>1 DEF Newest
    <3>4. Len(u["merged"][d]) \in Nat /\ Len(e["merged"][d]) \in Nat
      BY <1>1, <2>2, <3>1, SeqShape DEF StorageOK
    <3>5. Len(u["merged"][d]) \in 1 .. Len(u["merged"][d]) /\ Len(e["merged"][d]) \in 1 .. Len(e["merged"][d])
      BY <3>1, <3>2, <3>4
    <3>6. i \in DOMAIN u.work /\ i \in DOMAIN e.work
      <4>1. u["merged"][d][Len(u["merged"][d])] \in DOMAIN u.work
        BY <1>1, <3>1, <3>5 DEF StorageOK, HeldOnce
      <4>2. e["merged"][d][Len(e["merged"][d])] \in DOMAIN e.work
        BY <2>2, <3>1, <3>5 DEF StorageOK, HeldOnce
      <4> QED
        BY <3>1, <4>1, <4>2 DEF Newest
    <3>7. e.work[i].live = u.work[i].live
      BY <2>2, <3>6 DEF LinksKept
    <3> HIDE DEF i
    <3>8. HasAllParts(e, d, e.work[i])
      BY <1>1, <2>2, <2>3, <3>2, <3>6, <3>7, SamePartsAndLinks DEF i
    <3> QED
      BY <3>3, <3>8
  <2>7. ASSUME NEW d \in Coins
        PROVE  IF d \in D \cup {p} /\ s.primary[d] # <<>> /\ Others(s, d) \in Mergeable
               THEN Len(e.merged[d]) > 0 /\ HasAllParts(e, d, e.work[Newest(e, "merged", d)])
               ELSE e.merged[d] = s.merged[d]
    <3>1. CASE d # p
      <4>1. d \in D \cup {p} <=> d \in D
        BY <3>1
      <4> QED
        BY <1>1, <2>6, <3>1, <4>1
    <3>2. CASE d = p
      <4>1. u.merged[p] = s.merged[p]
        BY <1>1
      <4> QED
        BY <1>2, <1>4, <2>1, <3>2, <4>1 DEF MergedPushed
    <3> QED
      BY <3>1, <3>2
  <2> QED
    BY <2>2, <2>3, <2>4, <2>5, <2>7 DEF Renewed, e
<1> QED
  BY <1>3, <1>4

\* The loop over the primary coins.
Steps(g, s, x, m) == g = [k \in 0 .. m |-> IF k = 0 THEN s ELSE Renew(g[k - 1], x[k])]

LEMMA StepsExist ==
    ASSUME NEW s, NEW x, NEW n \in Nat
    PROVE  \E g : Steps(g, s, x, n)
<1> DEFINE Bad == {m \in 0 .. n : ~\E g : Steps(g, s, x, m)}
<1>1. SUFFICES ASSUME Bad # {} PROVE FALSE
  BY DEF Bad
<1>2. IsFiniteSet(Bad) /\ Bad \subseteq Nat
  <2>1. IsFiniteSet(0 .. n) /\ 0 .. n \subseteq Nat
    BY FS_Interval
  <2> QED
    BY <2>1, FS_Subset
<1> DEFINE m == Min(Bad)
<1>3. m \in Bad /\ \A y \in Bad : m <= y
  <2> HIDE DEF Bad
  <2> QED
    BY <1>1, <1>2, MinExists
<1> HIDE DEF m
<1>4. m \in 0 .. n /\ ~\E g : Steps(g, s, x, m)
  BY <1>3
<1>5. CASE m = 0
  <2> DEFINE g == [k \in 0 .. 0 |-> s]
  <2>1. g = [k \in 0 .. 0 |-> IF k = 0 THEN s ELSE Renew(g[k - 1], x[k])]
    OBVIOUS
  <2> HIDE DEF g
  <2> QED
    BY <1>4, <1>5, <2>1 DEF Steps
<1>6. CASE m # 0
  <2>1. m - 1 \in 0 .. n /\ m \in Nat /\ m - 1 \in Nat /\ ~(m <= m - 1)
    BY <1>4, <1>6
  <2>2. m - 1 \notin Bad
    BY <1>3, <2>1
  <2>3. PICK f : Steps(f, s, x, m - 1)
    BY <2>1, <2>2
  <2> DEFINE last == Renew(f[m - 1], x[m])
             g == [k \in 0 .. m |-> IF k < m THEN f[k] ELSE last]
  <2>4. \A k \in 0 .. m - 1 : f[k] = IF k = 0 THEN s ELSE Renew(f[k - 1], x[k])
    BY <2>3 DEF Steps
  <2>5. \A k \in 0 .. m - 1 : g[k] = f[k]
    BY <2>1
  <2>6. g[m] = last
    BY <2>1
  <2> HIDE DEF g
  <2>7. ASSUME NEW k \in 0 .. m
        PROVE  g[k] = IF k = 0 THEN s ELSE Renew(g[k - 1], x[k])
    <3>1. CASE k = m
      <4>1. m - 1 \in 0 .. m - 1
        BY <2>1
      <4> QED
        BY <1>6, <2>5, <2>6, <3>1, <4>1
    <3>2. CASE k # m
      <4>1. k \in 0 .. m - 1
        BY <2>1, <3>2
      <4>2. k # 0 => k - 1 \in 0 .. m - 1
        BY <2>1, <4>1
      <4>3. g[k] = f[k] /\ (k # 0 => g[k - 1] = f[k - 1])
        BY <2>5, <4>1, <4>2
      <4> QED
        BY <2>4, <4>1, <4>3
    <3> QED
      BY <3>1, <3>2
  <2>8. g = [k \in 0 .. m |-> g[k]]
    BY DEF g
  <2>9. g = [k \in 0 .. m |-> IF k = 0 THEN s ELSE Renew(g[k - 1], x[k])]
    BY <2>7, <2>8
  <2> QED
    BY <1>4, <2>9 DEF Steps
<1> QED
  BY <1>5, <1>6

LEMMA UpdateMergedDoes ==
    ASSUME NEW s, StorageOK(s)
    PROVE  Renewed(s, UpdateMerged(s), s.inst.primary)
<1> DEFINE P == s.inst.primary
           x == Ascending(P)
           n == Cardinality(P)
           g == CHOOSE g : Steps(g, s, x, n)
<1>1. IsFiniteSet(P) /\ P \subseteq Nat /\ P \subseteq Coins
  <2>1. P \subseteq Coins
    BY StorageAssumptions DEF StorageOK, Shape
  <2> QED
    BY <2>1, StorageAssumptions, FS_Subset
<1>2. n \in Nat
  BY <1>1, FS_CardinalityType
<1>3. /\ x \in [1 .. n -> P] /\ \A j, k \in 1 .. n : x[j] = x[k] => j = k
      /\ \A p \in P : \E k \in 1 .. n : x[k] = p
  <2> HIDE DEF P
  <2> QED
    BY <1>1, AscendingIs
<1>4. Len(x) = n
  <2> HIDE DEF x, n, P
  <2> QED
    BY <1>2, <1>3
<1>5. UpdateMerged(s) = g[n]
  <2>1. UpdateMerged(s) = (CHOOSE f : f = [k \in 0 .. Len(x) |-> IF k = 0 THEN s ELSE Renew(f[k - 1], x[k])])[Len(x)]
    BY DEF UpdateMerged
  <2> HIDE DEF x, n, P
  <2> QED
    BY <1>4, <2>1 DEF Steps
<1> HIDE DEF x, n, P
<1>6. Steps(g, s, x, n)
  BY <1>2, StepsExist
<1> HIDE DEF g
<1>7. g[0] = s /\ \A k \in 1 .. n : g[k] = Renew(g[k - 1], x[k])
  BY <1>2, <1>6 DEF Steps
<1> DEFINE D(m) == {x[k] : k \in 1 .. m}
           Bad == {m \in 0 .. n : ~Renewed(s, g[m], D(m))}
<1>8. ASSUME Bad # {} PROVE FALSE
  <2>1. IsFiniteSet(Bad) /\ Bad \subseteq Nat
    <3>1. IsFiniteSet(0 .. n) /\ 0 .. n \subseteq Nat
      BY <1>2, FS_Interval
    <3> QED
      BY <3>1, FS_Subset
  <2> DEFINE m == Min(Bad)
  <2>2. m \in Bad /\ \A y \in Bad : m <= y
    <3> HIDE DEF Bad
    <3> QED
      BY <1>8, <2>1, MinExists
  <2> HIDE DEF m
  <2>3. m \in 0 .. n /\ ~Renewed(s, g[m], D(m))
    BY <2>2
  <2>4. CASE m = 0
    <3>1. D(0) = {}
      OBVIOUS
    <3> QED
      BY <1>7, <2>3, <2>4, <3>1, RenewedNone
  <2>5. CASE m # 0
    <3>1. m - 1 \in 0 .. n /\ m \in 1 .. n /\ m - 1 \in Nat /\ ~(m <= m - 1)
      BY <1>2, <2>3, <2>5
    <3>2. m - 1 \notin Bad
      BY <2>2, <3>1
    <3>3. Renewed(s, g[m - 1], D(m - 1))
      BY <3>1, <3>2
    <3>4. x[m] \in Coins /\ x[m] \notin D(m - 1)
      <4>1. x[m] \in P
        BY <1>3, <3>1
      <4>2. ASSUME NEW k \in 1 .. m - 1 PROVE x[m] # x[k]
        <5>1. k \in 1 .. n /\ k # m
          BY <1>2, <3>1
        <5> QED
          BY <1>3, <3>1, <5>1
      <4> QED
        BY <1>1, <4>1, <4>2
    <3>5. D(m) = D(m - 1) \cup {x[m]}
      BY <3>1
    <3>6. g[m] = Renew(g[m - 1], x[m])
      BY <1>7, <3>1
    <3> HIDE DEF D
    <3>7. Renewed(s, Renew(g[m - 1], x[m]), D(m - 1) \cup {x[m]})
      BY <3>3, <3>4, RenewedOne
    <3> QED
      BY <2>3, <3>5, <3>6, <3>7
  <2> QED
    BY <2>4, <2>5
<1>9. Renewed(s, g[n], D(n))
  <2>1. n \notin Bad
    <3> HIDE DEF Bad
    <3> QED
      BY <1>8
  <2>2. n \in 0 .. n
    BY <1>2
  <2> HIDE DEF D
  <2> QED
    BY <2>1, <2>2
<1>10. D(n) = P
  BY <1>3
<1> QED
  BY <1>5, <1>9, <1>10 DEF P

----------------------------------------------------------------------------
(* A template: createWork.                                                 *)

\* What a template of coin c leaves alone: the single works of the other coins,
\* their shares, and the links to their works.
SinglesOfOthers(s, e, c) == \A q \in Singles, d \in Coins : d # c => e[q][d] = s[q][d]
SharesOfOthers(s, e, c) == \A d \in Coins : d # c => SameShares(s, e, d)
LinksOfOthers(s, e, c) ==
    \A id \in DOMAIN s.work \cap DOMAIN e.work : \A d \in s.work[id].live : d # c => d \in e.work[id].live

Grown(s, e, c) ==
    /\ StorageOK(e) /\ Evolved(s, e)
    /\ SinglesOfOthers(s, e, c) /\ SharesOfOthers(s, e, c) /\ LinksOfOthers(s, e, c)

LEMMA Kept ==
    ASSUME NEW s, StorageOK(s), NEW u, StorageOK(u), Evolved(s, u),
           NEW e, StorageOK(e), Evolved(u, e), NEW id \in DOMAIN s.work \cap DOMAIN e.work
    PROVE  id \in DOMAIN u.work
<1>1. id \in Nat /\ id <= s.lastId /\ s.lastId \in Nat
  BY IdIs
<1>2. u.lastId \in Nat /\ s.lastId <= u.lastId
  BY DEF StorageOK, Shape, Evolved
<1>3. ~(id > u.lastId)
  BY <1>1, <1>2
<1> QED
  BY <1>3 DEF Evolved

LEMMA GrownNot ==
    ASSUME NEW s, StorageOK(s), NEW c \in Coins
    PROVE  Grown(s, s, c)
<1>1. Evolved(s, s)
  BY DEF Evolved, StorageOK, Shape
<1> QED
  BY <1>1 DEF Grown, SinglesOfOthers, SharesOfOthers, LinksOfOthers, SameShares

LEMMA GrownTwice ==
    ASSUME NEW s, StorageOK(s), NEW c \in Coins, NEW u, Grown(s, u, c), NEW e, Grown(u, e, c)
    PROVE  Grown(s, e, c)
<1>1. StorageOK(u) /\ StorageOK(e) /\ Evolved(s, u) /\ Evolved(u, e)
  BY DEF Grown
<1>2. Evolved(s, e)
  BY <1>1, EvolvedTwice
<1>3. SinglesOfOthers(s, e, c)
  BY DEF Grown, SinglesOfOthers
<1>4. SharesOfOthers(s, e, c)
  BY DEF Grown, SharesOfOthers, SameShares
<1>5. ASSUME NEW id \in DOMAIN s.work \cap DOMAIN e.work, NEW d \in s.work[id].live, d # c
      PROVE  d \in e.work[id].live
  <2>1. id \in DOMAIN u.work
    BY <1>1, Kept
  <2>2. d \in u.work[id].live
    BY <1>5, <2>1 DEF Grown, LinksOfOthers
  <2> QED
    BY <1>5, <2>1, <2>2 DEF Grown, LinksOfOthers
<1>6. LinksOfOthers(s, e, c)
  BY <1>5 DEF LinksOfOthers
<1> QED
  BY <1>1, <1>2, <1>3, <1>4, <1>6 DEF Grown

LEMMA GrownBySingle ==
    ASSUME NEW s, StorageOK(s), NEW q \in Singles, NEW c \in Coins, NEW b, NEW e, SinglePushed(s, e, q, c, b)
    PROVE  Grown(s, e, c)
<1>1. StorageOK(e) /\ Evolved(s, e) /\ OnlyIn(s, e, q, c) /\ LinksLost(s, e, q, c)
  BY DEF SinglePushed, Changed
<1>2. SinglesOfOthers(s, e, c)
  BY <1>1 DEF OnlyIn, SinglesOfOthers, Seqs
<1>3. SharesOfOthers(s, e, c)
  BY DEF SinglePushed, SharesOfOthers
<1>4. ASSUME NEW id \in DOMAIN s.work \cap DOMAIN e.work, NEW d \in s.work[id].live, d # c
      PROVE  d \in e.work[id].live
  <2> DEFINE i == s.work[id].part[d]
  <2>1. Own(s, i, d)
    BY DEF StorageOK, LinksOK
  <2> HIDE DEF i
  <2>2. SUFFICES ASSUME Within(s, q, c, i) PROVE FALSE
    BY <1>1 DEF LinksLost, i
  <2>3. IsSingle(s, i, c)
    BY <2>2 DEF Within, StorageOK, SinglesOK
  <2> QED
    BY <1>4, <2>1, <2>3 DEF IsSingle, Own
<1>5. LinksOfOthers(s, e, c)
  BY <1>4 DEF LinksOfOthers
<1> QED
  BY <1>1, <1>2, <1>3, <1>5 DEF Grown

LEMMA GrownByMerged ==
    ASSUME NEW s, StorageOK(s), NEW p \in Coins, NEW e, MergedPushed(s, e, p), NEW c \in Coins
    PROVE  Grown(s, e, c) /\ \A q \in Singles, d \in Coins : e[q][d] = s[q][d]
<1>1. \A q \in Singles, d \in Coins : e[q][d] = s[q][d]
  BY DEF MergedPushed, OnlyIn, Singles, Seqs
<1>2. SharesOfOthers(s, e, c)
  BY DEF MergedPushed, SharesOfOthers, SameShares
<1>3. LinksOfOthers(s, e, c)
  BY DEF MergedPushed, LinksKept, LinksOfOthers
<1> QED
  BY <1>1, <1>2, <1>3 DEF Grown, SinglesOfOthers, MergedPushed

LEMMA GrownByRenewal ==
    ASSUME NEW s, StorageOK(s), NEW D, NEW e, Renewed(s, e, D), NEW c \in Coins
    PROVE  Grown(s, e, c) /\ \A q \in Singles, d \in Coins : e[q][d] = s[q][d]
<1>1. \A q \in Singles, d \in Coins : e[q][d] = s[q][d]
  BY DEF Renewed, SameSingles, Singles
<1>2. SharesOfOthers(s, e, c)
  BY DEF Renewed, SharesOfOthers, SameShares
<1>3. LinksOfOthers(s, e, c)
  BY DEF Renewed, LinksKept, LinksOfOthers
<1> QED
  BY <1>1, <1>2, <1>3 DEF Grown, SinglesOfOthers, Renewed

\* All works of a sequence are for one block of the coin.
SameBlock(s, q, c) ==
    \A i \in 1 .. Len(s[q][c]) : s.work[s[q][c][i]].block[c] = s.work[Newest(s, q, c)].block[c]

\* A template for block b of coin c has made a work; those before it that are
\* still there came when b was the block already.
Built(s, e, q, c, b) ==
    /\ Len(e[q][c]) > 0
    /\ \A id : Within(e, q, c, id) =>
           /\ e.work[id].block[c] = b
           /\ \/ id > s.lastId
              \/ Within(s, q, c, id) /\ Len(s[q][c]) > 0 /\ s.work[Newest(s, q, c)].block[c] = b

\* A work that is in both storages is for the same blocks.
LEMMA BlocksKept ==
    ASSUME NEW s, StorageOK(s), NEW e, StorageOK(e), Evolved(s, e),
           NEW q \in Singles, NEW c \in Coins, NEW r \in Singles, NEW d \in Coins, NEW id,
           Within(s, q, c, id), Within(e, r, d, id)
    PROVE  /\ id \in DOMAIN s.work /\ id \in DOMAIN e.work
           /\ e.work[id].block = s.work[id].block /\ id \in Nat /\ ~(id > s.lastId)
<1>1. q \in Seqs /\ r \in Seqs
  BY DEF Seqs
<1>2. id \in DOMAIN s.work /\ id \in DOMAIN e.work
  <2>1. \A i \in 1 .. Len(s[q][c]) : s[q][c][i] \in DOMAIN s.work
    BY <1>1 DEF StorageOK, HeldOnce
  <2>2. \A i \in 1 .. Len(e[r][d]) : e[r][d][i] \in DOMAIN e.work
    BY <1>1 DEF StorageOK, HeldOnce
  <2> QED
    BY <2>1, <2>2 DEF Within
<1>3. id \in Nat /\ id <= s.lastId /\ s.lastId \in Nat
  BY <1>2, IdIs
<1>4. ~(id > s.lastId)
  BY <1>3
<1> QED
  BY <1>2, <1>3, <1>4 DEF Evolved

LEMMA NewestWithin ==
    ASSUME NEW s, StorageOK(s), NEW q \in Seqs, NEW c \in Coins, Len(s[q][c]) > 0
    PROVE  Within(s, q, c, Newest(s, q, c)) /\ Newest(s, q, c) \in DOMAIN s.work
<1>1. Len(s[q][c]) \in Nat
  BY SeqShape DEF StorageOK
<1>2. Len(s[q][c]) \in 1 .. Len(s[q][c])
  BY <1>1
<1> QED
  BY <1>2 DEF Within, Newest, StorageOK, HeldOnce

LEMMA BuiltBySingle ==
    ASSUME NEW s, StorageOK(s), NEW q \in Singles, NEW c \in Coins, NEW b, NEW e,
           SinglePushed(s, e, q, c, b), SameBlock(s, q, c)
    PROVE  Built(s, e, q, c, b)
<1>1. StorageOK(e) /\ Evolved(s, e) /\ Len(e[q][c]) > 0 /\ e.lastId = s.lastId + 1 /\ s.lastId \in Nat
  BY DEF SinglePushed, Changed, StorageOK, Shape
<1>2. e.lastId > s.lastId
  BY <1>1
<1>3. ASSUME NEW id, Within(e, q, c, id)
      PROVE  /\ e.work[id].block[c] = b
             /\ \/ id > s.lastId
                \/ Within(s, q, c, id) /\ Len(s[q][c]) > 0 /\ s.work[Newest(s, q, c)].block[c] = b
  <2>1. CASE id = e.lastId
    BY <1>2, <2>1 DEF SinglePushed
  <2>2. CASE Within(s, q, c, id) /\ Len(s[q][c]) > 0 /\ s.work[Newest(s, q, c)].block[c] = b
    <3>1. e.work[id].block = s.work[id].block
      BY <1>1, <1>3, <2>2, BlocksKept
    <3>2. s.work[id].block[c] = b
      BY <2>2 DEF SameBlock, Within
    <3> QED
      BY <2>2, <3>1, <3>2
  <2> QED
    BY <1>3, <2>1, <2>2 DEF SinglePushed
<1> QED
  BY <1>1, <1>3 DEF Built

LEMMA BuiltKept ==
    ASSUME NEW s, NEW u, StorageOK(u), NEW e, StorageOK(e), Evolved(u, e),
           NEW q \in Singles, NEW c \in Coins, NEW b, Built(s, u, q, c, b), e[q][c] = u[q][c]
    PROVE  Built(s, e, q, c, b)
<1>1. \A id : Within(e, q, c, id) <=> Within(u, q, c, id)
  BY DEF Within
<1>2. \A id : Within(e, q, c, id) => e.work[id].block = u.work[id].block
  BY <1>1, BlocksKept
<1> QED
  BY <1>1, <1>2 DEF Built

LEMMA BuiltFrom ==
    ASSUME NEW s, StorageOK(s), NEW u, StorageOK(u), NEW e, Evolved(s, u), StorageOK(e),
           NEW q \in Singles, NEW c \in Coins, NEW b, Built(u, e, q, c, b), u[q][c] = s[q][c]
    PROVE  Built(s, e, q, c, b)
<1>1. ASSUME NEW id, Within(e, q, c, id)
      PROVE  /\ e.work[id].block[c] = b
             /\ \/ id > s.lastId
                \/ Within(s, q, c, id) /\ Len(s[q][c]) > 0 /\ s.work[Newest(s, q, c)].block[c] = b
  <2>1. CASE id > u.lastId
    <3>1. id \in DOMAIN e.work
      BY <1>1 DEF Seqs, Within, StorageOK, HeldOnce
    <3>2. id \in Nat /\ u.lastId \in Nat /\ s.lastId \in Nat /\ s.lastId <= u.lastId
      BY <3>1, IdIs DEF StorageOK, Shape, Evolved
    <3>3. id > s.lastId
      BY <2>1, <3>2
    <3> QED
      BY <1>1, <3>3 DEF Built
  <2>2. CASE Within(u, q, c, id) /\ Len(u[q][c]) > 0 /\ u.work[Newest(u, q, c)].block[c] = b
    <3>1. Within(s, q, c, id) /\ Len(s[q][c]) > 0
      BY <2>2 DEF Within
    <3>2. Newest(u, q, c) = Newest(s, q, c) /\ Within(u, q, c, Newest(u, q, c)) /\ Within(s, q, c, Newest(s, q, c))
      BY <2>2, <3>1, NewestWithin DEF Newest, Seqs
    <3>3. u.work[Newest(u, q, c)].block = s.work[Newest(s, q, c)].block
      BY <3>2, BlocksKept
    <3> QED
      BY <1>1, <2>2, <3>1, <3>3 DEF Built
  <2> QED
    BY <1>1, <2>1, <2>2 DEF Built
<1> QED
  BY <1>1 DEF Built

LEMMA SameBlockKept ==
    ASSUME NEW s, StorageOK(s), NEW u, StorageOK(u), Evolved(s, u),
           NEW q \in Singles, NEW c \in Coins, u[q][c] = s[q][c], SameBlock(s, q, c)
    PROVE  SameBlock(u, q, c)
<1> SUFFICES ASSUME NEW i \in 1 .. Len(u[q][c])
             PROVE  u.work[u[q][c][i]].block[c] = u.work[Newest(u, q, c)].block[c]
  BY DEF SameBlock
<1>1. Len(s[q][c]) \in Nat /\ i \in 1 .. Len(s[q][c])
  BY SeqShape DEF StorageOK, Seqs
<1>2. Len(s[q][c]) > 0 /\ Newest(u, q, c) = Newest(s, q, c)
  BY <1>1 DEF Newest
<1>3. Within(s, q, c, Newest(s, q, c)) /\ Within(u, q, c, Newest(s, q, c))
  BY <1>2, NewestWithin DEF Seqs, Within
<1>4. Within(s, q, c, s[q][c][i]) /\ Within(u, q, c, s[q][c][i])
  BY <1>1 DEF Within
<1>5. u.work[Newest(s, q, c)].block = s.work[Newest(s, q, c)].block
  BY <1>3, BlocksKept
<1>6. u.work[s[q][c][i]].block = s.work[s[q][c][i]].block
  BY <1>4, BlocksKept
<1> QED
  BY <1>1, <1>2, <1>5, <1>6 DEF SameBlock

\* One of the two pushes of a template, if the coin has the sequence.
Half(s, e, q, c, b) ==
    /\ Grown(s, e, c)
    /\ \A r \in Singles : r # q => e[r][c] = s[r][c]
    /\ IF c \in s.inst[q] THEN Built(s, e, q, c, b) /\ SharesAfter(s, e, q, c, b)
       ELSE e[q][c] = s[q][c] /\ SameShares(s, e, c)

LEMMA HalfNot ==
    ASSUME NEW s, StorageOK(s), NEW q \in Singles, NEW c \in Coins, c \notin s.inst[q], NEW b
    PROVE  Half(s, s, q, c, b)
  BY GrownNot DEF Half, SameShares

LEMMA HalfPushed ==
    ASSUME NEW s, StorageOK(s), NEW q \in Singles, NEW c \in Coins, c \in s.inst[q], NEW b, SameBlock(s, q, c),
           NEW u, SinglePushed(s, u, q, c, b),
           NEW e, StorageOK(e), Evolved(u, e), Grown(u, e, c),
           \A r \in Singles, d \in Coins : e[r][d] = u[r][d], SameShares(u, e, c)
    PROVE  Half(s, e, q, c, b)
<1>1. StorageOK(u) /\ Built(s, u, q, c, b) /\ Grown(s, u, c)
  BY BuiltBySingle, GrownBySingle DEF SinglePushed
<1>2. Built(s, e, q, c, b)
  BY <1>1, BuiltKept
<1>3. Grown(s, e, c)
  BY <1>1, GrownTwice
<1>4. \A r \in Singles : r # q => e[r][c] = s[r][c]
  BY DEF SinglePushed, Changed, OnlyIn, Seqs
<1>5. SharesAfter(s, e, q, c, b)
  BY DEF SinglePushed, SharesAfter, SameShares, NoShares
<1> QED
  BY <1>2, <1>3, <1>4, <1>5 DEF Half

\* What a template of coin c for block b makes of a storage.
Moved(s, c, b) == \E q \in Singles : c \in s.inst[q] /\ Replaced(s, q, c, b)
Created(s, e, c, b) ==
    /\ Grown(s, e, c)
    /\ \A q \in Singles : IF c \in s.inst[q] THEN Built(s, e, q, c, b) ELSE e[q][c] = s[q][c]
    /\ IF Moved(s, c, b) THEN NoShares(e, c) ELSE SameShares(s, e, c)

LEMMA TwoHalves ==
    ASSUME NEW s, StorageOK(s), NEW c \in Coins, NEW b, NEW u, Half(s, u, "primary", c, b),
           NEW e, Half(u, e, "secondary", c, b)
    PROVE  Created(s, e, c, b)
<1>1. /\ StorageOK(u) /\ StorageOK(e) /\ Evolved(s, u) /\ Evolved(u, e) /\ Grown(s, u, c) /\ Grown(u, e, c)
      /\ u.inst = s.inst
  BY DEF Half, Grown, Evolved
<1>2. "primary" \in Singles /\ "secondary" \in Singles /\ \A q \in Singles : q = "primary" \/ q = "secondary"
  BY DEF Singles
<1>3. e["primary"][c] = u["primary"][c] /\ u["secondary"][c] = s["secondary"][c]
  BY <1>2 DEF Half
<1>4. Grown(s, e, c)
  BY <1>1, GrownTwice
<1>5. IF c \in s.inst["primary"] THEN Built(s, e, "primary", c, b) ELSE e["primary"][c] = s["primary"][c]
  BY <1>1, <1>2, <1>3, BuiltKept DEF Half
<1>6. IF c \in s.inst["secondary"] THEN Built(s, e, "secondary", c, b) ELSE e["secondary"][c] = s["secondary"][c]
  BY <1>1, <1>2, <1>3, BuiltFrom DEF Half
<1>7. IF c \in s.inst["primary"] /\ Replaced(s, "primary", c, b) THEN NoShares(u, c) ELSE SameShares(s, u, c)
  BY DEF Half, SharesAfter
<1>8. IF c \in s.inst["secondary"] /\ Replaced(u, "secondary", c, b) THEN NoShares(e, c) ELSE SameShares(u, e, c)
  BY <1>1 DEF Half, SharesAfter
<1>9. IF Moved(s, c, b) THEN NoShares(e, c) ELSE SameShares(s, e, c)
  <2>1. Replaced(u, "secondary", c, b) <=> Replaced(s, "secondary", c, b)
    <3> SUFFICES ASSUME Len(s["secondary"][c]) > 0
                 PROVE  Replaced(u, "secondary", c, b) <=> Replaced(s, "secondary", c, b)
      BY <1>3 DEF Replaced
    <3> DEFINE i == Newest(u, "secondary", c)
    <3>1. i = Newest(s, "secondary", c) /\ Within(u, "secondary", c, i) /\ Within(s, "secondary", c, i)
      BY <1>1, <1>3, NewestWithin DEF Newest, Within, Seqs, Singles
    <3>2. u.work[i].block = s.work[i].block
      BY <1>1, <1>2, <3>1, BlocksKept
    <3> QED
      BY <1>3, <3>1, <3>2 DEF Replaced
  <2>2. Moved(s, c, b) <=> (\/ (c \in s.inst["primary"] /\ Replaced(s, "primary", c, b))
                           \/ (c \in s.inst["secondary"] /\ Replaced(s, "secondary", c, b)))
    BY <1>2 DEF Moved
  <2> QED
    BY <1>7, <1>8, <2>1, <2>2 DEF SameShares, NoShares
<1>10. \A q \in Singles : IF c \in s.inst[q] THEN Built(s, e, q, c, b) ELSE e[q][c] = s[q][c]
  BY <1>2, <1>5, <1>6
<1> QED
  BY <1>4, <1>9, <1>10 DEF Created

LEMMA CreateWorkDoes ==
    ASSUME NEW s, StorageOK(s), NEW c \in Coins, NEW b \in Blocks,
           SameBlock(s, "primary", c), SameBlock(s, "secondary", c)
    PROVE  Created(s, CreateWork(s, c, b), c, b)
<1> DEFINE a == PushSingleWork(s, "primary", c, b)
           s1 == IF c \in s.inst.primary THEN PushMergedWork(a, c) ELSE s
           d == PushSingleWork(s1, "secondary", c, b)
           e == CreateWork(s, c, b)
<1>1. e = IF c \in s.inst.secondary THEN UpdateMerged(d) ELSE s1
  BY DEF CreateWork
<1>2. "primary" \in Singles /\ "secondary" \in Singles /\ "primary" \in Seqs /\ "secondary" \in Seqs
  BY DEF Singles, Seqs
<1>3. Half(s, s1, "primary", c, b)
  <2>1. CASE c \notin s.inst.primary
    BY <1>2, <2>1, HalfNot
  <2>2. CASE c \in s.inst.primary
    <3>1. SinglePushed(s, a, "primary", c, b)
      BY <1>2, PushSingleWorkDoes
    <3> HIDE DEF a
    <3>2. StorageOK(a) /\ Len(a["primary"][c]) > 0
      BY <3>1 DEF SinglePushed
    <3>3. a.primary[c] # <<>>
      BY <3>2
    <3>4. MergedPushed(a, s1, c)
      BY <2>2, <3>2, <3>3, PushMergedWorkDoes
    <3> HIDE DEF s1
    <3>5. Grown(a, s1, c) /\ \A q \in Singles, k \in Coins : s1[q][k] = a[q][k]
      BY <3>2, <3>4, GrownByMerged
    <3>6. SameShares(a, s1, c) /\ StorageOK(s1) /\ Evolved(a, s1)
      BY <3>4 DEF MergedPushed, SameShares
    <3> QED
      BY <1>2, <2>2, <3>1, <3>5, <3>6, HalfPushed
  <2> QED
    BY <2>1, <2>2
<1> HIDE DEF s1, e
<1>4. StorageOK(s1) /\ Evolved(s, s1) /\ s1.inst = s.inst /\ s1["secondary"][c] = s["secondary"][c]
  BY <1>2, <1>3 DEF Half, Grown, Evolved
<1>5. SameBlock(s1, "secondary", c)
  BY <1>2, <1>4, SameBlockKept
<1>6. Half(s1, e, "secondary", c, b)
  <2>1. CASE c \notin s.inst.secondary
    BY <1>1, <1>2, <1>4, <2>1, HalfNot
  <2>2. CASE c \in s.inst.secondary
    <3>1. SinglePushed(s1, d, "secondary", c, b)
      BY <1>2, <1>4, PushSingleWorkDoes
    <3> HIDE DEF d
    <3>2. StorageOK(d)
      BY <3>1 DEF SinglePushed
    <3>3. Renewed(d, e, d.inst.primary)
      BY <1>1, <2>2, <3>2, UpdateMergedDoes
    <3>4. Grown(d, e, c) /\ \A q \in Singles, k \in Coins : e[q][k] = d[q][k]
      BY <3>2, <3>3, GrownByRenewal
    <3>5. SameShares(d, e, c) /\ StorageOK(e) /\ Evolved(d, e)
      BY <3>3 DEF Renewed, SameShares
    <3> QED
      BY <1>2, <1>4, <1>5, <2>2, <3>1, <3>4, <3>5, HalfPushed
  <2> QED
    BY <2>1, <2>2
<1> QED
  BY <1>3, <1>6, TwoHalves DEF e

----------------------------------------------------------------------------
(* What every storage keeps true, whatever templates come.                 *)

\* The works of a coin are for one block, and they are in the sequences that
\* the instance uses.
OneBlock(s) ==
    /\ \A q, r \in Singles, c \in Coins : \A i, j :
           Within(s, q, c, i) /\ Within(s, r, c, j) => s.work[i].block[c] = s.work[j].block[c]
    /\ \A q \in Singles, c \in Coins : c \notin s.inst[q] => Len(s[q][c]) = 0

Sound(s) == StorageOK(s) /\ OneBlock(s)

LEMMA EmptyIsSound ==
    ASSUME NEW i \in Instances
    PROVE  Sound(EmptyStorage(i)) /\ EmptyStorage(i).inst = i
<1> DEFINE s == EmptyStorage(i)
<1>1. /\ DOMAIN s = Fields /\ s.inst = i /\ s.lastId = 0 /\ s.byId = {} /\ s.current = NoWork
      /\ s.work = [id \in {} |-> NoWork]
      /\ s.primary = [c \in Coins |-> <<>>] /\ s.secondary = [c \in Coins |-> <<>>]
      /\ s.merged = [c \in Coins |-> <<>>]
      /\ DOMAIN s.known = Coins /\ DOMAIN s.accepted = Coins /\ DOMAIN s.pending = Coins
  BY DEF EmptyStorage, Fields
<1> HIDE DEF s
<1>2. <<>> \in Seq(Nat) /\ Len(<<>>) = 0
  OBVIOUS
<1>3. Shape(s)
  BY <1>1, <1>2 DEF Shape
<1>4. \A q \in Seqs, c \in Coins : Len(s[q][c]) = 0
  BY <1>1, <1>2 DEF Seqs, Singles
<1>5. \A q \in Singles, c \in Coins : Len(s[q][c]) = 0
  BY <1>4 DEF Seqs
<1>6. DOMAIN s.work = {}
  BY <1>1
<1>7. IdsKnown(s)
  BY <1>1, <1>6 DEF IdsKnown
<1>8. HeldOnce(s)
  BY <1>4, <1>6 DEF HeldOnce
<1>9. LinksOK(s)
  BY <1>6 DEF LinksOK
<1>10. SinglesOK(s)
  BY <1>5 DEF SinglesOK
<1>11. MergedOK(s)
  BY <1>1, <1>2 DEF MergedOK
<1>12. OneBlock(s)
  BY <1>5 DEF OneBlock, Within
<1> QED
  BY <1>1, <1>3, <1>7, <1>8, <1>9, <1>10, <1>11, <1>12 DEF Sound, StorageOK, s

LEMMA AlikeSound ==
    ASSUME NEW s, Sound(s), NEW e, Shape(e), Alike(s, e), e.current \in DOMAIN e.work \cup {NoWork}
    PROVE  Sound(e)
<1>1. StorageOK(e) /\ \A q \in Singles : e[q] = s[q]
  BY AlikeKeeps DEF Sound, Seqs
<1>2. \A q \in Singles, c \in Coins : e[q][c] = s[q][c]
  BY <1>1
<1>3. e.work = s.work /\ e.inst = s.inst
  BY DEF Alike
<1>4. \A q \in Singles, c \in Coins : \A id : Within(e, q, c, id) <=> Within(s, q, c, id)
  BY <1>2 DEF Within
<1>5. OneBlock(s)
  BY DEF Sound
<1>6. OneBlock(e)
  BY <1>2, <1>3, <1>4, <1>5 DEF OneBlock
<1> QED
  BY <1>1, <1>6 DEF Sound

LEMMA OneBlockIsSame ==
    ASSUME NEW s, Sound(s), NEW q \in Singles, NEW c \in Coins
    PROVE  SameBlock(s, q, c)
<1> SUFFICES ASSUME NEW i \in 1 .. Len(s[q][c])
             PROVE  s.work[s[q][c][i]].block[c] = s.work[Newest(s, q, c)].block[c]
  BY DEF SameBlock
<1>1. Len(s[q][c]) \in Nat
  BY SeqShape DEF Sound, StorageOK, Seqs
<1>2. Len(s[q][c]) > 0
  BY <1>1
<1>3. Within(s, q, c, Newest(s, q, c)) /\ Within(s, q, c, s[q][c][i])
  BY <1>2, NewestWithin DEF Sound, Seqs, Within
<1> QED
  BY <1>3 DEF Sound, OneBlock

\* A template keeps a storage sound.
LEMMA CreateWorkSound ==
    ASSUME NEW s, Sound(s), NEW c \in Coins, NEW b \in Blocks
    PROVE  Created(s, CreateWork(s, c, b), c, b) /\ Sound(CreateWork(s, c, b))
<1> DEFINE e == CreateWork(s, c, b)
<1>1. Created(s, e, c, b)
  BY OneBlockIsSame, CreateWorkDoes DEF Sound, Singles
<1> HIDE DEF e
<1>2. StorageOK(e) /\ Evolved(s, e) /\ StorageOK(s) /\ SinglesOfOthers(s, e, c) /\ e.inst = s.inst
  BY <1>1 DEF Created, Grown, Sound, Evolved
<1>3. ASSUME NEW q \in Singles, NEW d \in Coins, d \notin e.inst[q]
      PROVE  Len(e[q][d]) = 0
  <2>1. Len(s[q][d]) = 0
    BY <1>2, <1>3 DEF Sound, OneBlock
  <2>2. e[q][d] = s[q][d]
    <3>1. CASE d # c
      BY <1>2, <3>1 DEF SinglesOfOthers
    <3>2. CASE d = c
      BY <1>1, <1>2, <1>3, <3>2 DEF Created
    <3> QED
      BY <3>1, <3>2
  <2> QED
    BY <2>1, <2>2
<1>4. ASSUME NEW q \in Singles, NEW id, Within(e, q, c, id)
      PROVE  e.work[id].block[c] = b
  <2>1. c \in s.inst[q]
    <3> SUFFICES ASSUME c \notin e.inst[q] PROVE FALSE
      BY <1>2
    <3>1. Len(e[q][c]) = 0
      BY <1>3
    <3> QED
      BY <1>4, <3>1 DEF Within
  <2> QED
    BY <1>1, <1>4, <2>1 DEF Created, Built
<1>5. ASSUME NEW q \in Singles, NEW r \in Singles, NEW d \in Coins, NEW i, NEW j,
             Within(e, q, d, i), Within(e, r, d, j)
      PROVE  e.work[i].block[d] = e.work[j].block[d]
  <2>1. CASE d = c
    BY <1>4, <1>5, <2>1
  <2>2. CASE d # c
    <3>1. Within(s, q, d, i) /\ Within(s, r, d, j)
      BY <1>2, <1>5, <2>2 DEF SinglesOfOthers, Within
    <3>2. e.work[i].block = s.work[i].block
      BY <1>2, <1>5, <3>1, BlocksKept
    <3>3. e.work[j].block = s.work[j].block
      BY <1>2, <1>5, <3>1, BlocksKept
    <3> QED
      BY <3>1, <3>2, <3>3 DEF Sound, OneBlock
  <2> QED
    BY <2>1, <2>2
<1> QED
  BY <1>1, <1>2, <1>3, <1>5 DEF Sound, OneBlock, e

----------------------------------------------------------------------------
(* Types.                                                                  *)

Hashes ==
    [thread : Threads, blocks : UNION {[D -> Blocks] : D \in SUBSET Coins}, version : Versions, nonce : Nonces]
BlockIds == Hashes \cup [block : Blocks, version : Versions]
SentShares == [hash : Hashes, at : Nat]
Shares == [hash : Hashes, at : Nat, block : Blocks, turn : Nat, sent : BOOLEAN]
Works == [kind : {"work"}, info : Blocks \cup {NoBlock}, shares : Seq(Shares)]
Found ==
    [kind : {"block"}, block : BlockIds, hash : Hashes, at : Nat, thread : Threads, others : SUBSET Coins]
Merges == [kind : {"merged"}, hash : Hashes, from : Coins]
Entries == Works \cup Found \cup Merges
Pending == [id : Nat, share : SentShares]
Ops(i) ==
    [thread : Threads, coin : Coins, hash : Hashes, at : Nat, block : BlockIds, others : SUBSET Coins,
     nth : Nat, waits : SUBSET i.nodes, ok : Nat]
Turns == [block : Blocks \cup {NoBlock}, n : Nat]

\* The works of a thread.
StoreOK(i, s) == Sound(s) /\ s.inst = i /\ \A c \in Coins : s.pending[c] = NoShare \/ s.pending[c] \in Pending

\* Where merged blocks wait to be linked.
NoteType == [hasBlock : BOOLEAN, block : BlockIds \cup {NoBlock}, pending : SUBSET Coins]

NotesOK(n, l) ==
    /\ \A h \in DOMAIN n : n[h] \in NoteType
    /\ \A b \in DOMAIN l : l[b] \in SUBSET Coins
    /\ \A h \in DOMAIN n : n[h].hasBlock => n[h].block \in DOMAIN l

TypeOK ==
    /\ inst \in Instances /\ running \in BOOLEAN /\ shares \in Nat /\ templates \in Nat /\ sends \in Nat
    /\ tasks \in [Threads -> Seq([coin : Coins, block : Blocks])]
    /\ DOMAIN store = Threads /\ \A t \in Threads : StoreOK(inst, store[t])
    /\ jobs \in [Threads -> SUBSET Nat] /\ turn \in [Threads -> [Coins -> Turns]]
    /\ info \in [Threads -> [Coins -> Blocks \cup {NoBlock}]]
    /\ acc \in [Threads -> [Coins -> Seq(Shares)]]
    /\ submits \subseteq Ops(inst)
    /\ nodeHas \in [inst.nodes -> SUBSET (Coins \X BlockIds)]
    /\ queue \in [Coins -> Seq(Entries)] /\ ledger \in [Coins -> Seq(Entries)]
    /\ DOMAIN notes = Coins /\ DOMAIN linked = Coins
    /\ \A c \in Coins : NotesOK(notes[c], linked[c])

LEMMA Instance ==
    ASSUME TypeOK
    PROVE  /\ inst.primary \subseteq Coins /\ inst.secondary \subseteq Coins /\ inst.rtt \subseteq Coins
           /\ MainWorkSource \in inst.primary
<1>1. /\ inst.primary \in (SUBSET Coins) \ {{}} /\ inst.secondary \subseteq Coins /\ inst.rtt \subseteq inst.primary
      /\ Coins \subseteq Nat /\ IsFiniteSet(Coins)
  BY StorageAssumptions, StratumAssumptions DEF TypeOK
<1>2. IsFiniteSet(inst.primary) /\ inst.primary # {} /\ inst.primary \subseteq Nat
  BY <1>1, FS_Subset
<1>3. Min(inst.primary) \in inst.primary
  BY <1>2, MinExists
<1> QED
  BY <1>1, <1>3 DEF MainWorkSource

LEMMA FlushTypes ==
    ASSUME queue \in [Coins -> Seq(Entries)], acc \in [Threads -> [Coins -> Seq(Shares)]],
           info \in [Threads -> [Coins -> Blocks \cup {NoBlock}]],
           NEW t \in Threads, NEW C, NEW then \in Seq(Entries), Flush(t, C, then)
    PROVE  queue' \in [Coins -> Seq(Entries)] /\ acc' \in [Threads -> [Coins -> Seq(Shares)]]
<1>1. ASSUME NEW c \in Coins PROVE TakeBatch(t, c) \in Seq(Entries)
  <2>1. Batch(t, c) \in Works
    BY DEF Batch, Works
  <2>2. Batch(t, c) \in Entries
    BY <2>1 DEF Entries
  <2> QED
    BY <2>2 DEF TakeBatch
<1>2. ASSUME NEW c \in Coins
      PROVE  (IF c \in C THEN queue[c] \o TakeBatch(t, c) \o then ELSE queue[c]) \in Seq(Entries)
  <2> DEFINE b == TakeBatch(t, c)
  <2>1. b \in Seq(Entries) /\ queue[c] \in Seq(Entries)
    BY <1>1
  <2> HIDE DEF b
  <2>2. queue[c] \o b \in Seq(Entries)
    BY <2>1
  <2>3. (queue[c] \o b) \o then \in Seq(Entries)
    BY <2>2
  <2> QED
    BY <2>1, <2>3 DEF b
<1>3. queue' \in [Coins -> Seq(Entries)]
  BY <1>2 DEF Flush
<1>4. acc' \in [Threads -> [Coins -> Seq(Shares)]]
  BY DEF Flush
<1> QED
  BY <1>3, <1>4

\* The work that fetchWork finds is there.
LEMMA Fetched ==
    ASSUME NEW s, StorageOK(s), NEW c \in Coins, FetchWork(s, c) # NoWork
    PROVE  /\ FetchWork(s, c) \in DOMAIN s.work
           /\ FetchWork(s, c) =
                 IF s.merged[c] # <<>> THEN Newest(s, "merged", c) ELSE Newest(s, "primary", c)
<1>1. "merged" \in Seqs /\ "primary" \in Seqs
  BY DEF Seqs, Singles
<1>2. CASE s.merged[c] # <<>>
  <2>1. Last(s.merged[c]) = Newest(s, "merged", c) /\ Newest(s, "merged", c) \in DOMAIN s.work
    BY <1>1, <1>2, NewestHeld
  <2> QED
    BY <1>2, <2>1 DEF FetchWork
<1>3. CASE s.merged[c] = <<>>
  <2>1. s.primary[c] # <<>>
    BY <1>3 DEF FetchWork
  <2>2. Last(s.primary[c]) = Newest(s, "primary", c) /\ Newest(s, "primary", c) \in DOMAIN s.work
    BY <1>1, <2>1, NewestHeld
  <2> QED
    BY <1>3, <2>1, <2>2 DEF FetchWork
<1> QED
  BY <1>2, <1>3

\* What the thread makes of its works: nothing, or works with the template.
Loaded(t, e) ==
    \/ e = store[t] /\ turn' = turn
    \/ \E c \in Coins, b \in Blocks :
          /\ Created(store[t], e, c, b) /\ e = CreateWork(store[t], c, b) /\ turn' = Turned(t, c, b)

\* The works are those of e.
Stored(t, e) ==
    /\ DOMAIN store' = Threads /\ \A u \in Threads : u # t => store'[u] = store[u]
    /\ Alike(e, store'[t]) /\ Sound(store'[t])
    /\ store'[t].accepted = e.accepted /\ store'[t].pending = e.pending

\* Nothing is sent to the miners.
NotSent(t, e) == store'[t].known = e.known /\ UNCHANGED <<jobs, info, acc, queue>>

\* Work w is.
Sent(t, e, w) ==
    /\ w \in DOMAIN e.work /\ \E p \in inst.primary : w = FetchWork(e, p)
    /\ Flush(t, StaleAccumulators(e), <<>>)
    /\ info' = [info EXCEPT ![t] =
                  [c \in Coins |-> IF c \in CoinsOf(e.work[w]) THEN e.work[w].block[c] ELSE @[c]]]
    /\ jobs' = [jobs EXCEPT ![t] = @ \cup {w}]
    /\ store'[t].known = [c \in Coins |-> e.known[c] \/ c \in CoinsOf(e.work[w])]

LEMMA SelectWorkDoes ==
    ASSUME TypeOK, NEW t \in Threads, NEW e, Sound(e), SelectWork(t, e)
    PROVE  Stored(t, e) /\ (NotSent(t, e) \/ \E w : Sent(t, e, w))
<1> DEFINE best == Candidates(e)
<1>2. DOMAIN store = Threads
  BY DEF TypeOK
<1>4. \/ /\ store' = [store EXCEPT ![t] = e]
         /\ UNCHANGED <<jobs, info, acc, queue>>
      \/ \E w \in best \ {e.current} :
           /\ Flush(t, StaleAccumulators(e), <<>>)
           /\ info' = [info EXCEPT ![t] =
                 [d \in Coins |-> IF d \in CoinsOf(e.work[w]) THEN e.work[w].block[d] ELSE @[d]]]
           /\ jobs' = [jobs EXCEPT ![t] = @ \cup {w}]
           /\ store' = [store EXCEPT ![t] =
                 [e EXCEPT !.current = w,
                           !.known = [d \in Coins |-> @[d] \/ d \in CoinsOf(e.work[w])]]]
  BY DEF SelectWork
<1>5. CASE store' = [store EXCEPT ![t] = e] /\ UNCHANGED <<jobs, info, acc, queue>>
  <2>1. store'[t] = e /\ DOMAIN store' = Threads /\ \A u \in Threads : u # t => store'[u] = store[u]
    BY <1>2, <1>5
  <2> QED
    BY <1>5, <2>1 DEF Stored, NotSent, Alike
<1>6. ASSUME NEW w \in best \ {e.current},
             Flush(t, StaleAccumulators(e), <<>>),
             info' = [info EXCEPT ![t] =
                 [d \in Coins |-> IF d \in CoinsOf(e.work[w]) THEN e.work[w].block[d] ELSE @[d]]],
             jobs' = [jobs EXCEPT ![t] = @ \cup {w}],
             store' = [store EXCEPT ![t] =
                 [e EXCEPT !.current = w,
                           !.known = [d \in Coins |-> @[d] \/ d \in CoinsOf(e.work[w])]]]
      PROVE  Stored(t, e) /\ Sent(t, e, w)
  <2> DEFINE z == [e EXCEPT !.current = w, !.known = [d \in Coins |-> @[d] \/ d \in CoinsOf(e.work[w])]]
  <2>1. store'[t] = z /\ DOMAIN store' = Threads /\ \A u \in Threads : u # t => store'[u] = store[u]
    BY <1>2, <1>6
  <2>2. Shape(e)
    BY DEF Sound, StorageOK
  <2>3. /\ Alike(e, z) /\ DOMAIN z = Fields /\ z.current = w
        /\ z.accepted = e.accepted /\ z.pending = e.pending
        /\ z.known = [d \in Coins |-> e.known[d] \/ d \in CoinsOf(e.work[w])]
    BY <2>2 DEF Shape, Fields, Alike
  <2> HIDE DEF z
  <2>4. Shape(z)
    BY <2>2, <2>3 DEF Shape, Alike
  <2>5. \E p \in inst.primary : w = FetchWork(e, p) /\ w # NoWork
    <3>1. MainWorkSource \in inst.primary
      BY Instance
    <3>2. Candidates(e) \subseteq {FetchWork(e, p) : p \in inst.primary} \ {NoWork}
      <4>1. Sound(e)
        OBVIOUS
      <4>2. CASE e.inst.switcher
        BY <3>1 DEF Candidates
      <4>3. CASE ~e.inst.switcher
        BY <3>1 DEF Candidates
      <4> QED
        BY <4>2, <4>3
    <3> QED
      BY <3>2
  <2>6. PICK p \in inst.primary : w = FetchWork(e, p) /\ w # NoWork
    BY <2>5
  <2>7. p \in Coins
    BY Instance
  <2>8. w \in DOMAIN e.work
    BY <2>6, <2>7, Fetched DEF Sound
  <2>9. Sound(z)
    BY <2>3, <2>4, <2>8, AlikeSound DEF Alike
  <2>10. Stored(t, e)
    BY <2>1, <2>3, <2>9 DEF Stored
  <2> QED
    BY <1>6, <2>1, <2>3, <2>6, <2>8, <2>10 DEF Sent
<1> QED
  BY <1>4, <1>5, <1>6

LEMMA AcceptWorkDoes ==
    ASSUME TypeOK, NEW t \in Threads, AcceptWork(t)
    PROVE  \E e : Loaded(t, e) /\ Sound(e) /\ Stored(t, e) /\ (NotSent(t, e) \/ \E w : Sent(t, e, w))
<1> DEFINE s == store[t]
           c == Head(tasks[t]).coin
           b == Head(tasks[t]).block
           e == CreateWork(s, c, b)
<1>1. c \in Coins /\ b \in Blocks
  <2>1. tasks[t] \in Seq([coin : Coins, block : Blocks]) /\ tasks[t] # <<>>
    BY DEF TypeOK, AcceptWork
  <2>2. Head(tasks[t]) \in [coin : Coins, block : Blocks]
    BY <2>1, HeadTailProperties
  <2> QED
    BY <2>2
<1>2. Sound(s) /\ s.inst = inst /\ DOMAIN store = Threads
  BY DEF TypeOK, StoreOK
<1>3. Created(s, e, c, b) /\ Sound(e)
  <2> HIDE DEF s, c, b
  <2> QED
    BY <1>1, <1>2, CreateWorkSound
<1>4. \/ UNCHANGED <<store, jobs, turn, info, acc, queue>>
      \/ SelectWork(t, s) /\ UNCHANGED turn
      \/ SelectWork(t, e) /\ turn' = Turned(t, c, b)
  BY DEF AcceptWork
<1> HIDE DEF e, b, c
<1>5. CASE UNCHANGED <<store, jobs, turn, info, acc, queue>>
  <2>1. Stored(t, s) /\ NotSent(t, s)
    BY <1>2, <1>5 DEF Stored, NotSent, Alike
  <2> QED
    BY <1>2, <1>5, <2>1 DEF Loaded
<1>6. CASE SelectWork(t, s) /\ UNCHANGED turn
  <2>1. Stored(t, s) /\ (NotSent(t, s) \/ \E w : Sent(t, s, w))
    BY <1>2, <1>6, SelectWorkDoes
  <2> QED
    BY <1>2, <1>6, <2>1 DEF Loaded
<1>7. CASE SelectWork(t, e) /\ turn' = Turned(t, c, b)
  <2>1. Stored(t, e) /\ (NotSent(t, e) \/ \E w : Sent(t, e, w))
    BY <1>3, <1>7, SelectWorkDoes
  <2>2. Loaded(t, e)
    BY <1>1, <1>3, <1>7 DEF Loaded, e
  <2> QED
    BY <1>3, <2>1, <2>2
<1> QED
  BY <1>4, <1>5, <1>6, <1>7

LEMMA CreatedShares ==
    ASSUME NEW s, NEW e, NEW c \in Coins, NEW b, Created(s, e, c, b), NEW d \in Coins
    PROVE  SameShares(s, e, d) \/ (d = c /\ NoShares(e, d))
  BY DEF Created, Grown, SharesOfOthers

LEMMA LoadedShares ==
    ASSUME NEW t \in Threads, NEW e, Loaded(t, e), NEW d \in Coins
    PROVE  SameShares(store[t], e, d) \/ NoShares(e, d)
<1>1. CASE e = store[t]
  BY <1>1 DEF SameShares
<1>2. CASE \E c \in Coins, b \in Blocks : Created(store[t], e, c, b)
  BY <1>2, CreatedShares
<1> QED
  BY <1>1, <1>2 DEF Loaded

\* The share that is submitted.
HashOf(t, id, v, nonce) ==
    [thread |-> t, blocks |-> store[t].work[id].block, version |-> v, nonce |-> nonce]
TheShare(t, id, v, nonce) == [hash |-> HashOf(t, id, v, nonce), at |-> shares + 1]

\* The works stay; the share is remembered and can become a pending one.
Noted(t, id, v, nonce, pend) ==
    LET s == store[t]
        e == store'[t]
    IN  /\ DOMAIN store' = Threads /\ \A u \in Threads : u # t => store'[u] = store[u]
        /\ Alike(s, e) /\ Sound(e) /\ e.known = s.known
        /\ \A c \in Coins : e.accepted[c] =
               IF c \in CoinsOf(s.work[id]) THEN s.accepted[c] \cup {HashOf(t, id, v, nonce)} ELSE s.accepted[c]
        /\ \A c \in Coins : e.pending[c] =
               IF c \in pend THEN [id |-> id, share |-> TheShare(t, id, v, nonce)] ELSE s.pending[c]

LEMMA SubmitNotes ==
    ASSUME TypeOK, NEW t \in Threads, NEW id, NEW v, NEW nonce, NEW good, NEW blocks, NEW pend,
           Submit(t, id, v, nonce, good, blocks, pend)
    PROVE  Noted(t, id, v, nonce, pend)
<1> DEFINE s == store[t]
           h == HashOf(t, id, v, nonce)
           z == UpdatePending(Remember(s, id, h), pend, id, TheShare(t, id, v, nonce))
<1>1. Sound(s) /\ DOMAIN store = Threads /\ Shape(s)
  BY DEF TypeOK, StoreOK, Sound, StorageOK
<1>2. store' = [store EXCEPT ![t] = z]
  BY DEF Submit, TheShare, HashOf
<1>3. /\ Alike(s, z) /\ DOMAIN z = Fields /\ z.known = s.known /\ z.current = s.current
      /\ z.accepted = [c \in Coins |-> IF c \in CoinsOf(s.work[id]) THEN s.accepted[c] \cup {h} ELSE s.accepted[c]]
      /\ z.pending = [c \in Coins |-> IF c \in pend THEN [id |-> id, share |-> TheShare(t, id, v, nonce)] ELSE s.pending[c]]
  BY <1>1 DEF Shape, Fields, Alike, UpdatePending, Remember
<1> HIDE DEF z
<1>4. Shape(z)
  BY <1>1, <1>3 DEF Shape, Alike
<1>5. Sound(z)
  <2>1. z.current \in DOMAIN z.work \cup {NoWork}
    BY <1>1, <1>3 DEF Alike, Sound, StorageOK, IdsKnown
  <2> QED
    BY <1>1, <1>3, <1>4, <2>1, AlikeSound
<1>6. store'[t] = z /\ DOMAIN store' = Threads /\ \A u \in Threads : u # t => store'[u] = store[u]
  BY <1>1, <1>2
<1> QED
  BY <1>3, <1>5, <1>6 DEF Noted

\* The works a thread has sent, and those it keeps.
LEMMA WorkType ==
    ASSUME NEW s, Sound(s), NEW id \in DOMAIN s.work
    PROVE  /\ IsWork(s.work[id]) /\ id \in Nat
           /\ CoinsOf(s.work[id]) \subseteq Coins /\ s.work[id].live \subseteq CoinsOf(s.work[id])
           /\ \A c \in CoinsOf(s.work[id]) : s.work[id].block[c] \in Blocks
<1>1. IsWork(s.work[id])
  BY DEF Sound, StorageOK, LinksOK
<1>2. id \in Nat
  BY IdIs DEF Sound
<1> QED
  BY <1>1, <1>2 DEF IsWork, CoinsOf

LEMMA TypeInit ==
    ASSUME Init
    PROVE  TypeOK
<1>1. /\ inst \in Instances /\ running \in BOOLEAN /\ shares \in Nat /\ templates \in Nat /\ sends \in Nat
      /\ turn \in [Threads -> [Coins -> Turns]]
      /\ jobs \in [Threads -> SUBSET Nat] /\ submits \subseteq Ops(inst)
      /\ info \in [Threads -> [Coins -> Blocks \cup {NoBlock}]]
      /\ nodeHas \in [inst.nodes -> SUBSET (Coins \X BlockIds)]
  BY DEF Init, Turns
<1>2. \A S : <<>> \in Seq(S)
  OBVIOUS
<1>3. /\ tasks \in [Threads -> Seq([coin : Coins, block : Blocks])]
      /\ queue \in [Coins -> Seq(Entries)] /\ ledger \in [Coins -> Seq(Entries)]
      /\ acc \in [Threads -> [Coins -> Seq(Shares)]]
  BY <1>2 DEF Init
<1>4. DOMAIN store = Threads /\ \A t \in Threads : StoreOK(inst, store[t])
  <2>1. EmptyStorage(inst).pending = [c \in Coins |-> NoShare]
    BY DEF EmptyStorage
  <2>2. StoreOK(inst, EmptyStorage(inst))
    BY <1>1, <2>1, EmptyIsSound DEF StoreOK
  <2> QED
    BY <2>2 DEF Init
<1>5. /\ DOMAIN notes = Coins /\ DOMAIN linked = Coins
      /\ \A c \in Coins : NotesOK(notes[c], linked[c])
  <2>1. DOMAIN <<>> = {}
    OBVIOUS
  <2>2. NotesOK(<<>>, <<>>)
    BY <2>1 DEF NotesOK
  <2> QED
    BY <2>2 DEF Init
<1> QED
  BY <1>1, <1>3, <1>4, <1>5 DEF TypeOK

LEMMA Entry ==
    ASSUME NEW e \in Entries
    PROVE  /\ e.kind \in {"work", "block", "merged"}
           /\ e.kind = "work" => e \in Works
           /\ e.kind = "block" => e \in Found
           /\ e.kind = "merged" => e \in Merges
  BY DEF Entries, Works, Found, Merges

LEMMA Heads ==
    ASSUME TypeOK, NEW c \in Coins, queue[c] # <<>>
    PROVE  /\ queue[c] \in Seq(Entries) /\ Head(queue[c]) \in Entries /\ Tail(queue[c]) \in Seq(Entries)
           /\ Len(queue[c]) \in Nat /\ Len(queue[c]) > 0 /\ Len(Tail(queue[c])) = Len(queue[c]) - 1
           /\ \A i \in 1 .. Len(queue[c]) - 1 : Tail(queue[c])[i] = queue[c][i + 1]
           /\ Head(queue[c]) = queue[c][1]
<1>1. queue[c] \in Seq(Entries)
  BY DEF TypeOK
<1>2. Len(queue[c]) \in Nat /\ Len(queue[c]) > 0
  BY <1>1
<1> QED
  BY <1>1, <1>2, HeadTailProperties

LEMMA NoteTypes ==
    ASSUME TypeOK, NEW c \in Coins, NEW h
    PROVE  /\ Note(c, h) \in NoteType
           /\ Note(c, h).hasBlock => h \in DOMAIN notes[c] /\ Note(c, h).block \in DOMAIN linked[c]
<1>1. NotesOK(notes[c], linked[c])
  BY DEF TypeOK
<1> QED
  BY <1>1 DEF NotesOK, Note, NoteType

LEMMA LinkTypes ==
    ASSUME TypeOK, NEW c \in Coins, NEW h, NEW row \in SUBSET Coins, NEW note \in NoteType,
           LinkMerged(c, h, row, note)
    PROVE  /\ DOMAIN notes' = Coins /\ DOMAIN linked' = Coins
           /\ \A d \in Coins : NotesOK(notes'[d], linked'[d])
<1> DEFINE z == [note EXCEPT !.pending = {}]
           l == With(linked[c], note.block, row \cup note.pending)
           n == With(notes[c], h, z)
<1>1. /\ linked' = [linked EXCEPT ![c] = l] /\ notes' = [notes EXCEPT ![c] = n]
  BY DEF LinkMerged
<1>2. z \in NoteType /\ row \cup note.pending \in SUBSET Coins
  BY DEF NoteType
<1>3. DOMAIN notes = Coins /\ DOMAIN linked = Coins /\ \A d \in Coins : NotesOK(notes[d], linked[d])
  BY DEF TypeOK
<1>4. NotesOK(n, l)
  <2>1. NotesOK(notes[c], linked[c])
    BY <1>3
  <2>2. /\ DOMAIN n = DOMAIN notes[c] \cup {h} /\ n[h] = z /\ \A g \in DOMAIN notes[c] : g # h => n[g] = notes[c][g]
        /\ DOMAIN l = DOMAIN linked[c] \cup {note.block} /\ l[note.block] = row \cup note.pending
        /\ \A g \in DOMAIN linked[c] : g # note.block => l[g] = linked[c][g]
    BY DEF With
  <2>3. z.block = note.block
    BY DEF NoteType
  <2> HIDE DEF z, n, l
  <2>4. \A g \in DOMAIN n : n[g] \in NoteType
    BY <1>2, <2>1, <2>2 DEF NotesOK
  <2>5. \A g \in DOMAIN l : l[g] \in SUBSET Coins
    BY <1>2, <2>1, <2>2 DEF NotesOK
  <2>6. \A g \in DOMAIN n : n[g].hasBlock => n[g].block \in DOMAIN l
    BY <2>1, <2>2, <2>3 DEF NotesOK
  <2> QED
    BY <2>4, <2>5, <2>6 DEF NotesOK
<1> HIDE DEF n, l
<1> QED
  BY <1>1, <1>3, <1>4

LEMMA TypeFrame ==
    ASSUME TypeOK, UNCHANGED <<inst, store, jobs, turn, info>>
    PROVE  /\ inst' \in Instances /\ DOMAIN store' = Threads /\ \A t \in Threads : StoreOK(inst', store'[t])
           /\ jobs' \in [Threads -> SUBSET Nat] /\ info' \in [Threads -> [Coins -> Blocks \cup {NoBlock}]]
           /\ turn' \in [Threads -> [Coins -> Turns]]
  BY DEF TypeOK

LEMMA TypeBackend ==
    ASSUME TypeOK, NEW c \in Coins, BackendStep(c)
    PROVE  TypeOK'
<1>1. UNCHANGED <<inst, running, work, acc, submits, nodeHas, shares, events>>
  BY DEF BackendStep, OnUserWorkSummary, OnBlockFound, OnMergedBlockNotification
<1>2. queue[c] # <<>>
  BY DEF BackendStep, OnUserWorkSummary, OnBlockFound, OnMergedBlockNotification
<1> DEFINE e == Head(queue[c])
<1>3. e \in Entries /\ Tail(queue[c]) \in Seq(Entries)
  BY <1>2, Heads
<1>4. queue \in [Coins -> Seq(Entries)] /\ ledger \in [Coins -> Seq(Entries)]
      /\ DOMAIN notes = Coins /\ DOMAIN linked = Coins /\ \A d \in Coins : NotesOK(notes[d], linked[d])
  BY DEF TypeOK
<1>5. /\ queue' \in [Coins -> Seq(Entries)] /\ ledger' \in [Coins -> Seq(Entries)]
      /\ DOMAIN notes' = Coins /\ DOMAIN linked' = Coins
      /\ \A d \in Coins : NotesOK(notes'[d], linked'[d])
  <2>1. CASE OnUserWorkSummary(c)
    <3>1. /\ ledger' = [ledger EXCEPT ![c] = Append(ledger[c], e)] /\ queue' = [queue EXCEPT ![c] = Tail(queue[c])]
          /\ UNCHANGED <<notes, linked>>
      BY <2>1 DEF OnUserWorkSummary
    <3> HIDE DEF e
    <3>2. Append(ledger[c], e) \in Seq(Entries)
      BY <1>3, <1>4
    <3> QED
      BY <1>3, <1>4, <3>1, <3>2
  <2>2. CASE OnBlockFound(c)
    <3>1. /\ e.kind = "block" /\ ledger' = [ledger EXCEPT ![c] = Append(ledger[c], e)]
          /\ LinkMerged(c, e.hash, {}, [Note(c, e.hash) EXCEPT !.hasBlock = TRUE, !.block = e.block])
          /\ queue' = [d \in Coins |->
              (IF d = c THEN Tail(queue[d]) ELSE queue[d])
                \o (IF d \in e.others THEN <<[kind |-> "merged", hash |-> e.hash, from |-> c]>> ELSE <<>>)]
      BY <2>2 DEF OnBlockFound
    <3> HIDE DEF e
    <3>2. e \in Found
      BY <1>3, <3>1, Entry
    <3>3. Append(ledger[c], e) \in Seq(Entries)
      BY <1>3, <1>4
    <3>4. ledger' \in [Coins -> Seq(Entries)]
      BY <1>4, <3>1, <3>3
    <3>5. ASSUME NEW d \in Coins
          PROVE  (IF d = c THEN Tail(queue[d]) ELSE queue[d])
                \o (IF d \in e.others THEN <<[kind |-> "merged", hash |-> e.hash, from |-> c]>> ELSE <<>>)
                   \in Seq(Entries)
      <4> DEFINE y == IF d = c THEN Tail(queue[d]) ELSE queue[d]
                 m == [kind |-> "merged", hash |-> e.hash, from |-> c]
                 z == IF d \in e.others THEN <<m>> ELSE <<>>
      <4>1. y \in Seq(Entries)
        BY <1>3, <1>4
      <4>2. m \in Entries
        BY <3>2 DEF Found, Entries, Merges
      <4>3. z \in Seq(Entries)
        <5> HIDE DEF m
        <5> QED
          BY <4>2
      <4> HIDE DEF y, z
      <4>4. y \o z \in Seq(Entries)
        BY <4>1, <4>3
      <4> QED
        BY <4>4 DEF y, z
    <3>6. queue' \in [Coins -> Seq(Entries)]
      BY <3>1, <3>5
    <3>7. [Note(c, e.hash) EXCEPT !.hasBlock = TRUE, !.block = e.block] \in NoteType
      <4>1. \A n \in NoteType : [n EXCEPT !.hasBlock = TRUE, !.block = e.block] \in NoteType
        BY <3>2 DEF NoteType, Found
      <4> QED
        BY <4>1, NoteTypes
    <3> QED
      BY <3>1, <3>4, <3>6, <3>7, LinkTypes
  <2>3. CASE OnMergedBlockNotification(c)
    <3> DEFINE note == [Note(c, e.hash) EXCEPT !.pending = @ \cup {e.from}]
    <3>1. /\ e.kind = "merged" /\ queue' = [queue EXCEPT ![c] = Tail(queue[c])] /\ ledger' = ledger
          /\ IF note.hasBlock THEN LinkMerged(c, e.hash, linked[c][note.block], note)
             ELSE notes' = [notes EXCEPT ![c] = With(@, e.hash, note)] /\ UNCHANGED linked
      BY <2>3 DEF OnMergedBlockNotification
    <3> HIDE DEF e
    <3>2. e \in Merges
      BY <1>3, <3>1, Entry
    <3>3. note \in NoteType /\ note.hasBlock = Note(c, e.hash).hasBlock /\ note.block = Note(c, e.hash).block
      BY <3>2, NoteTypes DEF NoteType, Merges
    <3> HIDE DEF note
    <3>4. queue' \in [Coins -> Seq(Entries)] /\ ledger' \in [Coins -> Seq(Entries)]
      BY <1>3, <1>4, <3>1
    <3>5. CASE note.hasBlock
      <4>1. linked[c][note.block] \in SUBSET Coins
        BY <1>4, <3>3, <3>5, NoteTypes DEF NotesOK
      <4> QED
        BY <3>1, <3>3, <3>4, <3>5, <4>1, LinkTypes
    <3>6. CASE ~note.hasBlock
      <4>1. notes' = [notes EXCEPT ![c] = With(notes[c], e.hash, note)] /\ linked' = linked
        BY <3>1, <3>6
      <4>2. NotesOK(With(notes[c], e.hash, note), linked[c])
        BY <1>4, <3>3, <3>6 DEF NotesOK, With, NoteType
      <4> QED
        BY <1>4, <3>4, <4>1, <4>2
    <3> QED
      BY <3>5, <3>6
  <2> QED
    BY <2>1, <2>2, <2>3 DEF BackendStep
<1> QED
  BY <1>1, <1>5, TypeFrame DEF TypeOK, work, events

LEMMA TypeAccept ==
    ASSUME TypeOK, NEW t \in Threads, AcceptWork(t)
    PROVE  TypeOK'
<1>1. PICK e : Loaded(t, e) /\ Sound(e) /\ Stored(t, e) /\ (NotSent(t, e) \/ \E w : Sent(t, e, w))
  BY AcceptWorkDoes
<1>2. UNCHANGED <<inst, running, submits, nodeHas, ledger, notes, linked, shares, events>>
      /\ tasks' = [tasks EXCEPT ![t] = Tail(tasks[t])]
  BY DEF AcceptWork
<1>6. turn' \in [Threads -> [Coins -> Turns]]
  <2>1. turn \in [Threads -> [Coins -> Turns]]
    BY DEF TypeOK
  <2>2. ASSUME NEW c \in Coins, NEW b \in Blocks, turn' = Turned(t, c, b) PROVE turn' \in [Threads -> [Coins -> Turns]]
    <3> DEFINE x == IF turn[t][c].block = b THEN turn[t][c] ELSE [block |-> b, n |-> turn[t][c].n + 1]
    <3>1. x \in Turns
      BY <2>1 DEF Turns
    <3>2. turn' = [turn EXCEPT ![t][c] = x]
      BY <2>2 DEF Turned
    <3> HIDE DEF x
    <3> QED
      BY <2>1, <3>1, <3>2
  <2> QED
    BY <1>1, <2>1, <2>2 DEF Loaded
<1>3. tasks' \in [Threads -> Seq([coin : Coins, block : Blocks])]
  <2>1. tasks[t] \in Seq([coin : Coins, block : Blocks]) /\ tasks[t] # <<>>
    BY DEF TypeOK, AcceptWork
  <2>2. Tail(tasks[t]) \in Seq([coin : Coins, block : Blocks])
    BY <2>1, HeadTailProperties
  <2> QED
    BY <1>2, <2>2 DEF TypeOK
<1>4. DOMAIN store' = Threads /\ \A u \in Threads : StoreOK(inst', store'[u])
  <2>1. StoreOK(inst, store'[t])
    <3>1. store'[t].inst = inst
      BY <1>1 DEF Stored, Alike, Loaded, Created, Grown, Evolved, TypeOK, StoreOK
    <3>2. ASSUME NEW d \in Coins PROVE store'[t].pending[d] = NoShare \/ store'[t].pending[d] \in Pending
      <4>1. SameShares(store[t], e, d) \/ e.pending[d] = NoShare
        <5>1. Loaded(t, e)
          BY <1>1
        <5>2. SameShares(store[t], e, d) \/ NoShares(e, d)
          BY <5>1, LoadedShares
        <5> QED
          BY <5>2 DEF NoShares
      <4>2. store[t].pending[d] = NoShare \/ store[t].pending[d] \in Pending
        BY DEF TypeOK, StoreOK
      <4> QED
        BY <1>1, <4>1, <4>2 DEF Stored, SameShares
    <3> QED
      BY <1>1, <3>1, <3>2 DEF Stored, StoreOK
  <2>2. \A u \in Threads : u # t => store'[u] = store[u]
    BY <1>1 DEF Stored
  <2> QED
    BY <1>1, <1>2, <2>1, <2>2 DEF Stored, TypeOK
<1>5. /\ jobs' \in [Threads -> SUBSET Nat] /\ info' \in [Threads -> [Coins -> Blocks \cup {NoBlock}]]
      /\ queue' \in [Coins -> Seq(Entries)] /\ acc' \in [Threads -> [Coins -> Seq(Shares)]]
  <2>1. CASE NotSent(t, e)
    BY <2>1 DEF NotSent, TypeOK
  <2>2. ASSUME NEW w, Sent(t, e, w)
        PROVE  /\ jobs' \in [Threads -> SUBSET Nat] /\ info' \in [Threads -> [Coins -> Blocks \cup {NoBlock}]]
               /\ queue' \in [Coins -> Seq(Entries)] /\ acc' \in [Threads -> [Coins -> Seq(Shares)]]
    <3>1. w \in Nat /\ \A d \in CoinsOf(e.work[w]) : e.work[w].block[d] \in Blocks
      BY <1>1, <2>2, WorkType DEF Sent
    <3>2. jobs' \in [Threads -> SUBSET Nat]
      BY <2>2, <3>1 DEF Sent, TypeOK
    <3>3. info' \in [Threads -> [Coins -> Blocks \cup {NoBlock}]]
      <4> DEFINE row == [d \in Coins |-> IF d \in CoinsOf(e.work[w]) THEN e.work[w].block[d] ELSE info[t][d]]
      <4>1. info \in [Threads -> [Coins -> Blocks \cup {NoBlock}]]
        BY DEF TypeOK
      <4>2. row \in [Coins -> Blocks \cup {NoBlock}]
        BY <3>1, <4>1
      <4>3. info' = [info EXCEPT ![t] = row]
        BY <2>2 DEF Sent
      <4> HIDE DEF row
      <4> QED
        BY <4>1, <4>2, <4>3
    <3>4. <<>> \in Seq(Entries)
      OBVIOUS
    <3>5. queue' \in [Coins -> Seq(Entries)] /\ acc' \in [Threads -> [Coins -> Seq(Shares)]]
      BY <2>2, <3>4, FlushTypes DEF Sent, TypeOK
    <3> QED
      BY <3>2, <3>3, <3>5
  <2> QED
    BY <1>1, <2>1, <2>2
<1> QED
  BY <1>2, <1>3, <1>4, <1>5, <1>6 DEF TypeOK, events

\* The coins that a share on a known work counts for.
LEMMA Live ==
    ASSUME TypeOK, NEW t \in Threads, NEW id \in store[t].byId
    PROVE  /\ id \in DOMAIN store[t].work /\ id \in Nat
           /\ store[t].work[id].live \subseteq Coins
           /\ store[t].work[id].live \subseteq CoinsOf(store[t].work[id])
           /\ \A c \in store[t].work[id].live : store[t].work[id].block[c] \in Blocks
           /\ store[t].work[id].block \in UNION {[D -> Blocks] : D \in SUBSET Coins}
<1>1. Sound(store[t]) /\ id \in DOMAIN store[t].work
  BY DEF TypeOK, StoreOK, Sound, StorageOK, IdsKnown
<1>2. store[t].work[id].block \in UNION {[D -> Blocks] : D \in SUBSET Coins}
  BY <1>1, WorkType DEF IsWork
<1> QED
  BY <1>1, <1>2, WorkType

LEMMA TypeSubmission ==
    ASSUME TypeOK, NEW t \in Threads, NEW id \in store[t].byId, NEW c \in store[t].work[id].live,
           NEW share \in SentShares, NEW n \in Nat
    PROVE  Submission(t, c, id, share, n) \in Ops(inst)
<1>1. BlockHash(store[t], id, c, share.hash) \in BlockIds
  <2>1. store[t].work[id].block[c] \in Blocks /\ share.hash \in Hashes
    BY Live DEF SentShares
  <2>2. share.hash.version \in Versions
    BY <2>1 DEF Hashes
  <2> QED
    BY <2>1, <2>2 DEF BlockHash, BlockIds
<1>2. c \in Coins /\ store[t].work[id].live \ {c} \in SUBSET Coins
  BY Live
<1> QED
  BY <1>1, <1>2 DEF Submission, Ops, SentShares

LEMMA TypeSubmit ==
    ASSUME TypeOK, NEW t \in Threads, NEW id, NEW v \in Versions, NEW nonce \in Nonces, NEW good, NEW blocks, NEW pend,
           blocks \in SUBSET Coins, Submit(t, id, v, nonce, good, blocks, pend)
    PROVE  TypeOK'
<1> DEFINE s == store[t]
           w == s.work[id]
           share == TheShare(t, id, v, nonce)
           new == good /\ ~IsDuplicate(s, id, share.hash)
<1>1. /\ UNCHANGED <<inst, running, tasks, jobs, turn, info, nodeHas, backend, templates>>
      /\ id \in s.byId /\ blocks \subseteq w.live /\ shares' = shares + 1
      /\ sends' = sends + Cardinality(blocks)
      /\ submits' = submits \cup {Submission(t, c, id, share, sends') : c \in blocks}
      /\ acc' = IF new THEN AddShare(t, id, share) ELSE acc
  BY DEF Submit, TheShare, HashOf
<1>2. /\ id \in Nat /\ w.live \subseteq Coins /\ \A c \in w.live : w.block[c] \in Blocks
  BY <1>1, Live
<1>3. share \in SentShares /\ share.at \in Nat
  <2>1. HashOf(t, id, v, nonce) \in Hashes
    BY <1>1, Live DEF HashOf, Hashes
  <2> QED
    BY <2>1 DEF TheShare, TypeOK, SentShares
<1>4. Noted(t, id, v, nonce, pend)
  BY SubmitNotes
<1>5. shares' \in Nat /\ sends' \in Nat
  <2>1. IsFiniteSet(blocks)
    BY FS_Subset, StorageAssumptions
  <2>2. Cardinality(blocks) \in Nat
    BY <2>1, FS_CardinalityType
  <2> QED
    BY <1>1, <2>2 DEF TypeOK
<1> HIDE DEF share, new, w
<1>6. submits' \subseteq Ops(inst')
  <2>1. ASSUME NEW c \in blocks PROVE Submission(t, c, id, share, sends') \in Ops(inst)
    <3>1. c \in store[t].work[id].live
      BY <1>1 DEF w
    <3> QED
      BY <1>1, <1>3, <1>5, <3>1, TypeSubmission
  <2>2. submits \subseteq Ops(inst) /\ inst' = inst
    BY <1>1 DEF TypeOK
  <2> QED
    BY <1>1, <2>1, <2>2
<1>7. acc' \in [Threads -> [Coins -> Seq(Shares)]]
  <2>1. ASSUME NEW c \in Coins
        PROVE  (IF c \in w.live
                THEN Append(acc[t][c], [hash |-> share.hash, at |-> share.at, block |-> w.block[c],
                                        turn |-> turn[t][c].n, sent |-> id \in jobs[t]])
                ELSE acc[t][c]) \in Seq(Shares)
    <3> DEFINE x == [hash |-> share.hash, at |-> share.at, block |-> w.block[c],
                     turn |-> turn[t][c].n, sent |-> id \in jobs[t]]
    <3>1. acc[t][c] \in Seq(Shares)
      BY DEF TypeOK
    <3>2. CASE c \in w.live
      <4>1. x \in Shares
        <5>1. turn[t][c].n \in Nat
          BY DEF TypeOK, Turns
        <5> QED
          BY <1>2, <1>3, <3>2, <5>1 DEF Shares, SentShares
      <4> HIDE DEF x
      <4> QED
        BY <3>1, <3>2, <4>1 DEF x
    <3> QED
      BY <3>1, <3>2
  <2>2. AddShare(t, id, share) \in [Threads -> [Coins -> Seq(Shares)]]
    <3> DEFINE row == [c \in Coins |-> IF c \in w.live
                THEN Append(acc[t][c], [hash |-> share.hash, at |-> share.at, block |-> w.block[c],
                                        turn |-> turn[t][c].n, sent |-> id \in jobs[t]])
                ELSE acc[t][c]]
    <3>1. row \in [Coins -> Seq(Shares)]
      BY <2>1
    <3>2. AddShare(t, id, share) = [acc EXCEPT ![t] = row] /\ acc \in [Threads -> [Coins -> Seq(Shares)]]
      BY DEF AddShare, TypeOK, w
    <3> HIDE DEF row
    <3> QED
      BY <3>1, <3>2
  <2> QED
    BY <1>1, <2>2 DEF TypeOK
<1>8. DOMAIN store' = Threads /\ \A u \in Threads : StoreOK(inst', store'[u])
  <2>1. StoreOK(inst, store'[t])
    <3>1. store'[t].inst = inst /\ Sound(store'[t])
      BY <1>4 DEF Noted, Alike, TypeOK, StoreOK
    <3>2. ASSUME NEW d \in Coins PROVE store'[t].pending[d] = NoShare \/ store'[t].pending[d] \in Pending
      <4>1. [id |-> id, share |-> share] \in Pending
        BY <1>2, <1>3 DEF Pending
      <4>2. s.pending[d] = NoShare \/ s.pending[d] \in Pending
        BY DEF TypeOK, StoreOK
      <4>3. store'[t].pending[d] = s.pending[d] \/ store'[t].pending[d] = [id |-> id, share |-> share]
        BY <1>4 DEF Noted, share
      <4> QED
        BY <4>1, <4>2, <4>3
    <3> QED
      BY <3>1, <3>2 DEF StoreOK
  <2> QED
    BY <1>1, <1>4, <2>1 DEF Noted, TypeOK
<1> QED
  BY <1>1, <1>5, <1>6, <1>7, <1>8 DEF TypeOK, backend

LEMMA TypeAnswered ==
    ASSUME TypeOK, NEW op \in submits, NEW n, NEW ok \in Nat
    PROVE  Answered(op, n, ok) \subseteq Ops(inst)
<1> DEFINE rest == [op EXCEPT !.waits = @ \ {n}, !.ok = @ + ok]
<1>1. op \in Ops(inst)
  BY DEF TypeOK
<1>2. op.waits \ {n} \in SUBSET inst.nodes /\ op.ok + ok \in Nat
  BY <1>1 DEF Ops
<1>3. \A waits \in SUBSET inst.nodes, k \in Nat : [op EXCEPT !.waits = waits, !.ok = k] \in Ops(inst)
  BY <1>1 DEF Ops
<1>4. rest \in Ops(inst)
  BY <1>2, <1>3
<1> QED
  BY <1>4 DEF Answered, TypeOK

LEMMA TypeOthers ==
    ASSUME TypeOK,
           \/ \E c \in Coins, b \in Blocks : NewBlockTemplate(c, b)
           \/ \E t \in Threads, c \in Coins : FlushWork(t, c) \/ RttTimer(t, c)
           \/ \E op \in submits, n \in inst.nodes : NodeAccepts(op, n) \/ NodeFails(op, n)
           \/ Stop
    PROVE  TypeOK'
<1>1. ASSUME NEW c \in Coins, NEW b \in Blocks, NewBlockTemplate(c, b) PROVE TypeOK'
  <2> DEFINE Templates == [coin : Coins, block : Blocks]
             new == [coin |-> c, block |-> b]
  <2>1. new \in Templates /\ tasks \in [Threads -> Seq(Templates)]
    BY DEF TypeOK
  <2>2. tasks' = [t \in Threads |-> Append(tasks[t], new)]
    BY <1>1 DEF NewBlockTemplate
  <2> HIDE DEF new, Templates
  <2>3. tasks' \in [Threads -> Seq(Templates)]
    BY <2>1, <2>2
  <2>4. templates' \in Nat
    BY <1>1 DEF NewBlockTemplate, TypeOK
  <2> QED
    BY <1>1, <2>3, <2>4 DEF NewBlockTemplate, TypeOK, backend, Templates
<1>2. ASSUME NEW t \in Threads, NEW c \in Coins, FlushWork(t, c) PROVE TypeOK'
  <2>1. <<>> \in Seq(Entries)
    OBVIOUS
  <2>2. queue' \in [Coins -> Seq(Entries)] /\ acc' \in [Threads -> [Coins -> Seq(Shares)]]
    BY <1>2, <2>1, FlushTypes DEF FlushWork, TypeOK
  <2> QED
    BY <1>2, <2>2 DEF FlushWork, TypeOK, work, events
<1>3. ASSUME NEW t \in Threads, NEW c \in Coins, RttTimer(t, c) PROVE TypeOK'
  <2> DEFINE pend == store[t].pending[c]
  <2>1. /\ pend # NoShare /\ pend.id \in store[t].byId /\ sends' = sends + 1
        /\ submits' = submits \cup {Submission(t, c, pend.id, pend.share, sends')}
        /\ c \in store[t].work[pend.id].live
        /\ UNCHANGED <<inst, running, work, acc, nodeHas, backend, shares, templates>>
    BY <1>3 DEF RttTimer
  <2>2. pend.share \in SentShares
    BY <2>1 DEF TypeOK, StoreOK, Pending
  <2> HIDE DEF pend
  <2>4. sends \in Nat /\ submits \subseteq Ops(inst)
    BY DEF TypeOK
  <2>5. sends' \in Nat
    BY <2>1, <2>4
  <2>7. Submission(t, c, pend.id, pend.share, sends') \in Ops(inst)
    BY <2>1, <2>2, <2>5, TypeSubmission
  <2>8. submits' \subseteq Ops(inst)
    BY <2>1, <2>4, <2>7
  <2> QED
    BY <2>1, <2>5, <2>8 DEF TypeOK, work, backend
<1>4. ASSUME NEW op \in submits, NEW n \in inst.nodes, NodeAccepts(op, n) PROVE TypeOK'
  <2>1. op \in Ops(inst)
    BY DEF TypeOK
  <2>2. submits' \subseteq Ops(inst)
    BY <1>4, TypeAnswered DEF NodeAccepts
  <2>3. nodeHas' \in [inst.nodes -> SUBSET (Coins \X BlockIds)]
    BY <1>4, <2>1 DEF NodeAccepts, TypeOK, Ops
  <2>4. queue' \in [Coins -> Seq(Entries)] /\ acc' \in [Threads -> [Coins -> Seq(Shares)]]
    <3>1. CASE op.ok = 0
      <4>1. [kind |-> "block", block |-> op.block, hash |-> op.hash, at |-> op.at,
             thread |-> op.thread, others |-> op.others] \in Entries
        BY <2>1 DEF Ops, Entries, Found
      <4>2. BlockFound(op) \in Seq(Entries)
        BY <4>1 DEF BlockFound
      <4>3. op.thread \in Threads
        BY <2>1 DEF Ops
      <4> QED
        BY <1>4, <3>1, <4>2, <4>3, FlushTypes DEF NodeAccepts, BlockAccepted, TypeOK
    <3>2. CASE op.ok # 0
      BY <1>4, <3>2 DEF NodeAccepts, TypeOK
    <3> QED
      BY <3>1, <3>2
  <2> QED
    BY <1>4, <2>2, <2>3, <2>4 DEF NodeAccepts, TypeOK, work, events
<1>5. ASSUME NEW op \in submits, NEW n \in inst.nodes, NodeFails(op, n) PROVE TypeOK'
  <2>1. submits' \subseteq Ops(inst)
    BY <1>5, TypeAnswered DEF NodeFails
  <2> QED
    BY <1>5, <2>1 DEF NodeFails, TypeOK, work, backend, events
<1>6. ASSUME Stop PROVE TypeOK'
  <2>1. \A S : <<>> \in Seq(S)
    OBVIOUS
  <2>2. EmptyStorage(inst).pending = [c \in Coins |-> NoShare]
    BY DEF EmptyStorage
  <2>3. StoreOK(inst, EmptyStorage(inst))
    BY <2>2, EmptyIsSound DEF StoreOK, TypeOK
  <2>4. DOMAIN store' = Threads /\ \A t \in Threads : StoreOK(inst', store'[t])
    BY <1>6, <2>3 DEF Stop
  <2>5. /\ tasks' \in [Threads -> Seq([coin : Coins, block : Blocks])]
        /\ acc' \in [Threads -> [Coins -> Seq(Shares)]] /\ jobs' \in [Threads -> SUBSET Nat]
        /\ info' \in [Threads -> [Coins -> Blocks \cup {NoBlock}]] /\ submits' \subseteq Ops(inst')
    BY <1>6, <2>1 DEF Stop
  <2> QED
    BY <1>6, <2>4, <2>5 DEF Stop, TypeOK, backend, events
<1> QED
  BY <1>1, <1>2, <1>3, <1>4, <1>5, <1>6

LEMMA TypeNext ==
    ASSUME TypeOK, [Next]_vars
    PROVE  TypeOK'
<1>1. ASSUME NEW t \in Threads, AcceptWork(t) PROVE TypeOK'
  BY <1>1, TypeAccept
<1>2. ASSUME NEW t \in Threads, NEW id, NEW v \in Versions, NEW nonce \in Nonces, NEW good,
             NEW blocks \in SUBSET Coins, NEW pend, Submit(t, id, v, nonce, good, blocks, pend)
      PROVE  TypeOK'
  BY <1>2, TypeSubmit
<1>3. ASSUME UNCHANGED vars PROVE TypeOK'
  BY <1>3 DEF vars, work, backend, events, TypeOK
<1> QED
  BY <1>1, <1>2, <1>3, TypeBackend, TypeOthers DEF Next

\* What is in the variables of the code: the values the model is written for,
\* and in every storage of a thread works that hang together.
THEOREM TypesHold == Spec => []TypeOK
<1>1. Init => TypeOK
  BY TypeInit
<1>2. TypeOK /\ [Next]_vars => TypeOK'
  BY TypeNext
<1> QED
  BY <1>1, <1>2, PTL DEF Spec

LEMMA NothingDangles ==
    ASSUME NEW s, StorageOK(s)
    PROVE  LET held(seq) == UNION {Range(s[seq][c]) : c \in Coins}
           IN  /\ s.byId = DOMAIN s.work
               /\ DOMAIN s.work = held("primary") \cup held("secondary") \cup held("merged")
               /\ s.current \in DOMAIN s.work \cup {NoWork}
               /\ \A id \in DOMAIN s.work : \A c \in s.work[id].live : s.work[id].part[c] \in DOMAIN s.work
<1> DEFINE held(seq) == UNION {Range(s[seq][c]) : c \in Coins}
<1>1. ASSUME NEW q \in Seqs, NEW c \in Coins
      PROVE  Range(s[q][c]) = {s[q][c][i] : i \in 1 .. Len(s[q][c])}
  BY SeqShape DEF Range, StorageOK
<1>2. ASSUME NEW q \in Seqs, NEW id \in held(q) PROVE id \in DOMAIN s.work
  <2>1. PICK c \in Coins : id \in Range(s[q][c])
    OBVIOUS
  <2>2. PICK i \in 1 .. Len(s[q][c]) : id = s[q][c][i]
    BY <1>1, <2>1
  <2> QED
    BY <2>2 DEF StorageOK, HeldOnce
<1>3. \A id \in DOMAIN s.work : \E q \in Seqs : id \in held(q)
  <2> SUFFICES ASSUME NEW id \in DOMAIN s.work PROVE \E q \in Seqs : id \in held(q)
    OBVIOUS
  <2>1. PICK q \in Seqs, c \in Coins : \E i \in 1 .. Len(s[q][c]) : s[q][c][i] = id
    BY DEF StorageOK, HeldOnce
  <2>2. id \in Range(s[q][c])
    BY <1>1, <2>1
  <2> QED
    BY <2>2
<1> HIDE DEF held
<1>4. DOMAIN s.work = held("primary") \cup held("secondary") \cup held("merged")
  BY <1>2, <1>3 DEF Seqs, Singles
<1>5. \A id \in DOMAIN s.work : \A c \in s.work[id].live : s.work[id].part[c] \in DOMAIN s.work
  BY DEF StorageOK, LinksOK, Own
<1> QED
  BY <1>4, <1>5 DEF StorageOK, IdsKnown, held

\* No share, timer or template finds a dangling pointer, and every work that is
\* allocated is in a sequence, for any number of coins, threads and blocks:
\* eraseAll and eraseFirst delete a work from its sequence, the id map and the
\* links of merged works together (stratumWorkStorage.h).
THEOREM NoDanglingWorkHolds == Spec => []NoDanglingWork
<1>1. TypeOK => NoDanglingWork
  BY NothingDangles DEF TypeOK, StoreOK, Sound, NoDanglingWork
<1> QED
  BY <1>1, TypesHold, PTL

----------------------------------------------------------------------------
(* The newest merged work of a coin is whole.                              *)

\* Any of the secondary coins of an instance go in one tree.  A single coin
\* always does, and Doge is the only coin of the library with a chain id.
EveryTreeFits == \A i \in Instances : (SUBSET i.secondary) \ {{}} \subseteq Mergeable

LEMMA OneCoinFits ==
    ASSUME \A c, d \in DOMAIN ChainId : c = d
    PROVE  EveryTreeFits
<1> SUFFICES ASSUME NEW i \in Instances, NEW C \in (SUBSET i.secondary) \ {{}} PROVE C \in Mergeable
  BY DEF EveryTreeFits
<1>1. C \subseteq DOMAIN ChainId /\ C # {} /\ \A c, d \in C : c = d
  BY StorageAssumptions
<1>2. Cardinality(C) = 1
  BY <1>1, AtMostOne
<1>3. 2 ^ 0 = 1
  OBVIOUS
<1>4. MerklePathSize(1) \in 0 .. 7 /\ MerklePathSize(1) = 0
  BY <1>3 DEF MerklePathSize
<1>5. 0 \in MerklePathSize(Cardinality(C)) .. 7 /\ 0 \in 0 .. 2 ^ 0 - 1
  BY <1>2, <1>3, <1>4
<1>6. IsInjective([c \in C |-> ExpectedIndex(0, ChainId[c], 0)])
  BY <1>1 DEF IsInjective
<1>7. HasChainMap(C)
  BY <1>5, <1>6 DEF HasChainMap
<1> QED
  BY <1>1, <1>7 DEF Mergeable

LEMMA OnePlace ==
    ASSUME NEW s, StorageOK(s), NEW q \in Seqs, NEW c \in Coins, NEW r \in Seqs, NEW d \in Coins,
           NEW id, Within(s, q, c, id), Within(s, r, d, id)
    PROVE  q = r /\ c = d
<1>1. PICK i \in 1 .. Len(s[q][c]) : s[q][c][i] = id
  BY DEF Within
<1>2. PICK j \in 1 .. Len(s[r][d]) : s[r][d][j] = id
  BY DEF Within
<1>3. s[q][c][i] = s[r][d][j]
  BY <1>1, <1>2
<1> QED
  BY <1>3 DEF StorageOK, HeldOnce

\* What coin p needs for a merged work, and whether the newest one has it.
MergesFor(s, p) == p \in s.inst.primary /\ s.primary[p] # <<>> /\ Others(s, p) # {}
OnlyMerging(s) == \A p \in Coins : Len(s.merged[p]) > 0 => MergesFor(s, p)
NewestWhole(s, p) == Len(s.merged[p]) > 0 => HasAllParts(s, p, s.work[Newest(s, "merged", p)])
Whole(s) == OnlyMerging(s) /\ \A p \in Coins : NewestWhole(s, p)

LEMMA MergingAfterSingle ==
    ASSUME NEW s, StorageOK(s), OnlyMerging(s), NEW q \in Singles, NEW c \in Coins, NEW b, NEW e,
           SinglePushed(s, e, q, c, b)
    PROVE  /\ OnlyMerging(e)
           /\ \A p \in Coins : e.merged[p] = s.merged[p]
<1>1. /\ \A r \in Seqs, d \in Coins : r # q \/ d # c => e[r][d] = s[r][d]
      /\ e.inst = s.inst /\ Len(e[q][c]) > 0 /\ StorageOK(e)
  BY DEF SinglePushed, Changed, OnlyIn, Evolved
<1>2. \A p \in Coins : e["merged"][p] = s["merged"][p]
  BY <1>1 DEF Seqs, Singles
<1>3. ASSUME NEW r \in Singles, NEW d \in Coins, s[r][d] # <<>>
      PROVE  e[r][d] # <<>>
  <2>1. CASE r = q /\ d = c
    BY <1>1, <2>1
  <2>2. CASE r # q \/ d # c
    BY <1>1, <1>3, <2>2 DEF Seqs
  <2> QED
    BY <2>1, <2>2
<1>4. ASSUME NEW p \in Coins, MergesFor(s, p) PROVE MergesFor(e, p)
  <2>1. s["primary"][p] # <<>> /\ p \in e.inst.primary
    BY <1>1, <1>4 DEF MergesFor
  <2>2. e["primary"][p] # <<>>
    BY <1>3, <2>1 DEF Singles
  <2>3. PICK d \in Others(s, p) : TRUE
    BY <1>4 DEF MergesFor
  <2>4. s["secondary"][d] # <<>> /\ d \in Coins
    BY <2>3, SomeSecondary DEF Others
  <2>5. e["secondary"][d] # <<>>
    BY <1>3, <2>4 DEF Singles
  <2>6. d \in Others(e, p)
    BY <1>1, <2>3, <2>5 DEF Others
  <2> QED
    BY <2>1, <2>2, <2>6 DEF MergesFor
<1> QED
  BY <1>2, <1>4 DEF OnlyMerging

LEMMA WholeAfterPrimary ==
    ASSUME NEW s, StorageOK(s), Whole(s), NEW c \in Coins, NEW b, NEW e,
           SinglePushed(s, e, "primary", c, b), NEW p \in Coins, p # c
    PROVE  NewestWhole(e, p)
<1>1. /\ \A r \in Seqs, d \in Coins : r # "primary" \/ d # c => e[r][d] = s[r][d]
      /\ e.inst = s.inst /\ StorageOK(e) /\ Evolved(s, e) /\ LinksLost(s, e, "primary", c)
  BY DEF SinglePushed, Changed, OnlyIn, Evolved
<1>2. "merged" \in Seqs /\ "primary" \in Seqs /\ "secondary" \in Seqs /\ "secondary" # "primary" /\ "merged" # "primary"
  BY DEF Seqs, Singles
<1> SUFFICES ASSUME Len(e["merged"][p]) > 0
             PROVE  HasAllParts(e, p, e.work[Newest(e, "merged", p)])
  BY DEF NewestWhole
<1> DEFINE i == Newest(s, "merged", p)
<1>3. Len(s["merged"][p]) > 0 /\ i = Newest(e, "merged", p)
  BY <1>1, <1>2 DEF Newest
<1>4. i \in DOMAIN s.work /\ i \in DOMAIN e.work
  BY <1>1, <1>2, <1>3, NewestWithin
<1>5. HasAllParts(s, p, s.work[i])
  BY <1>3 DEF Whole, NewestWhole
<1> HIDE DEF i
<1>6. Others(e, p) = Others(s, p)
  <2>1. \A d \in Coins : e["secondary"][d] = s["secondary"][d]
    BY <1>1, <1>2
  <2>2. s.inst.secondary \subseteq Coins
    BY StorageAssumptions DEF StorageOK, Shape
  <2> QED
    BY <1>1, <2>1, <2>2 DEF Others
<1>7. \A d \in {p} \cup Others(s, p) : NewestPart(e, p, d) = NewestPart(s, p, d)
  <2>1. \A d \in Coins : e["secondary"][d] = s["secondary"][d]
    BY <1>1, <1>2
  <2>2. e["primary"][p] = s["primary"][p]
    BY <1>1, <1>2
  <2> QED
    BY <2>1, <2>2, SomeSecondary DEF NewestPart, Newest
<1>8. e.work[i].part = s.work[i].part /\ e.work[i].live \subseteq s.work[i].live
  <2>1. i \in Nat /\ i <= s.lastId /\ s.lastId \in Nat
    BY <1>4, IdIs
  <2>2. ~(i > s.lastId)
    BY <2>1
  <2> QED
    BY <1>1, <1>4, <2>2 DEF Evolved
<1>9. ASSUME NEW d \in s.work[i].live PROVE d \in e.work[i].live
  <2> SUFFICES ASSUME Within(s, "primary", c, s.work[i].part[d]) PROVE FALSE
    BY <1>1, <1>4 DEF LinksLost
  <2>1. d \in {p} \cup Others(s, p) /\ s.work[i].part[d] = NewestPart(s, p, d)
    BY <1>5 DEF HasAllParts
  <2>2. CASE d = p
    <3>1. s.primary[p] # <<>>
      BY <1>3 DEF Whole, OnlyMerging, MergesFor
    <3>2. Len(s["primary"][p]) > 0
      BY <1>2, <3>1, NewestHeld
    <3>3. Within(s, "primary", p, s.work[i].part[d])
      BY <1>2, <2>1, <2>2, <3>2, NewestWithin DEF NewestPart
    <3> QED
      BY <1>2, <3>3, OnePlace
  <2>3. CASE d # p
    <3>1. d \in Coins /\ s.secondary[d] # <<>>
      BY <2>1, <2>3, SomeSecondary DEF Others
    <3>2. Len(s["secondary"][d]) > 0
      BY <1>2, <3>1, NewestHeld
    <3>3. Within(s, "secondary", d, s.work[i].part[d])
      BY <1>2, <2>1, <2>3, <3>1, <3>2, NewestWithin DEF NewestPart
    <3> QED
      BY <1>2, <3>1, <3>3, OnePlace
  <2> QED
    BY <2>2, <2>3
<1>10. e.work[i].live = s.work[i].live
  BY <1>8, <1>9
<1>11. HasAllParts(e, p, e.work[i])
  BY <1>5, <1>6, <1>7, <1>8, <1>10 DEF HasAllParts, CoinsOf
<1> QED
  BY <1>3, <1>11

LEMMA WholeAfterMerged ==
    ASSUME EveryTreeFits, NEW s, StorageOK(s), OnlyMerging(s), NEW c \in Coins,
           \A p \in Coins : p # c => NewestWhole(s, p), NEW e, MergedPushed(s, e, c),
           c \in s.inst.primary, s.primary[c] # <<>>
    PROVE  Whole(e)
<1>1. /\ \A r \in Seqs, d \in Coins : r # "merged" \/ d # c => e[r][d] = s[r][d]
      /\ e.inst = s.inst /\ StorageOK(e) /\ Evolved(s, e) /\ LinksKept(s, e)
  BY DEF MergedPushed, OnlyIn, Evolved
<1>2. "merged" \in Seqs /\ \A q \in Singles : q \in Seqs /\ q # "merged"
  BY DEF Seqs, Singles
<1>3. SameSingles(s, e)
  <2>1. \A q \in Singles, d \in Coins : e[q][d] = s[q][d]
    BY <1>1, <1>2
  <2>2. \A d \in Coins : e["primary"][d] = s["primary"][d] /\ e["secondary"][d] = s["secondary"][d]
    BY <2>1 DEF Singles
  <2> QED
    BY <1>1, <2>2 DEF SameSingles, StorageOK, Shape
<1>4. \A p \in Coins : Others(e, p) = Others(s, p) /\ (MergesFor(e, p) <=> MergesFor(s, p))
  BY <1>1, <1>3 DEF SameSingles, Others, MergesFor
<1>5. ASSUME NEW p \in Coins, p # c, Len(e.merged[p]) > 0
      PROVE  MergesFor(e, p) /\ HasAllParts(e, p, e.work[Newest(e, "merged", p)])
  <2> DEFINE i == Newest(s, "merged", p)
  <2>1. e["merged"][p] = s["merged"][p]
    BY <1>1, <1>2, <1>5
  <2>2. Len(s["merged"][p]) > 0 /\ i = Newest(e, "merged", p)
    BY <1>5, <2>1 DEF Newest
  <2>3. i \in DOMAIN s.work /\ i \in DOMAIN e.work
    BY <1>1, <1>2, <1>5, <2>2, NewestWithin
  <2>4. HasAllParts(s, p, s.work[i])
    BY <1>5, <2>2 DEF NewestWhole
  <2> HIDE DEF i
  <2>5. e.work[i].live = s.work[i].live
    BY <1>1, <2>3 DEF LinksKept
  <2>6. HasAllParts(e, p, e.work[i])
    BY <1>1, <1>3, <2>3, <2>4, <2>5, SamePartsAndLinks
  <2> QED
    BY <1>4, <2>2, <2>6 DEF OnlyMerging
<1>6. ASSUME Len(e.merged[c]) > 0
      PROVE  MergesFor(e, c) /\ HasAllParts(e, c, e.work[Newest(e, "merged", c)])
  <2>1. CASE Others(s, c) \notin Mergeable
    <3>1. e = s
      BY <2>1 DEF MergedPushed
    <3>2. Others(s, c) # {}
      BY <1>6, <3>1 DEF OnlyMerging, MergesFor
    <3>3. Others(s, c) \subseteq s.inst.secondary /\ s.inst \in Instances
      BY DEF Others, StorageOK, Shape
    <3>4. Others(s, c) \in (SUBSET s.inst.secondary) \ {{}}
      BY <3>2, <3>3
    <3> QED
      BY <2>1, <3>3, <3>4 DEF EveryTreeFits
  <2>2. CASE Others(s, c) \in Mergeable
    <3>1. Others(s, c) # {}
      BY <2>2 DEF Mergeable
    <3>2. HasAllParts(e, c, e.work[Newest(e, "merged", c)])
      BY <2>2 DEF MergedPushed
    <3> QED
      BY <1>4, <3>1, <3>2 DEF MergesFor
  <2> QED
    BY <2>1, <2>2
<1> QED
  BY <1>5, <1>6 DEF Whole, OnlyMerging, NewestWhole

LEMMA WholeAfterRenewal ==
    ASSUME EveryTreeFits, NEW s, StorageOK(s), OnlyMerging(s), NEW e, Renewed(s, e, s.inst.primary)
    PROVE  Whole(e)
<1>1. StorageOK(e) /\ e.inst = s.inst /\ e.primary = s.primary /\ e.secondary = s.secondary
  BY DEF Renewed, Evolved, SameSingles
<1>2. \A p \in Coins : Others(e, p) = Others(s, p) /\ (MergesFor(e, p) <=> MergesFor(s, p))
  BY <1>1 DEF Others, MergesFor
<1>3. ASSUME NEW p \in Coins, Len(e.merged[p]) > 0
      PROVE  MergesFor(e, p) /\ HasAllParts(e, p, e.work[Newest(e, "merged", p)])
  <2>1. CASE p \in s.inst.primary /\ s.primary[p] # <<>> /\ Others(s, p) \in Mergeable
    <3>1. Others(s, p) # {}
      BY <2>1 DEF Mergeable
    <3>2. HasAllParts(e, p, e.work[Newest(e, "merged", p)])
      BY <2>1 DEF Renewed
    <3> QED
      BY <1>2, <2>1, <3>1, <3>2 DEF MergesFor
  <2>2. CASE ~(p \in s.inst.primary /\ s.primary[p] # <<>> /\ Others(s, p) \in Mergeable)
    <3>1. e.merged[p] = s.merged[p]
      BY <2>2 DEF Renewed
    <3>2. MergesFor(s, p)
      BY <1>3, <3>1 DEF OnlyMerging
    <3>3. Others(s, p) \in (SUBSET s.inst.secondary) \ {{}} /\ s.inst \in Instances
      BY <3>2 DEF MergesFor, Others, StorageOK, Shape
    <3> QED
      BY <2>2, <3>2, <3>3 DEF EveryTreeFits, MergesFor
  <2> QED
    BY <2>1, <2>2
<1> QED
  BY <1>3 DEF Whole, OnlyMerging, NewestWhole

LEMMA CreateWorkWhole ==
    ASSUME EveryTreeFits, NEW s, Sound(s), Whole(s), NEW c \in Coins, NEW b \in Blocks
    PROVE  Whole(CreateWork(s, c, b))
<1> DEFINE a == PushSingleWork(s, "primary", c, b)
           s1 == IF c \in s.inst.primary THEN PushMergedWork(a, c) ELSE s
           d == PushSingleWork(s1, "secondary", c, b)
           e == CreateWork(s, c, b)
<1>1. e = IF c \in s.inst.secondary THEN UpdateMerged(d) ELSE s1
  BY DEF CreateWork
<1>2. "primary" \in Singles /\ "secondary" \in Singles /\ StorageOK(s) /\ OnlyMerging(s)
  BY DEF Singles, Sound, Whole
<1>3. StorageOK(s1) /\ Whole(s1)
  <2>1. CASE c \notin s.inst.primary
    BY <1>2, <2>1
  <2>2. CASE c \in s.inst.primary
    <3>1. SinglePushed(s, a, "primary", c, b)
      BY <1>2, PushSingleWorkDoes
    <3> HIDE DEF a
    <3>2. StorageOK(a) /\ Len(a["primary"][c]) > 0 /\ a.inst = s.inst
      BY <3>1 DEF SinglePushed, Changed, Evolved
    <3>3. a.primary[c] # <<>>
      BY <3>2
    <3>4. MergedPushed(a, s1, c)
      BY <2>2, <3>2, <3>3, PushMergedWorkDoes
    <3>5. OnlyMerging(a)
      BY <1>2, <3>1, MergingAfterSingle
    <3>6. \A p \in Coins : p # c => NewestWhole(a, p)
      BY <1>2, <3>1, WholeAfterPrimary
    <3> HIDE DEF s1
    <3> QED
      BY <2>2, <3>2, <3>3, <3>4, <3>5, <3>6, WholeAfterMerged DEF MergedPushed
  <2> QED
    BY <2>1, <2>2
<1> HIDE DEF s1
<1>4. CASE c \notin s.inst.secondary
  BY <1>1, <1>3, <1>4
<1>5. CASE c \in s.inst.secondary
  <2>1. SinglePushed(s1, d, "secondary", c, b)
    BY <1>2, <1>3, PushSingleWorkDoes
  <2> HIDE DEF d
  <2>2. StorageOK(d) /\ OnlyMerging(d)
    BY <1>2, <1>3, <2>1, MergingAfterSingle DEF SinglePushed, Whole
  <2>3. Renewed(d, UpdateMerged(d), d.inst.primary)
    BY <2>2, UpdateMergedDoes
  <2> QED
    BY <1>1, <1>5, <2>2, <2>3, WholeAfterRenewal
<1> QED
  BY <1>4, <1>5

\* What a work of a whole storage that is sent to the miners is.
LEMMA SentIsWhole ==
    ASSUME NEW s, StorageOK(s), Whole(s), NEW c \in Coins, FetchWork(s, c) # NoWork
    PROVE  s.work[FetchWork(s, c)].live = CoinsOf(s.work[FetchWork(s, c)])
<1>1. CASE s.merged[c] # <<>>
  <2>1. FetchWork(s, c) = Newest(s, "merged", c)
    BY <1>1, Fetched
  <2>2. Len(s["merged"][c]) > 0
    BY <1>1, NewestHeld DEF Seqs
  <2> QED
    BY <2>1, <2>2 DEF Whole, NewestWhole, HasAllParts
<1>2. CASE s.merged[c] = <<>>
  <2>1. FetchWork(s, c) = Newest(s, "primary", c) /\ s.primary[c] # <<>>
    BY <1>2, Fetched DEF FetchWork
  <2>2. IsSingle(s, Newest(s, "primary", c), c)
    BY <2>1, NewestHeld DEF Seqs, Singles
  <2> QED
    BY <2>1, <2>2 DEF IsSingle
<1> QED
  BY <1>1, <1>2

LEMMA AlikeWhole ==
    ASSUME NEW s, Whole(s), NEW e, Alike(s, e)
    PROVE  Whole(e)
<1>1. \A p \in Coins : Others(e, p) = Others(s, p) /\ (MergesFor(e, p) <=> MergesFor(s, p))
  BY DEF Others, MergesFor, Alike
<1>2. \A p, d : NewestPart(e, p, d) = NewestPart(s, p, d)
  BY DEF NewestPart, Newest, Alike
<1>3. \A p \in Coins : \A w : HasAllParts(s, p, w) => HasAllParts(e, p, w)
  BY <1>1, <1>2 DEF HasAllParts
<1>4. e.work = s.work /\ e.merged = s.merged
  BY DEF Alike
<1> QED
  BY <1>1, <1>3, <1>4 DEF Whole, OnlyMerging, NewestWhole, Newest

AllWhole == \A t \in Threads : Whole(store[t])

LEMMA WholeInit ==
    ASSUME Init
    PROVE  AllWhole
<1>1. \A c \in Coins : Len(EmptyStorage(inst).merged[c]) = 0
  BY DEF EmptyStorage
<1>2. Whole(EmptyStorage(inst))
  BY <1>1 DEF Whole, OnlyMerging, NewestWhole
<1> QED
  BY <1>2 DEF AllWhole, Init

LEMMA LoadedWhole ==
    ASSUME EveryTreeFits, TypeOK, AllWhole, NEW t \in Threads, NEW e, Loaded(t, e)
    PROVE  Whole(e)
<1>1. Sound(store[t]) /\ Whole(store[t])
  BY DEF AllWhole, TypeOK, StoreOK
<1>2. ASSUME NEW c \in Coins, NEW b \in Blocks, e = CreateWork(store[t], c, b) PROVE Whole(e)
  BY <1>1, <1>2, CreateWorkWhole
<1> QED
  BY <1>1, <1>2 DEF Loaded

LEMMA WholeNext ==
    ASSUME EveryTreeFits, TypeOK, AllWhole, [Next]_vars
    PROVE  AllWhole'
<1>1. ASSUME UNCHANGED store PROVE AllWhole'
  BY <1>1 DEF AllWhole
<1>2. ASSUME NEW t \in Threads, AcceptWork(t) PROVE AllWhole'
  <2>1. PICK e : Loaded(t, e) /\ Stored(t, e)
    BY <1>2, AcceptWorkDoes
  <2>2. Whole(e)
    BY <2>1, LoadedWhole
  <2>3. Whole(store'[t])
    BY <2>1, <2>2, AlikeWhole DEF Stored
  <2> QED
    BY <2>1, <2>3 DEF Stored, AllWhole
<1>3. ASSUME NEW t \in Threads, NEW id, NEW v, NEW nonce, NEW good, NEW blocks, NEW pend,
             Submit(t, id, v, nonce, good, blocks, pend)
      PROVE  AllWhole'
  <2>1. Noted(t, id, v, nonce, pend)
    BY <1>3, SubmitNotes
  <2>2. Whole(store'[t])
    BY <2>1, AlikeWhole DEF Noted, AllWhole
  <2> QED
    BY <2>1, <2>2 DEF Noted, AllWhole
<1>4. ASSUME Stop PROVE AllWhole'
  <2>1. \A c \in Coins : Len(EmptyStorage(inst).merged[c]) = 0
    BY DEF EmptyStorage
  <2>2. Whole(EmptyStorage(inst))
    BY <2>1 DEF Whole, OnlyMerging, NewestWhole
  <2> QED
    BY <1>4, <2>2 DEF AllWhole, Stop
<1> QED
  BY <1>1, <1>2, <1>3, <1>4 DEF Next, vars, work, NewBlockTemplate, BackendStep, OnUserWorkSummary,
     OnBlockFound, OnMergedBlockNotification, FlushWork, RttTimer, NodeAccepts, NodeFails

\* The work acceptWork reads the rewards of has a link to a work of each of its
\* coins, whatever block of whatever coin came last, if any secondary coins of an
\* instance fit in one tree (stratumWorkStorage.h).
THEOREM NewestIsWholeHolds == ASSUME EveryTreeFits PROVE Spec => []NewestIsWhole
<1>1. Init => AllWhole
  BY WholeInit
<1>2. TypeOK /\ AllWhole /\ [Next]_vars => AllWhole'
  BY WholeNext
<1>3. TypeOK /\ AllWhole => NewestIsWhole
  <2> SUFFICES ASSUME TypeOK, AllWhole, NEW t \in Threads, NEW c \in inst.primary,
                      FetchWork(store[t], c) # NoWork
               PROVE  store[t].work[FetchWork(store[t], c)].live
                         = CoinsOf(store[t].work[FetchWork(store[t], c)])
    BY DEF NewestIsWhole
  <2>1. c \in Coins
    BY Instance
  <2> QED
    BY <2>1, SentIsWhole DEF AllWhole, TypeOK, StoreOK, Sound
<1> QED
  BY <1>1, <1>2, <1>3, TypesHold, PTL DEF Spec

----------------------------------------------------------------------------
(* Shares are credited for the block they were mined for.                  *)

LEMMA OwnWithin ==
    ASSUME NEW s, StorageOK(s), NEW id, NEW c, Own(s, id, c)
    PROVE  \E q \in Singles : Within(s, q, c, id)
<1>1. id \in DOMAIN s.work /\ c \in CoinsOf(s.work[id]) /\ s.work[id].part[c] = id
  BY DEF Own
<1>2. PICK q \in Seqs, d \in Coins : \E i \in 1 .. Len(s[q][d]) : s[q][d][i] = id
  BY <1>1 DEF StorageOK, HeldOnce
<1>3. PICK i \in 1 .. Len(s[q][d]) : s[q][d][i] = id
  BY <1>2
<1>4. CASE q = "merged"
  <2>1. s.work[id].part[c] < id
    BY <1>1, <1>3, <1>4 DEF StorageOK, MergedOK
  <2>2. id \in Nat
    BY <1>1, IdIs
  <2> QED
    BY <1>1, <2>1, <2>2
<1>5. CASE q \in Singles
  <2>1. IsSingle(s, id, d)
    BY <1>3, <1>5 DEF StorageOK, SinglesOK
  <2>2. d = c
    BY <1>1, <2>1 DEF IsSingle
  <2> QED
    BY <1>3, <1>5, <2>2 DEF Within
<1> QED
  BY <1>4, <1>5 DEF Seqs

\* A work that outlives a template with a link to a work of coin d had it
\* before, and the shares of that coin are still known.
LEMMA LinkSurvives ==
    ASSUME NEW s, Sound(s), NEW c \in Coins, NEW b, NEW e, Created(s, e, c, b), Sound(e),
           NEW id \in DOMAIN e.work, ~(id > s.lastId), NEW d \in e.work[id].live
    PROVE  id \in DOMAIN s.work /\ d \in s.work[id].live /\ SameShares(s, e, d)
<1>1. StorageOK(s) /\ StorageOK(e) /\ Evolved(s, e) /\ e.inst = s.inst
  BY DEF Sound, Created, Grown, Evolved
<1>2. /\ id \in DOMAIN s.work /\ e.work[id].part = s.work[id].part
      /\ e.work[id].live \subseteq s.work[id].live
  BY <1>1 DEF Evolved
<1> DEFINE part == e.work[id].part[d]
<1>3. Own(e, part, d) /\ Own(s, part, d)
  BY <1>1, <1>2 DEF StorageOK, LinksOK
<1>4. d \in Coins
  BY <1>1 DEF StorageOK, LinksOK, IsWork
<1> HIDE DEF part
<1>5. CASE d # c
  BY <1>2, <1>4, <1>5 DEF Created, Grown, SharesOfOthers
<1>6. CASE d = c
  <2> SUFFICES ASSUME Moved(s, c, b) PROVE FALSE
    BY <1>2, <1>6 DEF Created
  <2>1. PICK q \in Singles : Within(e, q, c, part)
    BY <1>1, <1>3, <1>6, OwnWithin
  <2>2. Len(e[q][c]) # 0
    <3>1. Len(e[q][c]) \in Nat
      BY <1>1, SeqShape DEF Seqs, StorageOK
    <3> QED
      BY <2>1, <3>1 DEF Within
  <2>3. c \in s.inst[q]
    BY <1>1, <2>2 DEF Sound, OneBlock
  <2>4. Built(s, e, q, c, b)
    BY <2>3 DEF Created
  <2>5. ~(part > s.lastId)
    <3>1. part \in DOMAIN s.work
      BY <1>3 DEF Own
    <3>2. part \in Nat /\ part <= s.lastId /\ s.lastId \in Nat
      BY <1>1, <3>1, IdIs
    <3> QED
      BY <3>2
  <2>6. Len(s[q][c]) > 0 /\ s.work[Newest(s, q, c)].block[c] = b
    BY <2>1, <2>4, <2>5 DEF Built
  <2>7. PICK r \in Singles : Replaced(s, r, c, b)
    BY DEF Moved
  <2>8. Len(s[r][c]) > 0 /\ s.work[Newest(s, r, c)].block[c] # b
    BY <2>7 DEF Replaced
  <2>9. Within(s, q, c, Newest(s, q, c)) /\ Within(s, r, c, Newest(s, r, c))
    BY <1>1, <2>6, <2>8, NewestWithin DEF Seqs
  <2> QED
    BY <2>6, <2>8, <2>9 DEF Sound, OneBlock
<1> QED
  BY <1>5, <1>6

\* The block info of a coin with works that are known is that of its works.
KnownIsInfo(s, f) ==
    \A c \in Coins : s.known[c] =>
        /\ \E q \in Singles : Len(s[q][c]) > 0
        /\ \A q \in Singles : \A id : Within(s, q, c, id) => s.work[id].block[c] = f[c]

\* The coins of the works that miners have are known.
JobsKnown(s, J) ==
    \A id \in J : ~(id > s.lastId) /\ (id \in DOMAIN s.work => \A c \in s.work[id].live : s.known[c])

LEMMA KnownAfterTemplate ==
    ASSUME NEW s, Sound(s), NEW c \in Coins, NEW b, NEW e, Created(s, e, c, b), Sound(e),
           NEW f, KnownIsInfo(s, f), NEW J \in SUBSET Nat, JobsKnown(s, J)
    PROVE  KnownIsInfo(e, f) /\ JobsKnown(e, J)
<1>1. /\ StorageOK(s) /\ StorageOK(e) /\ Evolved(s, e) /\ e.inst = s.inst
      /\ SinglesOfOthers(s, e, c) /\ SharesOfOthers(s, e, c)
  BY DEF Sound, Created, Grown, Evolved
<1>2. ASSUME NEW d \in Coins, e.known[d]
      PROVE  /\ \E q \in Singles : Len(e[q][d]) > 0
             /\ \A q \in Singles : \A id : Within(e, q, d, id) => e.work[id].block[d] = f[d]
  <2>1. CASE d # c
    <3>1. s.known[d] /\ \A q \in Singles : e[q][d] = s[q][d]
      BY <1>1, <1>2, <2>1 DEF SharesOfOthers, SameShares, SinglesOfOthers
    <3>2. ASSUME NEW q \in Singles, NEW id, Within(e, q, d, id) PROVE e.work[id].block[d] = f[d]
      <4>1. Within(s, q, d, id)
        BY <3>1, <3>2 DEF Within
      <4>2. e.work[id].block = s.work[id].block
        BY <1>1, <3>2, <4>1, BlocksKept
      <4> QED
        BY <3>1, <4>1, <4>2 DEF KnownIsInfo
    <3> QED
      BY <3>1, <3>2 DEF KnownIsInfo
  <2>2. CASE d = c
    <3>1. ~Moved(s, c, b) /\ s.known[c]
      BY <1>2, <2>2 DEF Created, NoShares, SameShares
    <3>2. PICK q \in Singles : Len(s[q][c]) > 0
      BY <3>1 DEF KnownIsInfo
    <3>3. c \in s.inst[q]
      BY <3>2 DEF Sound, OneBlock
    <3>4. s.work[Newest(s, q, c)].block[c] = b
      BY <3>1, <3>2, <3>3 DEF Moved, Replaced
    <3>5. f[c] = b
      <4>1. Within(s, q, c, Newest(s, q, c))
        BY <1>1, <3>2, NewestWithin DEF Seqs
      <4> QED
        BY <3>1, <3>4, <4>1 DEF KnownIsInfo
    <3>6. Len(e[q][c]) > 0
      BY <3>3 DEF Created, Built
    <3>7. ASSUME NEW r \in Singles, NEW id, Within(e, r, c, id) PROVE e.work[id].block[c] = b
      <4>1. Len(e[r][c]) # 0
        <5>1. Len(e[r][c]) \in Nat
          BY <1>1, SeqShape DEF Seqs, StorageOK
        <5> QED
          BY <3>7, <5>1 DEF Within
      <4>2. c \in s.inst[r]
        BY <1>1, <4>1 DEF Sound, OneBlock
      <4> QED
        BY <3>7, <4>2 DEF Created, Built
    <3> QED
      BY <2>2, <3>5, <3>6, <3>7
  <2> QED
    BY <2>1, <2>2
<1>3. ASSUME NEW id \in J
      PROVE  ~(id > e.lastId) /\ (id \in DOMAIN e.work => \A d \in e.work[id].live : e.known[d])
  <2>1. ~(id > s.lastId)
    BY DEF JobsKnown
  <2>2. ASSUME id \in DOMAIN e.work, NEW d \in e.work[id].live PROVE e.known[d]
    <3>1. id \in DOMAIN s.work /\ d \in s.work[id].live /\ SameShares(s, e, d)
      BY <2>1, <2>2, LinkSurvives
    <3> QED
      BY <3>1 DEF JobsKnown, SameShares
  <2>3. id \in Nat /\ s.lastId \in Nat /\ e.lastId \in Nat /\ s.lastId <= e.lastId
    BY <1>1 DEF StorageOK, Shape, Evolved
  <2>4. ~(id > e.lastId)
    BY <2>1, <2>3
  <2> QED
    BY <2>2, <2>4
<1> QED
  BY <1>2, <1>3 DEF KnownIsInfo, JobsKnown

\* Entries of a log of which E holds.
LEMMA FlushEntries ==
    ASSUME NEW E, queue \in [Coins -> Seq(E)], NEW t, NEW C, NEW then \in Seq(E), Flush(t, C, then),
           \A c \in C \cap Coins : acc[t][c] # <<>> => Batch(t, c) \in E
    PROVE  queue' \in [Coins -> Seq(E)]
<1>1. ASSUME NEW c \in C \cap Coins PROVE TakeBatch(t, c) \in Seq(E)
  <2> DEFINE b == Batch(t, c)
  <2> HIDE DEF b
  <2> QED
    BY DEF TakeBatch, b
<1>2. ASSUME NEW c \in Coins
      PROVE  (IF c \in C THEN queue[c] \o TakeBatch(t, c) \o then ELSE queue[c]) \in Seq(E)
  <2> DEFINE b == TakeBatch(t, c)
  <2>1. CASE c \in C
    <3>1. b \in Seq(E) /\ queue[c] \in Seq(E)
      BY <1>1, <2>1
    <3> HIDE DEF b
    <3>2. queue[c] \o b \in Seq(E)
      BY <3>1
    <3>3. (queue[c] \o b) \o then \in Seq(E)
      BY <3>2
    <3> QED
      BY <2>1, <3>3 DEF b
  <2>2. CASE c \notin C
    BY <2>2
  <2> QED
    BY <2>1, <2>2
<1> QED
  BY <1>2 DEF Flush

LEMMA BackendEntries ==
    ASSUME TypeOK, NEW E, Merges \subseteq E, queue \in [Coins -> Seq(E)], ledger \in [Coins -> Seq(E)],
           NEW c \in Coins, BackendStep(c)
    PROVE  queue' \in [Coins -> Seq(E)] /\ ledger' \in [Coins -> Seq(E)]
<1>1. queue[c] # <<>>
  BY DEF BackendStep, OnUserWorkSummary, OnBlockFound, OnMergedBlockNotification
<1> DEFINE e == Head(queue[c])
<1>2. e \in E /\ Tail(queue[c]) \in Seq(E)
  BY <1>1, HeadTailProperties
<1>3. e \in Entries
  BY <1>1, Heads
<1>4. CASE OnUserWorkSummary(c)
  <2>1. ledger' = [ledger EXCEPT ![c] = Append(ledger[c], e)] /\ queue' = [queue EXCEPT ![c] = Tail(queue[c])]
    BY <1>4 DEF OnUserWorkSummary
  <2> HIDE DEF e
  <2>2. Append(ledger[c], e) \in Seq(E)
    BY <1>2
  <2> QED
    BY <1>2, <2>1, <2>2
<1>5. CASE OnBlockFound(c)
  <2>1. /\ e.kind = "block" /\ ledger' = [ledger EXCEPT ![c] = Append(ledger[c], e)]
        /\ queue' = [d \in Coins |->
            (IF d = c THEN Tail(queue[d]) ELSE queue[d])
              \o (IF d \in e.others THEN <<[kind |-> "merged", hash |-> e.hash, from |-> c]>> ELSE <<>>)]
    BY <1>5 DEF OnBlockFound
  <2> HIDE DEF e
  <2>2. e \in Found
    BY <1>3, <2>1, Entry
  <2>3. Append(ledger[c], e) \in Seq(E)
    BY <1>2
  <2>4. ASSUME NEW d \in Coins
        PROVE  (IF d = c THEN Tail(queue[d]) ELSE queue[d])
              \o (IF d \in e.others THEN <<[kind |-> "merged", hash |-> e.hash, from |-> c]>> ELSE <<>>)
                 \in Seq(E)
    <3> DEFINE y == IF d = c THEN Tail(queue[d]) ELSE queue[d]
               m == [kind |-> "merged", hash |-> e.hash, from |-> c]
               z == IF d \in e.others THEN <<m>> ELSE <<>>
    <3>1. y \in Seq(E)
      BY <1>2
    <3>2. m \in E
      BY <2>2 DEF Found, Merges
    <3>3. z \in Seq(E)
      <4> HIDE DEF m
      <4> QED
        BY <3>2
    <3> HIDE DEF y, z
    <3>4. y \o z \in Seq(E)
      BY <3>1, <3>3
    <3> QED
      BY <3>4 DEF y, z
  <2>5. queue' \in [Coins -> Seq(E)]
    BY <2>1, <2>4
  <2> QED
    BY <2>1, <2>3, <2>5
<1>6. CASE OnMergedBlockNotification(c)
  <2>1. queue' = [queue EXCEPT ![c] = Tail(queue[c])] /\ ledger' = ledger
    BY <1>6 DEF OnMergedBlockNotification
  <2> QED
    BY <1>2, <2>1
<1> QED
  BY <1>4, <1>5, <1>6 DEF BackendStep

\* A batch whose shares, on works that miners have, are of the block it is paid for.
SharesAreOf(x, b) == \A k \in DOMAIN x : x[k].sent => x[k].block = b
Credited(e) == HasWork(e) => SharesAreOf(e.shares, e.info)
GoodEntries == {e \in Entries : Credited(e)}

ThreadCredits(t) ==
    /\ KnownIsInfo(store[t], info[t]) /\ JobsKnown(store[t], jobs[t])
    /\ \A c \in Coins : SharesAreOf(acc[t][c], info[t][c])

Credits ==
    /\ \A t \in Threads : ThreadCredits(t)
    /\ queue \in [Coins -> Seq(GoodEntries)] /\ ledger \in [Coins -> Seq(GoodEntries)]

LEMMA OtherEntries ==
    /\ Merges \subseteq GoodEntries /\ Found \subseteq GoodEntries
  BY DEF GoodEntries, Credited, HasWork, Merges, Found, Entries

LEMMA GoodBatch ==
    ASSUME TypeOK, NEW t \in Threads, ThreadCredits(t), NEW c \in Coins
    PROVE  Batch(t, c) \in GoodEntries
<1>1. Batch(t, c) \in Works
  BY DEF Batch, Works, TypeOK
<1>2. Credited(Batch(t, c))
  BY DEF Credited, Batch, ThreadCredits
<1> QED
  BY <1>1, <1>2 DEF GoodEntries, Entries

LEMMA CreditsInit ==
    ASSUME Init
    PROVE  Credits
<1>1. \A S : <<>> \in Seq(S)
  OBVIOUS
<1>2. \A c \in Coins : EmptyStorage(inst).known[c] = FALSE
  BY DEF EmptyStorage
<1>3. KnownIsInfo(EmptyStorage(inst), [c \in Coins |-> NoBlock]) /\ JobsKnown(EmptyStorage(inst), {})
  BY <1>2 DEF KnownIsInfo, JobsKnown
<1>4. \A b : SharesAreOf(<<>>, b)
  BY DEF SharesAreOf
<1> QED
  BY <1>1, <1>3, <1>4 DEF Init, Credits, ThreadCredits

LEMMA AlikeKnown ==
    ASSUME NEW s, NEW e, Alike(s, e), e.known = s.known, NEW f, KnownIsInfo(s, f), NEW J, JobsKnown(s, J)
    PROVE  KnownIsInfo(e, f) /\ JobsKnown(e, J)
<1>1. \A q \in Singles, c \in Coins : e[q][c] = s[q][c]
  BY DEF Alike, Singles
<1>2. \A q \in Singles, c \in Coins : \A id : Within(e, q, c, id) <=> Within(s, q, c, id)
  BY <1>1 DEF Within
<1> QED
  BY <1>1, <1>2 DEF KnownIsInfo, JobsKnown, Alike

\* The works of the coins of a whole work that is sent are for its blocks.
LEMMA SentBlocks ==
    ASSUME NEW e, Sound(e), NEW w \in DOMAIN e.work, e.work[w].live = CoinsOf(e.work[w]),
           NEW c \in CoinsOf(e.work[w])
    PROVE  /\ \E q \in Singles : Len(e[q][c]) > 0
           /\ \A q \in Singles : \A id : Within(e, q, c, id) => e.work[id].block[c] = e.work[w].block[c]
<1> DEFINE part == e.work[w].part[c]
<1>1. Own(e, part, c) /\ e.work[part].block[c] = e.work[w].block[c]
  BY DEF Sound, StorageOK, LinksOK
<1>2. c \in Coins
  BY WorkType
<1> HIDE DEF part
<1>3. PICK q \in Singles : Within(e, q, c, part)
  BY <1>1, OwnWithin DEF Sound
<1>4. Len(e[q][c]) \in Nat /\ Len(e[q][c]) # 0
  BY <1>2, <1>3, SeqShape DEF Sound, StorageOK, Seqs, Within
<1>5. Len(e[q][c]) > 0
  BY <1>4
<1> QED
  BY <1>1, <1>2, <1>3, <1>5 DEF Sound, OneBlock

LEMMA CreditsSent ==
    ASSUME TypeOK, NEW t \in Threads, NEW e, Sound(e), NEW J, JobsKnown(e, J), KnownIsInfo(e, info[t]),
           jobs[t] = J, \A c \in Coins : SharesAreOf(acc[t][c], info[t][c]),
           Stored(t, e), NEW w, Sent(t, e, w), e.work[w].live = CoinsOf(e.work[w])
    PROVE  ThreadCredits(t)'
<1> DEFINE z == store'[t]
           f == info'[t]
           C == CoinsOf(e.work[w])
<1>1. /\ w \in DOMAIN e.work /\ z.known = [c \in Coins |-> e.known[c] \/ c \in C]
      /\ Alike(e, z) /\ Flush(t, StaleAccumulators(e), <<>>)
      /\ jobs'[t] = J \cup {w}
  BY DEF Sent, Stored, TypeOK
<1>2. f = [c \in Coins |-> IF c \in C THEN e.work[w].block[c] ELSE info[t][c]]
  BY DEF Sent, TypeOK
<1>3. C \subseteq Coins /\ w \in Nat /\ w <= e.lastId /\ e.lastId \in Nat
  BY <1>1, WorkType, IdIs DEF Sound
<1> HIDE DEF f, C, z
<1>4. \A q \in Singles, c \in Coins : z[q][c] = e[q][c]
  BY <1>1 DEF Alike, Singles
<1>5. \A q \in Singles, c \in Coins : \A id : Within(z, q, c, id) <=> Within(e, q, c, id)
  BY <1>4 DEF Within
<1>6. ASSUME NEW c \in C
      PROVE  /\ \E q \in Singles : Len(e[q][c]) > 0
             /\ \A q \in Singles : \A id : Within(e, q, c, id) => e.work[id].block[c] = f[c]
  BY <1>1, <1>2, <1>3, <1>6, SentBlocks DEF C
<1>7. KnownIsInfo(z, f)
  <2> SUFFICES ASSUME NEW c \in Coins, z.known[c]
               PROVE  /\ \E q \in Singles : Len(z[q][c]) > 0
                      /\ \A q \in Singles : \A id : Within(z, q, c, id) => z.work[id].block[c] = f[c]
    BY DEF KnownIsInfo
  <2>1. /\ \E q \in Singles : Len(e[q][c]) > 0
        /\ \A q \in Singles : \A id : Within(e, q, c, id) => e.work[id].block[c] = f[c]
    <3>1. CASE c \in C
      BY <3>1, <1>6
    <3>2. CASE c \notin C
      <4>1. e.known[c] /\ f[c] = info[t][c]
        BY <1>1, <1>2, <3>2
      <4> QED
        BY <4>1 DEF KnownIsInfo
    <3> QED
      BY <3>1, <3>2
  <2> QED
    BY <1>1, <1>4, <1>5, <2>1 DEF Alike
<1>8. JobsKnown(z, J \cup {w})
  <2>1. z.work = e.work /\ z.lastId = e.lastId
    BY <1>1 DEF Alike
  <2>2. \A id \in J : ~(id > e.lastId) /\ (id \in DOMAIN e.work => \A c \in e.work[id].live : e.known[c] /\ c \in Coins)
    <3>1. \A id \in DOMAIN e.work : e.work[id].live \subseteq Coins
      BY WorkType
    <3> QED
      BY <3>1 DEF JobsKnown
  <2>3. ~(w > e.lastId) /\ \A c \in e.work[w].live : c \in C /\ c \in Coins
    BY <1>3 DEF C
  <2> QED
    BY <1>1, <2>1, <2>2, <2>3 DEF JobsKnown
<1>9. ASSUME NEW c \in Coins PROVE SharesAreOf(acc'[t][c], f[c])
  <2>1. acc'[t][c] = IF ~e.known[c] THEN <<>> ELSE acc[t][c]
    BY <1>1 DEF Flush, StaleAccumulators, TypeOK
  <2>2. CASE ~e.known[c]
    BY <2>1, <2>2 DEF SharesAreOf
  <2>3. CASE e.known[c]
    <3>1. f[c] = info[t][c]
      <4>1. PICK q \in Singles : Len(e[q][c]) > 0
        BY <2>3 DEF KnownIsInfo
      <4>2. Within(e, q, c, Newest(e, q, c))
        BY <4>1, NewestWithin DEF Sound, Seqs
      <4>3. e.work[Newest(e, q, c)].block[c] = info[t][c]
        BY <2>3, <4>2 DEF KnownIsInfo
      <4>4. c \in C => e.work[Newest(e, q, c)].block[c] = f[c]
        BY <1>6, <4>2
      <4> QED
        BY <1>2, <4>3, <4>4
    <3> QED
      BY <2>1, <2>3, <3>1
  <2> QED
    BY <2>2, <2>3
<1> QED
  BY <1>1, <1>7, <1>8, <1>9 DEF ThreadCredits, f, z

LEMMA CreditsAccept ==
    ASSUME EveryTreeFits, TypeOK, AllWhole, Credits, NEW t \in Threads, AcceptWork(t)
    PROVE  Credits'
<1>1. PICK e : Loaded(t, e) /\ Sound(e) /\ Stored(t, e) /\ (NotSent(t, e) \/ \E w : Sent(t, e, w))
  BY AcceptWorkDoes
<1>2. ledger' = ledger
  BY DEF AcceptWork
<1>3. Sound(store[t]) /\ jobs[t] \in SUBSET Nat /\ ThreadCredits(t)
  BY DEF TypeOK, StoreOK, Credits
<1>4. KnownIsInfo(e, info[t]) /\ JobsKnown(e, jobs[t])
  <2>1. CASE e = store[t]
    BY <1>3, <2>1 DEF ThreadCredits
  <2>2. ASSUME NEW c \in Coins, NEW b, Created(store[t], e, c, b)
        PROVE  KnownIsInfo(e, info[t]) /\ JobsKnown(e, jobs[t])
    BY <1>1, <1>3, <2>2, KnownAfterTemplate DEF ThreadCredits
  <2> QED
    BY <1>1, <2>1, <2>2 DEF Loaded
<1>5. CASE NotSent(t, e)
  <2>1. KnownIsInfo(store'[t], info[t]) /\ JobsKnown(store'[t], jobs[t])
    BY <1>1, <1>4, <1>5, AlikeKnown DEF Stored, NotSent
  <2>2. ThreadCredits(t)'
    BY <1>3, <1>5, <2>1 DEF ThreadCredits, NotSent
  <2>3. \A u \in Threads : u # t => ThreadCredits(u)'
    BY <1>1, <1>5 DEF Credits, ThreadCredits, NotSent, Stored
  <2> QED
    BY <1>2, <1>5, <2>2, <2>3 DEF Credits, NotSent
<1>6. ASSUME NEW w, Sent(t, e, w) PROVE Credits'
  <2>1. e.work[w].live = CoinsOf(e.work[w])
    <3>1. PICK p \in inst.primary : w = FetchWork(e, p)
      BY <1>6 DEF Sent
    <3>2. p \in Coins
      BY Instance
    <3>3. w # NoWork
      <4>1. w \in DOMAIN e.work
        BY <1>6 DEF Sent
      <4>2. w \in Nat /\ 0 < w
        BY <1>1, <4>1, IdIs DEF Sound
      <4> QED
        BY <4>2 DEF NoWork
    <3>4. Whole(e)
      BY <1>1, LoadedWhole
    <3> QED
      BY <1>1, <3>1, <3>2, <3>3, <3>4, SentIsWhole DEF Sound
  <2>2. ThreadCredits(t)'
    BY <1>1, <1>3, <1>4, <1>6, <2>1, CreditsSent DEF ThreadCredits
  <2>3. \A u \in Threads : u # t => ThreadCredits(u)'
    <3>1. \A u \in Threads : u # t =>
             info'[u] = info[u] /\ acc'[u] = acc[u] /\ jobs'[u] = jobs[u] /\ store'[u] = store[u]
      BY <1>1, <1>6 DEF Sent, Flush, TypeOK, Stored
    <3> QED
      BY <3>1 DEF Credits, ThreadCredits
  <2>4. queue' \in [Coins -> Seq(GoodEntries)]
    <3>1. <<>> \in Seq(GoodEntries) /\ queue \in [Coins -> Seq(GoodEntries)]
      BY DEF Credits
    <3>2. Flush(t, StaleAccumulators(e), <<>>)
      BY <1>6 DEF Sent
    <3> QED
      BY <1>3, <3>1, <3>2, FlushEntries, GoodBatch
  <2> QED
    BY <1>2, <2>2, <2>3, <2>4 DEF Credits
<1> QED
  BY <1>1, <1>5, <1>6

LEMMA CreditsSubmit ==
    ASSUME TypeOK, Credits, NEW t \in Threads, NEW id, NEW v, NEW nonce, NEW good, NEW blocks, NEW pend,
           Submit(t, id, v, nonce, good, blocks, pend)
    PROVE  Credits'
<1> DEFINE s == store[t]
           w == s.work[id]
           share == TheShare(t, id, v, nonce)
<1>1. /\ UNCHANGED <<jobs, info, queue, ledger>>
      /\ id \in s.byId
      /\ acc' = AddShare(t, id, share) \/ acc' = acc
  BY DEF Submit, TheShare, HashOf, backend
<1>2. Noted(t, id, v, nonce, pend)
  BY SubmitNotes
<1>3. ThreadCredits(t) /\ Sound(s)
  BY DEF Credits, TypeOK, StoreOK
<1>4. KnownIsInfo(store'[t], info[t]) /\ JobsKnown(store'[t], jobs[t])
  BY <1>2, <1>3, AlikeKnown DEF Noted, ThreadCredits
<1>5. ASSUME NEW c \in Coins, c \in w.live, id \in jobs[t] PROVE w.block[c] = info[t][c]
  <2>1. id \in DOMAIN s.work
    BY <1>1, Live
  <2>2. s.known[c]
    BY <1>1, <1>3, <1>5, <2>1 DEF ThreadCredits, JobsKnown
  <2> DEFINE part == w.part[c]
  <2>3. Own(s, part, c) /\ s.work[part].block[c] = w.block[c]
    BY <1>3, <1>5, <2>1 DEF Sound, StorageOK, LinksOK
  <2> HIDE DEF part
  <2>4. PICK q \in Singles : Within(s, q, c, part)
    BY <1>3, <2>3, OwnWithin DEF Sound
  <2> QED
    BY <1>3, <2>2, <2>3, <2>4 DEF ThreadCredits, KnownIsInfo
<1> HIDE DEF share, w
<1>6. ASSUME NEW c \in Coins PROVE SharesAreOf(acc'[t][c], info[t][c])
  <2>1. acc[t][c] \in Seq(Shares) /\ SharesAreOf(acc[t][c], info[t][c])
    BY <1>3 DEF TypeOK, ThreadCredits
  <2>2. CASE c \in w.live /\ acc' = AddShare(t, id, share)
    <3> DEFINE x == [hash |-> share.hash, at |-> share.at, block |-> w.block[c],
                     turn |-> turn[t][c].n, sent |-> id \in jobs[t]]
    <3>1. acc'[t][c] = Append(acc[t][c], x)
      BY <2>2 DEF AddShare, TypeOK, w
    <3>2. x.sent => x.block = info[t][c]
      BY <1>5, <2>2
    <3> HIDE DEF x
    <3>3. ASSUME NEW k \in DOMAIN acc'[t][c], acc'[t][c][k].sent PROVE acc'[t][c][k].block = info[t][c]
      <4>1. CASE k \in DOMAIN acc[t][c]
        <5>1. acc'[t][c][k] = acc[t][c][k]
          BY <2>1, <3>1, <4>1
        <5> QED
          BY <2>1, <3>3, <4>1, <5>1 DEF SharesAreOf
      <4>2. CASE k \notin DOMAIN acc[t][c]
        <5>1. acc'[t][c][k] = x
          BY <2>1, <3>1, <3>3, <4>2
        <5> QED
          BY <3>2, <3>3, <5>1
      <4> QED
        BY <4>1, <4>2
    <3> QED
      BY <3>3, Zenon DEF SharesAreOf
  <2>3. CASE c \notin w.live \/ acc' = acc
    <3>1. c \notin w.live /\ acc' = AddShare(t, id, share) => acc'[t][c] = acc[t][c]
      BY DEF AddShare, TypeOK, w
    <3>2. acc'[t][c] = acc[t][c]
      BY <1>1, <2>3, <3>1 DEF w, share
    <3> QED
      BY <2>1, <3>2
  <2> QED
    BY <1>1, <2>2, <2>3
<1>7. ThreadCredits(t)'
  BY <1>1, <1>4, <1>6 DEF ThreadCredits
<1>8. \A u \in Threads : u # t => ThreadCredits(u)'
  <2>1. \A u \in Threads : u # t => acc'[u] = acc[u] /\ store'[u] = store[u]
    BY <1>1, <1>2 DEF AddShare, TypeOK, Noted
  <2> QED
    BY <1>1, <2>1 DEF Credits, ThreadCredits
<1> QED
  BY <1>1, <1>7, <1>8 DEF Credits

LEMMA CreditsFlush ==
    ASSUME TypeOK, Credits, NEW t \in Threads, NEW C, NEW then \in Seq(GoodEntries), Flush(t, C, then),
           UNCHANGED <<store, jobs, info, ledger>>
    PROVE  Credits'
<1>1. queue' \in [Coins -> Seq(GoodEntries)]
  BY FlushEntries, GoodBatch DEF Credits
<1>2. \A u \in Threads, c \in Coins : acc'[u][c] = acc[u][c] \/ acc'[u][c] = <<>>
  BY DEF Flush, TypeOK
<1>3. \A u \in Threads : ThreadCredits(u)'
  <2> SUFFICES ASSUME NEW u \in Threads PROVE ThreadCredits(u)'
    OBVIOUS
  <2>1. ASSUME NEW c \in Coins PROVE SharesAreOf(acc'[u][c], info[u][c])
    <3>1. SharesAreOf(<<>>, info[u][c])
      BY DEF SharesAreOf
    <3>2. SharesAreOf(acc[u][c], info[u][c])
      BY DEF Credits, ThreadCredits
    <3> QED
      BY <1>2, <3>1, <3>2
  <2> QED
    BY <2>1 DEF Credits, ThreadCredits
<1> QED
  BY <1>1, <1>3 DEF Credits

LEMMA CreditsNext ==
    ASSUME EveryTreeFits, TypeOK, AllWhole, Credits, [Next]_vars
    PROVE  Credits'
<1>1. ASSUME UNCHANGED <<store, jobs, info, acc>>, UNCHANGED <<queue, ledger>> PROVE Credits'
  BY <1>1 DEF Credits, ThreadCredits
<1>2. ASSUME NEW c \in Coins, BackendStep(c) PROVE Credits'
  <2>1. UNCHANGED <<store, jobs, info, acc>>
    BY <1>2 DEF BackendStep, OnUserWorkSummary, OnBlockFound, OnMergedBlockNotification, work
  <2>2. queue' \in [Coins -> Seq(GoodEntries)] /\ ledger' \in [Coins -> Seq(GoodEntries)]
    BY <1>2, OtherEntries, BackendEntries DEF Credits
  <2> QED
    BY <2>1, <2>2 DEF Credits, ThreadCredits
<1>3. ASSUME NEW t \in Threads, NEW c \in Coins, FlushWork(t, c) PROVE Credits'
  <2>1. <<>> \in Seq(GoodEntries)
    OBVIOUS
  <2> QED
    BY <1>3, <2>1, CreditsFlush DEF FlushWork, work
<1>4. ASSUME NEW op \in submits, NEW n, NodeAccepts(op, n) PROVE Credits'
  <2>1. UNCHANGED <<store, jobs, info, ledger>>
    BY <1>4 DEF NodeAccepts, work
  <2>2. CASE op.ok = 0
    <3>1. op \in Ops(inst)
      BY DEF TypeOK
    <3> DEFINE x == [kind |-> "block", block |-> op.block, hash |-> op.hash, at |-> op.at,
                     thread |-> op.thread, others |-> op.others]
    <3>2. x \in GoodEntries
      BY <3>1, OtherEntries DEF Ops, Found
    <3> HIDE DEF x
    <3>3. BlockFound(op) \in Seq(GoodEntries)
      BY <3>2 DEF BlockFound, x
    <3>4. op.thread \in Threads
      BY <3>1 DEF Ops
    <3> QED
      BY <1>4, <2>1, <2>2, <3>3, <3>4, CreditsFlush DEF NodeAccepts, BlockAccepted
  <2>3. CASE op.ok # 0
    BY <1>1, <1>4, <2>1, <2>3 DEF NodeAccepts
  <2> QED
    BY <2>2, <2>3
<1>5. ASSUME Stop PROVE Credits'
  <2>1. \A c \in Coins : EmptyStorage(inst).known[c] = FALSE
    BY DEF EmptyStorage
  <2>2. KnownIsInfo(EmptyStorage(inst), [c \in Coins |-> NoBlock]) /\ JobsKnown(EmptyStorage(inst), {})
    BY <2>1 DEF KnownIsInfo, JobsKnown
  <2>3. \A b : SharesAreOf(<<>>, b)
    BY DEF SharesAreOf
  <2> QED
    BY <1>5, <2>2, <2>3 DEF Stop, Credits, ThreadCredits, backend
<1>6. ASSUME NEW t \in Threads, AcceptWork(t) PROVE Credits'
  BY <1>6, CreditsAccept
<1>7. ASSUME NEW t \in Threads, NEW id, NEW v, NEW nonce, NEW good, NEW blocks, NEW pend,
             Submit(t, id, v, nonce, good, blocks, pend)
      PROVE  Credits'
  BY <1>7, CreditsSubmit
<1>8. ASSUME \/ UNCHANGED vars
             \/ \E c \in Coins, b \in Blocks : NewBlockTemplate(c, b)
             \/ \E t \in Threads, c \in Coins : RttTimer(t, c)
             \/ \E op \in submits, n \in inst.nodes : NodeFails(op, n)
      PROVE  Credits'
  BY <1>1, <1>8 DEF vars, work, backend, NewBlockTemplate, RttTimer, NodeFails
<1> QED
  BY <1>2, <1>3, <1>4, <1>5, <1>6, <1>7, <1>8 DEF Next

LEMMA LogType ==
    ASSUME NEW E, queue \in [Coins -> Seq(E)], ledger \in [Coins -> Seq(E)], NEW c \in Coins
    PROVE  /\ Log(c) \in Seq(E) /\ Len(Log(c)) = Len(ledger[c]) + Len(queue[c])
           /\ Len(Log(c)) \in Nat /\ DOMAIN Log(c) = 1 .. Len(Log(c))
           /\ \A i \in 1 .. Len(ledger[c]) : Log(c)[i] = ledger[c][i]
           /\ \A i \in 1 .. Len(queue[c]) : Log(c)[Len(ledger[c]) + i] = queue[c][i]
           /\ \A i \in 1 .. Len(Log(c)) : Log(c)[i] \in E
<1> DEFINE x == ledger[c]
           y == queue[c]
<1>1. x \in Seq(E) /\ y \in Seq(E) /\ Log(c) = x \o y
  BY DEF Log
<1> HIDE DEF x, y
<1>2. /\ Log(c) \in Seq(E) /\ Len(Log(c)) = Len(x) + Len(y)
      /\ \A i \in 1 .. Len(x) : Log(c)[i] = x[i]
      /\ \A i \in 1 .. Len(y) : Log(c)[Len(x) + i] = y[i]
  <2>1. /\ x \o y \in Seq(E) /\ Len(x \o y) = Len(x) + Len(y)
        /\ \A i \in 1 .. Len(x) + Len(y) : (x \o y)[i] = IF i <= Len(x) THEN x[i] ELSE y[i - Len(x)]
    BY <1>1, ConcatProperties
  <2>2. Len(x) \in Nat /\ Len(y) \in Nat
    BY <1>1
  <2>3. ASSUME NEW i \in 1 .. Len(x) PROVE (x \o y)[i] = x[i]
    BY <2>1, <2>2
  <2>4. ASSUME NEW i \in 1 .. Len(y) PROVE (x \o y)[Len(x) + i] = y[i]
    <3>1. Len(x) + i \in 1 .. Len(x) + Len(y) /\ ~(Len(x) + i <= Len(x)) /\ (Len(x) + i) - Len(x) = i
      BY <2>2
    <3> QED
      BY <2>1, <3>1
  <2> QED
    BY <1>1, <2>1, <2>3, <2>4
<1> QED
  BY <1>2 DEF x, y

\* A share on a work that was sent to the miners is paid by the reward and
\* difficulty of the block it was mined for: acceptWork flushes the accumulators of
\* the coins whose work is new before it sets their block info (stratum.h).
THEOREM CreditedForItsBlockHolds == ASSUME EveryTreeFits PROVE Spec => []CreditedForItsBlock
<1>1. Init => AllWhole /\ Credits
  BY WholeInit, CreditsInit
<1>2. TypeOK /\ AllWhole /\ Credits /\ [Next]_vars => AllWhole' /\ Credits'
  BY WholeNext, CreditsNext
<1>3. TypeOK /\ Credits => CreditedForItsBlock
  <2> SUFFICES ASSUME TypeOK, Credits PROVE CreditedForItsBlock
    OBVIOUS
  <2>1. \A c \in Coins, t \in Threads : \A k \in DOMAIN acc[t][c] :
           acc[t][c][k].sent => acc[t][c][k].block = info[t][c]
    BY DEF Credits, ThreadCredits, SharesAreOf
  <2>2. ASSUME NEW c \in Coins, NEW e \in Range(Log(c)), HasWork(e), NEW k \in DOMAIN e.shares, e.shares[k].sent
        PROVE  e.shares[k].block = e.info
    <3>1. e \in GoodEntries
      BY LogType DEF Credits, Range
    <3> QED
      BY <2>2, <3>1 DEF GoodEntries, Credited, SharesAreOf
  <2> QED
    BY <2>1, <2>2 DEF CreditedForItsBlock
<1> QED
  BY <1>1, <1>2, <1>3, TypesHold, PTL DEF Spec

----------------------------------------------------------------------------
(* Logs: the shares and blocks of one coin, in the accumulators a of the   *)
(* threads and in a log x.                                                 *)

\* The shares of coin c that the threads have in their accumulators.
Column(c) == [t \in Threads |-> acc[t][c]]
Columns == [Threads -> Seq(Shares)]
Logs == Seq(Entries)

\* The shares of an entry.
Batched(x, k) == IF HasWork(x[k]) THEN x[k].shares ELSE <<>>

\* Entry e comes behind log x.
Longer(x, y, e) ==
    /\ Len(y) = Len(x) + 1 /\ \A i \in 1 .. Len(x) : y[i] = x[i]
    /\ y[Len(x) + 1] = e

\* The accumulator of thread t is emptied into a batch, if there is anything.
Cut(t, a, x, b, y) ==
    /\ \A u \in Threads : b[u] = IF u = t THEN <<>> ELSE a[u]
    /\ IF a[t] = <<>> THEN y = x
       ELSE \E e \in Works : e.shares = a[t] /\ Longer(x, y, e)

\* The work and the blocks of y are those of x, in the same order.
SameWork(x, y) ==
    \E f \in [1 .. Len(y) -> Nat] :
        /\ \A i \in 1 .. Len(y) : ~(y[i] \in Merges) => f[i] \in 1 .. Len(x) /\ x[f[i]] = y[i]
        /\ \A i, j \in 1 .. Len(y) : ~(y[i] \in Merges) /\ ~(y[j] \in Merges) /\ i < j => f[i] < f[j]
        /\ \A k \in 1 .. Len(x) : ~(x[k] \in Merges) => \E i \in 1 .. Len(y) : f[i] = k /\ y[i] = x[k]

\* A share is put in the accumulator of thread t.
Added(t, a, b, s) ==
    /\ \A u \in Threads : u # t => b[u] = a[u]
    /\ b[t] = Append(a[t], s)

LEMMA Kinds ==
    ASSUME NEW e \in Entries
    PROVE  /\ HasWork(e) \/ HasBlock(e) \/ e.kind = "merged"
           /\ e \in Merges <=> e.kind = "merged"
           /\ HasWork(e) <=> e \in Works
           /\ HasBlock(e) <=> e \in Found
  BY DEF Entries, Works, Found, Merges, HasWork, HasBlock

LEMMA LogsOf ==
    ASSUME NEW x \in Logs
    PROVE  /\ Len(x) \in Nat /\ DOMAIN x = 1 .. Len(x)
           /\ \A k \in 1 .. Len(x) : x[k] \in Entries
  BY DEF Logs

LEMMA SameLog ==
    ASSUME NEW x \in Logs
    PROVE  SameWork(x, x)
<1> DEFINE f == [i \in 1 .. Len(x) |-> i]
<1>1. Len(x) \in Nat
  BY LogsOf
<1>2. f \in [1 .. Len(x) -> Nat] /\ \A i \in 1 .. Len(x) : f[i] = i
  BY <1>1
<1> HIDE DEF f
<1> QED
  BY <1>2 DEF SameWork

LEMMA LogWithMerge ==
    ASSUME NEW x \in Logs, NEW y \in Logs, NEW e \in Merges, Longer(x, y, e)
    PROVE  SameWork(x, y)
<1> DEFINE f == [i \in 1 .. Len(y) |-> i]
<1>1. Len(x) \in Nat /\ Len(y) = Len(x) + 1
  BY LogsOf DEF Longer
<1>2. f \in [1 .. Len(y) -> Nat] /\ \A i \in 1 .. Len(y) : f[i] = i
  BY <1>1
<1> HIDE DEF f
<1>3. \A i \in 1 .. Len(y) : i \in 1 .. Len(x) \/ y[i] \in Merges
  BY <1>1 DEF Longer
<1>4. \A i \in 1 .. Len(x) : i \in 1 .. Len(y) /\ y[i] = x[i]
  BY <1>1 DEF Longer
<1>5. \A i \in 1 .. Len(y) : ~(y[i] \in Merges) => f[i] \in 1 .. Len(x) /\ x[f[i]] = y[i]
  BY <1>2, <1>3, <1>4
<1>6. \A i, j \in 1 .. Len(y) : ~(y[i] \in Merges) /\ ~(y[j] \in Merges) /\ i < j => f[i] < f[j]
  BY <1>2
<1>7. \A k \in 1 .. Len(x) : ~(x[k] \in Merges) => \E i \in 1 .. Len(y) : f[i] = k /\ y[i] = x[k]
  BY <1>2, <1>4
<1> QED
  BY <1>2, <1>5, <1>6, <1>7 DEF SameWork

\* The entry at position m, which tells of a merged block, leaves the log.
Shorter(x, y, m) ==
    /\ Len(x) = Len(y) + 1
    /\ \A i \in 1 .. Len(y) : y[i] = x[IF i < m THEN i ELSE i + 1]

LEMMA LogWithoutMerge ==
    ASSUME NEW x \in Logs, NEW y \in Logs, NEW m \in 1 .. Len(x), x[m] \in Merges, Shorter(x, y, m)
    PROVE  SameWork(x, y)
<1> DEFINE f == [i \in 1 .. Len(y) |-> IF i < m THEN i ELSE i + 1]
<1>1. Len(x) \in Nat /\ Len(y) \in Nat /\ Len(x) = Len(y) + 1 /\ m \in Nat
  BY LogsOf DEF Shorter
<1>2. f \in [1 .. Len(y) -> Nat] /\ \A i \in 1 .. Len(y) : f[i] = IF i < m THEN i ELSE i + 1
  BY <1>1
<1> HIDE DEF f
<1>3. \A i \in 1 .. Len(y) : f[i] \in 1 .. Len(x) /\ x[f[i]] = y[i]
  <2>1. \A i \in 1 .. Len(y) : f[i] \in 1 .. Len(x)
    BY <1>1, <1>2
  <2> QED
    BY <1>2, <2>1 DEF Shorter
<1>4. \A i, j \in 1 .. Len(y) : i < j => f[i] < f[j]
  BY <1>1, <1>2
<1>5. ASSUME NEW k \in 1 .. Len(x), ~(x[k] \in Merges)
      PROVE  \E i \in 1 .. Len(y) : f[i] = k /\ y[i] = x[k]
  <2>1. CASE k < m
    <3>1. k \in 1 .. Len(y) /\ f[k] = k
      BY <1>1, <1>2, <2>1
    <3> QED
      BY <1>3, <3>1
  <2>2. CASE ~(k < m)
    <3>1. k > m
      BY <1>1, <1>5, <2>2
    <3>2. k - 1 \in 1 .. Len(y) /\ f[k - 1] = k
      BY <1>1, <1>2, <3>1
    <3> QED
      BY <1>3, <3>2
  <2> QED
    BY <2>1, <2>2
<1> QED
  BY <1>2, <1>3, <1>4, <1>5 DEF SameWork

\* Share h is in a list, in a batch of a log, or in an accumulator.
Here(z, h) == \E i \in DOMAIN z : z[i] = h
InWork(x, h) == \E k \in 1 .. Len(x) : Here(Batched(x, k), h)
InAcc(a, h) == \E t \in Threads : Here(a[t], h)

\* No share is there twice.
OnceInAcc(a) ==
    \A t, u \in Threads : \A i \in DOMAIN a[t], j \in DOMAIN a[u] : a[t][i] = a[u][j] => t = u /\ i = j
OnceInWork(x) ==
    \A k, l \in 1 .. Len(x) : \A i \in DOMAIN Batched(x, k), j \in DOMAIN Batched(x, l) :
        Batched(x, k)[i] = Batched(x, l)[j] => k = l /\ i = j
Once(a, x) == OnceInAcc(a) /\ OnceInWork(x) /\ \A h : ~(InAcc(a, h) /\ InWork(x, h))

LEMMA MapOf ==
    ASSUME NEW x \in Logs, NEW y \in Logs, SameWork(x, y)
    PROVE  \E f \in [1 .. Len(y) -> Nat] :
        /\ \A i \in 1 .. Len(y) : DOMAIN Batched(y, i) # {} \/ HasBlock(y[i]) =>
               f[i] \in 1 .. Len(x) /\ x[f[i]] = y[i] /\ Batched(x, f[i]) = Batched(y, i) /\ ~(y[i] \in Merges)
        /\ \A i, j \in 1 .. Len(y) : ~(y[i] \in Merges) /\ ~(y[j] \in Merges) => ((i < j) <=> (f[i] < f[j]))
        /\ \A k \in 1 .. Len(x) : DOMAIN Batched(x, k) # {} \/ HasBlock(x[k]) =>
               \E i \in 1 .. Len(y) : f[i] = k /\ y[i] = x[k] /\ Batched(y, i) = Batched(x, k) /\ ~(y[i] \in Merges)
<1>1. PICK f \in [1 .. Len(y) -> Nat] :
        /\ \A i \in 1 .. Len(y) : ~(y[i] \in Merges) => f[i] \in 1 .. Len(x) /\ x[f[i]] = y[i]
        /\ \A i, j \in 1 .. Len(y) : ~(y[i] \in Merges) /\ ~(y[j] \in Merges) /\ i < j => f[i] < f[j]
        /\ \A k \in 1 .. Len(x) : ~(x[k] \in Merges) => \E i \in 1 .. Len(y) : f[i] = k /\ y[i] = x[k]
  BY DEF SameWork
<1>2. \A z \in Logs : \A i \in 1 .. Len(z) : DOMAIN Batched(z, i) # {} \/ HasBlock(z[i]) => ~(z[i] \in Merges)
  <2>1. DOMAIN <<>> = {}
    OBVIOUS
  <2> QED
    BY <2>1, LogsOf, Kinds DEF Batched, HasWork, HasBlock
<1>3. \A i, j \in 1 .. Len(y) : ~(y[i] \in Merges) /\ ~(y[j] \in Merges) => ((i < j) <=> (f[i] < f[j]))
  <2> SUFFICES ASSUME NEW i \in 1 .. Len(y), NEW j \in 1 .. Len(y), ~(y[i] \in Merges), ~(y[j] \in Merges)
               PROVE  (i < j) <=> (f[i] < f[j])
    OBVIOUS
  <2>1. i \in Nat /\ j \in Nat /\ f[i] \in Nat /\ f[j] \in Nat
    BY LogsOf
  <2>2. (i < j => f[i] < f[j]) /\ (j < i => f[j] < f[i])
    BY <1>1
  <2>3. i < j \/ i = j \/ j < i
    BY <2>1
  <2> QED
    BY <2>1, <2>2, <2>3
<1> QED
  BY <1>1, <1>2, <1>3 DEF Batched

LEMMA WorkStays ==
    ASSUME NEW x \in Logs, NEW y \in Logs, SameWork(x, y), NEW h
    PROVE  InWork(y, h) <=> InWork(x, h)
<1>1. PICK f \in [1 .. Len(y) -> Nat] :
        /\ \A i \in 1 .. Len(y) : DOMAIN Batched(y, i) # {} \/ HasBlock(y[i]) =>
               f[i] \in 1 .. Len(x) /\ x[f[i]] = y[i] /\ Batched(x, f[i]) = Batched(y, i) /\ ~(y[i] \in Merges)
        /\ \A k \in 1 .. Len(x) : DOMAIN Batched(x, k) # {} \/ HasBlock(x[k]) =>
               \E i \in 1 .. Len(y) : f[i] = k /\ y[i] = x[k] /\ Batched(y, i) = Batched(x, k) /\ ~(y[i] \in Merges)
  BY MapOf
<1> QED
  BY <1>1 DEF InWork, Here

LEMMA OnceStays ==
    ASSUME NEW x \in Logs, NEW y \in Logs, SameWork(x, y), NEW a, Once(a, x)
    PROVE  Once(a, y)
<1>1. PICK f \in [1 .. Len(y) -> Nat] :
        /\ \A i \in 1 .. Len(y) : DOMAIN Batched(y, i) # {} \/ HasBlock(y[i]) =>
               f[i] \in 1 .. Len(x) /\ x[f[i]] = y[i] /\ Batched(x, f[i]) = Batched(y, i) /\ ~(y[i] \in Merges)
        /\ \A i, j \in 1 .. Len(y) : ~(y[i] \in Merges) /\ ~(y[j] \in Merges) => ((i < j) <=> (f[i] < f[j]))
  BY MapOf
<1>2. ASSUME NEW k \in 1 .. Len(y), NEW l \in 1 .. Len(y),
             NEW i \in DOMAIN Batched(y, k), NEW j \in DOMAIN Batched(y, l),
             Batched(y, k)[i] = Batched(y, l)[j]
      PROVE  k = l /\ i = j
  <2>1. /\ f[k] \in 1 .. Len(x) /\ Batched(x, f[k]) = Batched(y, k) /\ ~(y[k] \in Merges)
        /\ f[l] \in 1 .. Len(x) /\ Batched(x, f[l]) = Batched(y, l) /\ ~(y[l] \in Merges)
    BY <1>1
  <2>2. f[k] = f[l] /\ i = j
    BY <1>2, <2>1 DEF Once, OnceInWork
  <2>3. k \in Nat /\ l \in Nat /\ f[k] \in Nat
    BY LogsOf
  <2>4. ~(k < l) /\ ~(l < k)
    BY <1>1, <2>1, <2>2, <2>3
  <2> QED
    BY <2>2, <2>3, <2>4
<1>3. OnceInWork(y)
  BY <1>2 DEF OnceInWork
<1> QED
  BY <1>3, WorkStays DEF Once

LEMMA LongerWork ==
    ASSUME NEW x \in Logs, NEW y \in Logs, NEW e, Longer(x, y, e)
    PROVE  /\ Len(x) \in Nat /\ Len(y) = Len(x) + 1 /\ Len(y) \in 1 .. Len(y)
           /\ \A k \in 1 .. Len(x) : k \in 1 .. Len(y) /\ y[k] = x[k] /\ Batched(y, k) = Batched(x, k)
           /\ \A k \in 1 .. Len(y) : k \in 1 .. Len(x) \/ k = Len(y)
           /\ y[Len(y)] = e /\ ~(Len(y) \in 1 .. Len(x))
           /\ Batched(y, Len(y)) = IF HasWork(e) THEN e.shares ELSE <<>>
  BY LogsOf DEF Longer, Batched

LEMMA CutWork ==
    ASSUME NEW t \in Threads, NEW a, NEW x \in Logs, NEW b, NEW y \in Logs, Cut(t, a, x, b, y), NEW h
    PROVE  /\ (InAcc(b, h) \/ InWork(y, h)) <=> (InAcc(a, h) \/ InWork(x, h))
           /\ InWork(x, h) \/ Here(a[t], h) => InWork(y, h)
           /\ InAcc(b, h) => InAcc(a, h)
<1>1. \A u \in Threads : b[u] = IF u = t THEN <<>> ELSE a[u]
  BY DEF Cut
<1>2. ~Here(<<>>, h)
  BY DEF Here
<1>3. InAcc(a, h) <=> (InAcc(b, h) \/ Here(a[t], h))
  BY <1>1, <1>2 DEF InAcc
<1>4. CASE a[t] = <<>>
  BY <1>2, <1>3, <1>4 DEF Cut
<1>5. CASE a[t] # <<>>
  <2>1. PICK e \in Works : e.shares = a[t] /\ Longer(x, y, e)
    BY <1>5 DEF Cut
  <2>2. HasWork(e)
    BY DEF Works, HasWork
  <2>3. InWork(y, h) <=> (InWork(x, h) \/ Here(a[t], h))
    BY <2>1, <2>2, LongerWork DEF InWork
  <2> QED
    BY <1>3, <2>3
<1> QED
  BY <1>4, <1>5

LEMMA OnceCut ==
    ASSUME NEW t \in Threads, NEW a, NEW x \in Logs, NEW b, NEW y \in Logs, Cut(t, a, x, b, y), Once(a, x)
    PROVE  Once(b, y)
<1>1. \A u \in Threads : b[u] = IF u = t THEN <<>> ELSE a[u]
  BY DEF Cut
<1>2. DOMAIN <<>> = {} /\ \A h : ~Here(<<>>, h)
  BY DEF Here
<1>3. OnceInAcc(b)
  BY <1>1, <1>2 DEF Once, OnceInAcc
<1>4. CASE a[t] = <<>>
  <2>1. y = x /\ \A h : InAcc(b, h) => InAcc(a, h)
    BY <1>4, CutWork DEF Cut
  <2> QED
    BY <1>3, <2>1 DEF Once
<1>5. CASE a[t] # <<>>
  <2>1. PICK e \in Works : e.shares = a[t] /\ Longer(x, y, e)
    BY <1>5 DEF Cut
  <2>2. HasWork(e)
    BY DEF Works, HasWork
  <2>3. \A h : Here(a[t], h) => ~InWork(x, h)
    BY DEF Once, InAcc
  <2>4. ASSUME NEW k \in 1 .. Len(y), NEW l \in 1 .. Len(y),
               NEW i \in DOMAIN Batched(y, k), NEW j \in DOMAIN Batched(y, l),
               Batched(y, k)[i] = Batched(y, l)[j]
        PROVE  k = l /\ i = j
    <3>1. \A m \in 1 .. Len(y) : \A n \in DOMAIN Batched(y, m) :
              m = Len(y) => Batched(y, m) = a[t] /\ Here(a[t], Batched(y, m)[n])
      BY <2>1, <2>2, LongerWork DEF Here
    <3>2. \A m \in 1 .. Len(y) : \A n \in DOMAIN Batched(y, m) :
              m # Len(y) => m \in 1 .. Len(x) /\ Batched(y, m) = Batched(x, m) /\ InWork(x, Batched(y, m)[n])
      BY <2>1, LongerWork DEF Here, InWork
    <3>3. CASE k = Len(y) /\ l = Len(y)
      BY <2>4, <3>1, <3>3 DEF Once, OnceInAcc
    <3>4. CASE k # Len(y) /\ l # Len(y)
      BY <2>4, <3>2, <3>4 DEF Once, OnceInWork
    <3> QED
      BY <2>3, <2>4, <3>1, <3>2, <3>3, <3>4
  <2>5. OnceInWork(y)
    BY <2>4 DEF OnceInWork
  <2>6. ASSUME NEW h, InAcc(b, h), InWork(y, h) PROVE FALSE
    <3>1. PICK u \in Threads : Here(b[u], h)
      BY <2>6 DEF InAcc
    <3>2. u # t /\ Here(a[u], h) /\ InAcc(a, h)
      BY <1>1, <1>2, <3>1 DEF InAcc
    <3>3. ~Here(a[t], h)
      BY <3>2 DEF Here, Once, OnceInAcc
    <3>4. InWork(x, h)
      BY <2>1, <2>2, <2>6, <3>3, LongerWork DEF InWork
    <3> QED
      BY <3>2, <3>4 DEF Once
  <2> QED
    BY <1>3, <2>5, <2>6 DEF Once
<1> QED
  BY <1>4, <1>5

LEMMA AddedHere ==
    ASSUME NEW t \in Threads, NEW a \in Columns, NEW b, NEW s \in Shares, Added(t, a, b, s), NEW h
    PROVE  InAcc(b, h) <=> (InAcc(a, h) \/ h = s)
<1>1. /\ DOMAIN b[t] = DOMAIN a[t] \cup {Len(a[t]) + 1} /\ b[t][Len(a[t]) + 1] = s
      /\ \A i \in DOMAIN a[t] : b[t][i] = a[t][i]
  <2>1. a[t] \in Seq(Shares) /\ b[t] = Append(a[t], s)
    BY DEF Columns, Added
  <2> QED
    BY <2>1
<1>2. Here(b[t], h) <=> (Here(a[t], h) \/ h = s)
  BY <1>1 DEF Here
<1>3. \A u \in Threads : u # t => b[u] = a[u]
  BY DEF Added
<1> QED
  BY <1>2, <1>3 DEF InAcc

LEMMA OnceAdded ==
    ASSUME NEW t \in Threads, NEW a \in Columns, NEW b, NEW s \in Shares, Added(t, a, b, s),
           NEW x, Once(a, x), ~InAcc(a, s), ~InWork(x, s)
    PROVE  Once(b, x)
<1>1. /\ DOMAIN b[t] = DOMAIN a[t] \cup {Len(a[t]) + 1} /\ b[t][Len(a[t]) + 1] = s
      /\ \A i \in DOMAIN a[t] : b[t][i] = a[t][i]
  <2>1. a[t] \in Seq(Shares) /\ b[t] = Append(a[t], s)
    BY DEF Columns, Added
  <2> QED
    BY <2>1
<1>2. \A u \in Threads : u # t => b[u] = a[u]
  BY DEF Added
<1>3. \A u \in Threads : \A i \in DOMAIN b[u] :
          \/ i \in DOMAIN a[u] /\ b[u][i] = a[u][i] /\ InAcc(a, b[u][i])
          \/ u = t /\ i = Len(a[t]) + 1 /\ b[u][i] = s
  BY <1>1, <1>2 DEF InAcc, Here
<1>4. OnceInAcc(b)
  <2> SUFFICES ASSUME NEW u \in Threads, NEW v \in Threads, NEW i \in DOMAIN b[u], NEW j \in DOMAIN b[v],
                      b[u][i] = b[v][j]
               PROVE  u = v /\ i = j
    BY DEF OnceInAcc
  <2>1. OnceInAcc(a)
    BY DEF Once
  <2> QED
    BY <1>3, <2>1 DEF OnceInAcc
<1> QED
  BY <1>4, AddedHere DEF Once

LEMMA OneMore ==
    ASSUME NEW S, NEW x \in Seq(S), NEW e \in S
    PROVE  /\ x \o <<e>> \in Seq(S) /\ x \o <<e>> = Append(x, e) /\ Longer(x, x \o <<e>>, e)
<1>1. <<e>> \in Seq(S) /\ Len(<<e>>) = 1 /\ <<e>>[1] = e /\ Len(x) \in Nat
  OBVIOUS
<1>2. /\ x \o <<e>> \in Seq(S) /\ Len(x \o <<e>>) = Len(x) + 1
      /\ \A i \in 1 .. Len(x) + 1 : (x \o <<e>>)[i] = IF i <= Len(x) THEN x[i] ELSE <<e>>[i - Len(x)]
  BY <1>1, ConcatProperties
<1> DEFINE z == x \o <<e>>
<1>3. /\ z \in Seq(S) /\ Len(z) = Len(x) + 1
      /\ \A i \in 1 .. Len(x) : z[i] = x[i]
      /\ z[Len(x) + 1] = e
  <2>1. \A i \in 1 .. Len(x) : i \in 1 .. Len(x) + 1 /\ i <= Len(x)
    BY <1>1
  <2>2. Len(x) + 1 \in 1 .. Len(x) + 1 /\ ~(Len(x) + 1 <= Len(x)) /\ (Len(x) + 1) - Len(x) = 1
    BY <1>1
  <2> QED
    BY <1>1, <1>2, <2>1, <2>2
<1> HIDE DEF z
<1>4. z = Append(x, e)
  <2>1. Append(x, e) \in Seq(S) /\ Len(Append(x, e)) = Len(x) + 1
        /\ \A i \in 1 .. Len(x) : Append(x, e)[i] = x[i]
        /\ Append(x, e)[Len(x) + 1] = e
    OBVIOUS
  <2>2. \A i \in 1 .. Len(z) : i \in 1 .. Len(x) \/ i = Len(x) + 1
    BY <1>1, <1>3
  <2>3. \A i \in 1 .. Len(z) : z[i] = Append(x, e)[i]
    BY <1>3, <2>1, <2>2
  <2> QED
    BY <1>3, <2>1, <2>3, SeqEqual
<1> QED
  BY <1>3, <1>4 DEF Longer, z

LEMMA Processed ==
    ASSUME NEW S, NEW x \in Seq(S), NEW q \in Seq(S), q # <<>>
    PROVE  /\ Append(x, Head(q)) \o Tail(q) = x \o q
           /\ Append(x, Head(q)) \in Seq(S) /\ Tail(q) \in Seq(S)
<1> DEFINE h == Head(q)
           r == Tail(q)
<1>1. h \in S /\ r \in Seq(S) /\ Len(r) = Len(q) - 1 /\ \A i \in 1 .. Len(r) : r[i] = q[i + 1]
  BY HeadTailProperties
<1>2. Len(q) \in Nat /\ Len(q) # 0 /\ h = q[1]
  OBVIOUS
<1> HIDE DEF h, r
<1>3. <<h>> \in Seq(S) /\ Append(x, h) = x \o <<h>> /\ Append(x, h) \in Seq(S)
  BY <1>1, OneMore
<1>4. <<h>> \o r = q
  <2>1. /\ <<h>> \o r \in Seq(S) /\ Len(<<h>> \o r) = 1 + Len(r)
        /\ \A i \in 1 .. 1 + Len(r) : (<<h>> \o r)[i] = IF i <= 1 THEN <<h>>[i] ELSE r[i - 1]
    <3>1. Len(<<h>>) = 1
      OBVIOUS
    <3> QED
      BY <1>1, <1>3, <3>1, ConcatProperties
  <2>2. Len(<<h>> \o r) = Len(q)
    BY <1>1, <1>2, <2>1
  <2>3. ASSUME NEW i \in 1 .. Len(q) PROVE (<<h>> \o r)[i] = q[i]
    <3>1. i \in 1 .. 1 + Len(r)
      BY <1>1, <1>2
    <3>2. CASE i = 1
      BY <1>2, <2>1, <3>1, <3>2
    <3>3. CASE i # 1
      <4>1. ~(i <= 1) /\ i - 1 \in 1 .. Len(r) /\ (i - 1) + 1 = i
        BY <1>1, <1>2, <3>3
      <4> QED
        BY <1>1, <2>1, <3>1, <4>1
    <3> QED
      BY <3>2, <3>3
  <2> DEFINE z == <<h>> \o r
  <2>4. z \in Seq(S) /\ Len(z) = Len(q) /\ \A i \in 1 .. Len(z) : z[i] = q[i]
    BY <2>1, <2>2, <2>3
  <2> HIDE DEF z
  <2>5. z = q
    BY <2>4, SeqEqual
  <2> QED
    BY <2>5 DEF z
<1>5. (x \o <<h>>) \o r = x \o (<<h>> \o r)
  BY <1>1, <1>3, ConcatAssociative
<1> QED
  BY <1>1, <1>3, <1>4, <1>5 DEF h, r

LEMMA ColumnType ==
    ASSUME TypeOK, NEW c \in Coins
    PROVE  Column(c) \in Columns /\ Log(c) \in Logs /\ \A t \in Threads : Column(c)[t] = acc[t][c]
<1>1. Log(c) \in Logs
  BY LogType DEF TypeOK, Logs
<1> QED
  BY <1>1 DEF TypeOK, Column, Columns

\* What is put behind queue q is put behind the log.
Joined(l, q, b, then) ==
    /\ l \o (q \o b) \in Logs
    /\ l \o ((q \o b) \o then) = (l \o (q \o b)) \o then
    /\ l \o (q \o b) = (l \o q) \o b

LEMMA FlushedLog ==
    ASSUME NEW l \in Logs, NEW q \in Logs, NEW b \in Logs, NEW then \in Logs
    PROVE  Joined(l, q, b, then)
<1>1. l \in Seq(Entries) /\ q \in Seq(Entries) /\ b \in Seq(Entries) /\ then \in Seq(Entries)
  BY DEF Logs
<1>2. q \o b \in Seq(Entries)
  BY <1>1, ConcatProperties
<1>3. (l \o q) \o b = l \o (q \o b)
  BY <1>1, ConcatAssociative
<1>4. ASSUME NEW m \in Seq(Entries)
      PROVE  l \o m \in Seq(Entries) /\ l \o (m \o then) = (l \o m) \o then
  <2>1. l \o m \in Seq(Entries)
    BY <1>1, ConcatProperties
  <2>2. (l \o m) \o then = l \o (m \o then)
    BY <1>1, ConcatAssociative, SMTT(30)
  <2> QED
    BY <2>1, <2>2
<1>5. l \o (q \o b) \in Seq(Entries) /\ l \o ((q \o b) \o then) = (l \o (q \o b)) \o then
  BY <1>2, <1>4
<1> QED
  BY <1>2, <1>3, <1>5 DEF Logs, Joined

\* A flush cuts the batch of coin c, and puts `then' behind it.
CutThen(c, t, then) == \E y \in Logs : Cut(t, Column(c), Log(c), Column(c)', y) /\ Log(c)' = y \o then

LEMMA FlushMoves ==
    ASSUME TypeOK, NEW t \in Threads, NEW C, NEW then \in Logs, Flush(t, C, then), ledger' = ledger,
           NEW c \in Coins
    PROVE  IF c \in C THEN CutThen(c, t, then) ELSE Column(c)' = Column(c) /\ Log(c)' = Log(c)
<1>1. Column(c) \in Columns /\ Log(c) \in Logs /\ \A u \in Threads : Column(c)[u] = acc[u][c]
  BY ColumnType
<1>2. CASE c \notin C
  <2>1. queue'[c] = queue[c] /\ \A u \in Threads : acc'[u][c] = acc[u][c]
    BY <1>2 DEF Flush, TypeOK
  <2> QED
    BY <1>2, <2>1 DEF Column, Log
<1>3. CASE c \in C
  <2> DEFINE b == TakeBatch(t, c)
             y == ledger[c] \o (queue[c] \o b)
  <2>1. b \in Logs
    <3>1. Batch(t, c) \in Works
      BY DEF Batch, Works, TypeOK
    <3>2. Batch(t, c) \in Entries
      BY <3>1 DEF Entries
    <3> HIDE DEF b
    <3> QED
      BY <3>2 DEF TakeBatch, Logs, b
  <2>2. ledger[c] \in Logs /\ queue[c] \in Logs /\ queue'[c] = (queue[c] \o b) \o then
    BY <1>3 DEF TypeOK, Logs, Flush
  <2>3. Log(c)' = ledger[c] \o ((queue[c] \o b) \o then) /\ Log(c) = ledger[c] \o queue[c]
    BY <2>2 DEF Log
  <2>4. \A u \in Threads : Column(c)'[u] = IF u = t THEN <<>> ELSE Column(c)[u]
    BY <1>1, <1>3 DEF Flush, Column, TypeOK
  <2>5. y \in Logs /\ Log(c)' = y \o then /\ y = Log(c) \o b
    <3> HIDE DEF b
    <3>1. Joined(ledger[c], queue[c], b, then)
      BY <2>1, <2>2, FlushedLog
    <3> QED
      BY <2>3, <3>1 DEF Joined
  <2> HIDE DEF b
  <2> HIDE DEF y
  <2>6. CASE acc[t][c] = <<>>
    <3>1. b = <<>> /\ y = Log(c)
      BY <1>1, <2>5, <2>6, ConcatEmptySeq DEF b, TakeBatch, Logs
    <3>2. Cut(t, Column(c), Log(c), Column(c)', y)
      BY <1>1, <2>4, <2>6, <3>1 DEF Cut
    <3> QED
      BY <1>3, <2>5, <3>2 DEF CutThen
  <2>7. CASE acc[t][c] # <<>>
    <3> DEFINE e == Batch(t, c)
    <3>1. e \in Works /\ e \in Entries /\ e.shares = acc[t][c] /\ b = <<e>>
      BY <2>7 DEF Batch, Works, TypeOK, Entries, b, TakeBatch
    <3> HIDE DEF e
    <3>2. Longer(Log(c), y, e)
      BY <1>1, <2>5, <3>1, OneMore DEF Logs
    <3>3. Cut(t, Column(c), Log(c), Column(c)', y)
      BY <1>1, <2>4, <2>7, <3>1, <3>2 DEF Cut
    <3> QED
      BY <1>3, <2>5, <3>3 DEF CutThen
  <2> QED
    BY <2>6, <2>7
<1> QED
  BY <1>2, <1>3

\* Every task of a backend leaves the work and the blocks of the logs.
LEMMA DoneBefore ==
    ASSUME NEW l \in Logs, NEW q \in Logs, q # <<>>, Head(q) \in Merges, NEW y, y = l \o Tail(q)
    PROVE  SameWork(l \o q, y)
<1> DEFINE x == l \o q
<1>1. l \in Seq(Entries) /\ q \in Seq(Entries)
  BY DEF Logs
<1>2. Tail(q) \in Seq(Entries) /\ Len(Tail(q)) = Len(q) - 1 /\ \A i \in 1 .. Len(Tail(q)) : Tail(q)[i] = q[i + 1]
  BY <1>1, HeadTailProperties
<1>3. Len(l) \in Nat /\ Len(q) \in Nat /\ Len(q) # 0 /\ Head(q) = q[1]
  BY <1>1
<1>4. /\ x \in Seq(Entries) /\ Len(x) = Len(l) + Len(q)
      /\ \A i \in 1 .. Len(l) + Len(q) : x[i] = IF i <= Len(l) THEN l[i] ELSE q[i - Len(l)]
  BY <1>1, ConcatProperties
<1>5. /\ y \in Seq(Entries) /\ Len(y) = Len(l) + (Len(q) - 1)
      /\ \A i \in 1 .. Len(l) + (Len(q) - 1) : y[i] = IF i <= Len(l) THEN l[i] ELSE Tail(q)[i - Len(l)]
  <2>1. /\ l \o Tail(q) \in Seq(Entries) /\ Len(l \o Tail(q)) = Len(l) + Len(Tail(q))
        /\ \A i \in 1 .. Len(l) + Len(Tail(q)) : (l \o Tail(q))[i] = IF i <= Len(l) THEN l[i] ELSE Tail(q)[i - Len(l)]
    BY <1>1, <1>2, ConcatProperties
  <2> QED
    BY <1>2, <2>1
<1> HIDE DEF x
<1> DEFINE m == Len(l) + 1
<1>6. m \in 1 .. Len(x) /\ x[m] = q[1]
  <2>1. m \in 1 .. Len(l) + Len(q) /\ ~(m <= Len(l)) /\ m - Len(l) = 1
    BY <1>3
  <2> QED
    BY <1>4, <2>1
<1>7. Shorter(x, y, m)
  <2>1. Len(x) = Len(y) + 1
    BY <1>3, <1>4, <1>5
  <2>2. ASSUME NEW i \in 1 .. Len(y) PROVE y[i] = x[IF i < m THEN i ELSE i + 1]
    <3>1. i \in 1 .. Len(l) + (Len(q) - 1) /\ i \in Nat
      BY <1>5
    <3>2. CASE i < m
      <4>1. i <= Len(l) /\ i \in 1 .. Len(l) + Len(q)
        BY <1>3, <3>1, <3>2
      <4> QED
        BY <1>4, <1>5, <3>1, <3>2, <4>1
    <3>3. CASE ~(i < m)
      <4>1. /\ ~(i <= Len(l)) /\ i + 1 \in 1 .. Len(l) + Len(q) /\ ~(i + 1 <= Len(l))
            /\ i - Len(l) \in 1 .. Len(q) - 1 /\ (i + 1) - Len(l) = (i - Len(l)) + 1
        BY <1>3, <3>1, <3>3
      <4>2. y[i] = Tail(q)[i - Len(l)] /\ x[i + 1] = q[(i + 1) - Len(l)]
        BY <1>4, <1>5, <3>1, <4>1
      <4>3. Tail(q)[i - Len(l)] = q[(i - Len(l)) + 1]
        BY <1>2, <4>1
      <4> QED
        BY <3>3, <4>1, <4>2, <4>3
    <3> QED
      BY <3>2, <3>3
  <2> QED
    BY <2>1, <2>2 DEF Shorter
<1> HIDE DEF m
<1>8. x \in Logs /\ y \in Logs /\ x[m] \in Merges
  BY <1>3, <1>4, <1>5, <1>6 DEF Logs
<1>9. SameWork(x, y)
  BY <1>6, <1>7, <1>8, LogWithoutMerge
<1> QED
  BY <1>9 DEF x

LEMMA BackendMoves ==
    ASSUME TypeOK, NEW c \in Coins, BackendStep(c), NEW d \in Coins
    PROVE  SameWork(Log(d), Log(d)')
<1> DEFINE e == Head(queue[c])
<1>1. /\ queue[c] # <<>> /\ ledger[c] \in Logs /\ queue[c] \in Logs
      /\ ledger[d] \in Logs /\ queue[d] \in Logs /\ DOMAIN queue = Coins /\ DOMAIN ledger = Coins
  BY DEF TypeOK, Logs, BackendStep, OnUserWorkSummary, OnBlockFound, OnMergedBlockNotification
<1>2. Log(d) = ledger[d] \o queue[d] /\ Log(d)' = ledger'[d] \o queue'[d] /\ Log(d) \in Logs
  BY ColumnType DEF Log
<1>3. e \in Entries
  BY <1>1, Heads
<1>4. Append(ledger[c], e) \o Tail(queue[c]) = ledger[c] \o queue[c]
      /\ Append(ledger[c], e) \in Logs /\ Tail(queue[c]) \in Logs
  BY <1>1, Processed DEF Logs
<1>5. CASE OnUserWorkSummary(c)
  <2>1. ledger' = [ledger EXCEPT ![c] = Append(ledger[c], e)] /\ queue' = [queue EXCEPT ![c] = Tail(queue[c])]
    BY <1>5 DEF OnUserWorkSummary
  <2> HIDE DEF e
  <2>2. Log(d)' = Log(d)
    BY <1>1, <1>2, <1>4, <2>1
  <2> QED
    BY <1>2, <2>2, SameLog
<1>6. CASE OnBlockFound(c)
  <2> DEFINE m == [kind |-> "merged", hash |-> e.hash, from |-> c]
             q == IF d = c THEN Tail(queue[d]) ELSE queue[d]
             l == IF d = c THEN Append(ledger[c], e) ELSE ledger[d]
  <2>1. /\ e.kind = "block" /\ ledger' = [ledger EXCEPT ![c] = Append(ledger[c], e)]
        /\ queue'[d] = q \o (IF d \in e.others THEN <<m>> ELSE <<>>)
    BY <1>6 DEF OnBlockFound
  <2> HIDE DEF e
  <2>2. ledger'[d] = l /\ l \in Logs /\ q \in Logs /\ l \o q = Log(d)
    BY <1>1, <1>2, <1>4, <2>1
  <2>3. m \in Merges /\ m \in Entries
    <3>1. e \in Found
      BY <1>3, <2>1, Entry
    <3> QED
      BY <3>1 DEF Found, Merges, Entries
  <2> HIDE DEF m, q, l
  <2>4. CASE d \in e.others
    <3>1. <<m>> \in Logs
      BY <2>3 DEF Logs
    <3>2. <<>> \in Logs
      BY DEF Logs
    <3>3. Joined(l, q, <<m>>, <<>>)
      BY <2>2, <3>1, <3>2, FlushedLog
    <3>4. Log(d)' = Log(d) \o <<m>> /\ Log(d)' \in Logs
      BY <1>2, <2>1, <2>2, <2>4, <3>3 DEF Joined
    <3>5. Longer(Log(d), Log(d)', m)
      BY <1>2, <2>3, <3>4, OneMore DEF Logs
    <3> QED
      BY <1>2, <2>3, <3>4, <3>5, LogWithMerge
  <2>5. CASE d \notin e.others
    <3>1. q \o <<>> = q
      BY <2>2, ConcatEmptySeq DEF Logs
    <3>2. Log(d)' = Log(d)
      BY <1>2, <2>1, <2>2, <2>5, <3>1
    <3> QED
      BY <1>2, <3>2, SameLog
  <2> QED
    BY <2>4, <2>5
<1>7. CASE OnMergedBlockNotification(c)
  <2>1. e.kind = "merged" /\ queue' = [queue EXCEPT ![c] = Tail(queue[c])] /\ ledger' = ledger
    BY <1>7 DEF OnMergedBlockNotification
  <2>2. CASE d = c
    <3>1. Log(c)' = ledger[c] \o Tail(queue[c])
      BY <1>1, <1>2, <2>1, <2>2
    <3>2. e \in Merges
      BY <1>3, <2>1, Entry
    <3> QED
      BY <1>1, <1>2, <2>2, <3>1, <3>2, DoneBefore
  <2>3. CASE d # c
    <3>1. Log(d)' = Log(d)
      BY <1>1, <1>2, <2>1, <2>3
    <3> QED
      BY <1>2, <3>1, SameLog
  <2> QED
    BY <2>2, <2>3
<1> QED
  BY <1>5, <1>6, <1>7 DEF BackendStep

\* The entry of a found block, and the share that is added for coin c.
BlockOf(op) ==
    [kind |-> "block", block |-> op.block, hash |-> op.hash, at |-> op.at,
     thread |-> op.thread, others |-> op.others]
ShareFor(t, id, v, nonce, c) ==
    [hash |-> HashOf(t, id, v, nonce), at |-> shares + 1, block |-> store[t].work[id].block[c],
     turn |-> turn[t][c].n, sent |-> id \in jobs[t]]
IsNew(t, id, v, nonce, good) == good /\ ~IsDuplicate(store[t], id, HashOf(t, id, v, nonce))

\* What a step does to the shares and the log of coin c.
Still(c) == Column(c)' = Column(c) /\ SameWork(Log(c), Log(c)')
Flushed(c) == \E t \in Threads : Cut(t, Column(c), Log(c), Column(c)', Log(c)')
Found1(op, c) ==
    \E y \in Logs : Cut(op.thread, Column(c), Log(c), Column(c)', y) /\ Longer(y, Log(c)', BlockOf(op))
Cleared(c) == Log(c)' = Log(c) /\ \A t \in Threads : Column(c)'[t] = <<>>
Submitted(t, id, v, nonce, good, c) ==
    /\ Log(c)' = Log(c)
    /\ IF IsNew(t, id, v, nonce, good) /\ c \in store[t].work[id].live
       THEN Added(t, Column(c), Column(c)', ShareFor(t, id, v, nonce, c))
       ELSE Column(c)' = Column(c)

LEMMA StillUnchanged ==
    ASSUME TypeOK, UNCHANGED <<acc, queue, ledger>>, NEW c \in Coins
    PROVE  Still(c)
<1>1. Column(c)' = Column(c) /\ Log(c)' = Log(c) /\ Log(c) \in Logs
  BY ColumnType DEF Column, Log
<1> QED
  BY <1>1, SameLog DEF Still

LEMMA FlushedBy ==
    ASSUME TypeOK, NEW t \in Threads, NEW C, Flush(t, C, <<>>), ledger' = ledger, NEW c \in Coins
    PROVE  Still(c) \/ Flushed(c)
<1>1. <<>> \in Logs
  BY DEF Logs
<1>2. CASE c \in C
  <2>1. PICK y \in Logs : Cut(t, Column(c), Log(c), Column(c)', y) /\ Log(c)' = y \o <<>>
    BY <1>1, <1>2, FlushMoves DEF CutThen
  <2>2. y \o <<>> = y
    BY ConcatEmptySeq DEF Logs
  <2> QED
    BY <2>1, <2>2 DEF Flushed
<1>3. CASE c \notin C
  <2>1. Column(c)' = Column(c) /\ Log(c)' = Log(c) /\ Log(c) \in Logs
    BY <1>1, <1>3, FlushMoves, ColumnType
  <2> QED
    BY <2>1, SameLog DEF Still
<1> QED
  BY <1>2, <1>3

LEMMA AcceptedMoves ==
    ASSUME TypeOK, NEW op \in submits, NEW n, NodeAccepts(op, n), NEW c \in Coins
    PROVE  IF op.ok = 0 /\ op.coin = c THEN Found1(op, c) ELSE Still(c)
<1>1. op \in Ops(inst) /\ ledger' = ledger
  BY DEF TypeOK, NodeAccepts
<1>2. op.thread \in Threads /\ BlockOf(op) \in Entries
  BY <1>1 DEF Ops, BlockOf, Found, Entries
<1>3. BlockFound(op) = <<BlockOf(op)>> /\ BlockFound(op) \in Logs
  BY <1>2 DEF BlockFound, BlockOf, Logs
<1>4. CASE op.ok = 0
  <2>1. Flush(op.thread, {op.coin}, BlockFound(op))
    BY <1>4 DEF NodeAccepts, BlockAccepted
  <2>2. CASE op.coin = c
    <3>0. c \in {op.coin}
      BY <2>2
    <3>5. CutThen(c, op.thread, BlockFound(op))
      BY <1>1, <1>2, <1>3, <2>1, <3>0, FlushMoves
    <3>1. PICK y \in Logs : Cut(op.thread, Column(c), Log(c), Column(c)', y) /\ Log(c)' = y \o BlockFound(op)
      BY <3>5 DEF CutThen
    <3> DEFINE e == BlockOf(op)
    <3>2. e \in Entries /\ Log(c)' = y \o <<e>> /\ y \in Seq(Entries)
      BY <1>2, <1>3, <3>1 DEF Logs
    <3> HIDE DEF e
    <3>3. Longer(y, Log(c)', e)
      BY <3>2, OneMore
    <3> QED
      BY <1>4, <2>2, <3>1, <3>3 DEF Found1, e
  <2>3. CASE op.coin # c
    <3>1. c \notin {op.coin}
      BY <2>3
    <3>2. Column(c)' = Column(c) /\ Log(c)' = Log(c) /\ Log(c) \in Logs
      BY <1>1, <1>2, <1>3, <2>1, <3>1, FlushMoves, ColumnType
    <3> QED
      BY <2>3, <3>2, SameLog DEF Still
  <2> QED
    BY <2>2, <2>3
<1>5. CASE op.ok # 0
  BY <1>1, <1>5, StillUnchanged DEF NodeAccepts
<1> QED
  BY <1>4, <1>5

LEMMA SubmitMoves ==
    ASSUME TypeOK, NEW t \in Threads, NEW id, NEW v \in Versions, NEW nonce \in Nonces, NEW good, NEW blocks, NEW pend,
           Submit(t, id, v, nonce, good, blocks, pend), NEW c \in Coins
    PROVE  /\ Submitted(t, id, v, nonce, good, c)
           /\ c \in store[t].work[id].live => ShareFor(t, id, v, nonce, c) \in Shares
<1> DEFINE w == store[t].work[id]
           share == TheShare(t, id, v, nonce)
<1>1. /\ queue' = queue /\ ledger' = ledger /\ id \in store[t].byId
      /\ acc' = IF IsNew(t, id, v, nonce, good) THEN AddShare(t, id, share) ELSE acc
  BY DEF Submit, TheShare, HashOf, backend, IsNew
<1>2. /\ id \in Nat /\ \A d \in w.live : w.block[d] \in Blocks
      /\ HashOf(t, id, v, nonce) \in Hashes
  BY <1>1, Live DEF HashOf, Hashes
<1>3. c \in store[t].work[id].live => ShareFor(t, id, v, nonce, c) \in Shares
  <2>1. turn[t][c].n \in Nat
    BY DEF TypeOK, Turns
  <2> QED
    BY <1>2, <2>1 DEF ShareFor, Shares, TypeOK
<1>4. Log(c)' = Log(c)
  BY <1>1 DEF Log
<1>5. CASE IsNew(t, id, v, nonce, good) /\ c \in w.live
  <2>1. acc' = AddShare(t, id, share)
    BY <1>1, <1>5
  <2>2. \A u \in Threads : u # t => acc'[u][c] = acc[u][c]
    BY <2>1 DEF AddShare, TypeOK
  <2>3. acc'[t][c] = Append(acc[t][c], ShareFor(t, id, v, nonce, c))
    BY <1>5, <2>1 DEF AddShare, TypeOK, ShareFor, TheShare
  <2>4. Added(t, Column(c), Column(c)', ShareFor(t, id, v, nonce, c))
    <3> DEFINE x == ShareFor(t, id, v, nonce, c)
    <3> HIDE DEF x
    <3> QED
      BY <2>2, <2>3 DEF Added, Column, x
  <2> QED
    BY <1>3, <1>4, <1>5, <2>4 DEF Submitted
<1>6. CASE ~(IsNew(t, id, v, nonce, good) /\ c \in w.live)
  <2>1. \A u \in Threads : acc'[u][c] = acc[u][c]
    <3>1. CASE ~IsNew(t, id, v, nonce, good)
      BY <1>1, <3>1
    <3>2. CASE IsNew(t, id, v, nonce, good)
      BY <1>1, <1>6, <3>2 DEF AddShare, TypeOK
    <3> QED
      BY <3>1, <3>2
  <2>2. Column(c)' = Column(c)
    BY <2>1 DEF Column
  <2> QED
    BY <1>3, <1>4, <1>6, <2>2 DEF Submitted
<1> QED
  BY <1>5, <1>6

\* Every step but a submission and an accepted block.
LEMMA OthersMove ==
    ASSUME TypeOK, [Next]_vars, NEW c \in Coins
    PROVE  \/ Still(c) \/ Flushed(c) \/ (Stop /\ Cleared(c))
           \/ \E op \in submits, n \in inst.nodes : NodeAccepts(op, n) /\ op.ok = 0 /\ op.coin = c /\ Found1(op, c)
           \/ \E t \in Threads, id \in Nat, v \in Versions, nonce \in Nonces, good \in BOOLEAN, blocks, pend \in SUBSET Coins :
                 Submit(t, id, v, nonce, good, blocks, pend) /\ Submitted(t, id, v, nonce, good, c)
<1>1. ASSUME NEW d \in Coins, BackendStep(d) PROVE Still(c)
  <2>1. acc' = acc
    BY <1>1 DEF BackendStep, OnUserWorkSummary, OnBlockFound, OnMergedBlockNotification
  <2> QED
    BY <1>1, <2>1, BackendMoves DEF Still, Column
<1>2. ASSUME NEW t \in Threads, NEW d \in Coins, FlushWork(t, d) PROVE Still(c) \/ Flushed(c)
  BY <1>2, FlushedBy DEF FlushWork
<1>3. ASSUME NEW t \in Threads, AcceptWork(t) PROVE Still(c) \/ Flushed(c)
  <2>1. ledger' = ledger
    BY <1>3 DEF AcceptWork
  <2>2. PICK e : NotSent(t, e) \/ \E w : Sent(t, e, w)
    BY <1>3, AcceptWorkDoes
  <2>3. CASE NotSent(t, e)
    BY <2>1, <2>3, StillUnchanged DEF NotSent
  <2>4. ASSUME NEW w, Sent(t, e, w) PROVE Still(c) \/ Flushed(c)
    BY <2>1, <2>4, FlushedBy DEF Sent
  <2> QED
    BY <2>2, <2>3, <2>4
<1>4. ASSUME Stop PROVE Cleared(c)
  <2>1. queue' = queue /\ ledger' = ledger
    BY <1>4 DEF Stop, backend
  <2>2. \A t \in Threads : acc'[t][c] = <<>>
    BY <1>4 DEF Stop
  <2> QED
    BY <2>1, <2>2 DEF Cleared, Column, Log
<1>5. ASSUME \/ UNCHANGED vars
             \/ \E d \in Coins, b \in Blocks : NewBlockTemplate(d, b)
             \/ \E t \in Threads, d \in Coins : RttTimer(t, d)
             \/ \E op \in submits, n \in inst.nodes : NodeFails(op, n)
      PROVE  Still(c)
  <2>1. UNCHANGED <<acc, queue, ledger>>
    BY <1>5 DEF vars, work, backend, NewBlockTemplate, RttTimer, NodeFails
  <2> QED
    BY <2>1, StillUnchanged
<1>6. ASSUME NEW op \in submits, NEW n \in inst.nodes, NodeAccepts(op, n)
      PROVE  Still(c) \/ (op.ok = 0 /\ op.coin = c /\ Found1(op, c))
  BY <1>6, AcceptedMoves
<1>7. ASSUME NEW t \in Threads, NEW id \in store[t].byId, NEW v \in Versions, NEW nonce \in Nonces, NEW good \in BOOLEAN,
             NEW blocks \in SUBSET Coins, NEW pend \in SUBSET inst.rtt, Submit(t, id, v, nonce, good, blocks, pend)
      PROVE  \E m \in Nat, q \in SUBSET Coins :
                Submit(t, m, v, nonce, good, blocks, q) /\ Submitted(t, m, v, nonce, good, c)
  <2>1. id \in Nat /\ pend \in SUBSET Coins
    BY Live, Instance
  <2>2. Submitted(t, id, v, nonce, good, c)
    BY <1>7, SubmitMoves
  <2> QED
    BY <1>7, <2>1, <2>2
<1>8. CASE \E t \in Threads : \E id \in store[t].byId, v \in Versions, nonce \in Nonces, good \in BOOLEAN :
              \E blocks \in SUBSET Coins, pend \in SUBSET inst.rtt : Submit(t, id, v, nonce, good, blocks, pend)
  <2>1. PICK t \in Threads : \E id \in store[t].byId, v \in Versions, nonce \in Nonces, good \in BOOLEAN :
               \E blocks \in SUBSET Coins, pend \in SUBSET inst.rtt : Submit(t, id, v, nonce, good, blocks, pend)
    BY <1>8
  <2>2. PICK id \in store[t].byId, v \in Versions, nonce \in Nonces, good \in BOOLEAN,
             blocks \in SUBSET Coins, pend \in SUBSET inst.rtt : Submit(t, id, v, nonce, good, blocks, pend)
    BY <2>1
  <2> QED
    BY <1>7, <2>2
<1>9. CASE \E op \in submits, n \in inst.nodes : NodeAccepts(op, n)
  BY <1>6, <1>9
<1>10. CASE \/ \E d \in Coins : BackendStep(d)
            \/ \E t \in Threads, d \in Coins : FlushWork(t, d)
            \/ \E t \in Threads : AcceptWork(t)
            \/ Stop
  BY <1>1, <1>2, <1>3, <1>4, <1>10
<1> QED
  BY <1>5, <1>8, <1>9, <1>10 DEF Next

----------------------------------------------------------------------------
(* A share counts once.                                                    *)

Seen(a, x, h) == InAcc(a, h) \/ InWork(x, h)

\* A share that has been counted for coin c is known until the block of the coin
\* changes; g are the turns of its thread.
Remembered(s, g, c, h) == h.turn <= g[c].n /\ (h.turn = g[c].n => h.hash \in s.accepted[c])

SharesSeen ==
    running => \A c \in Coins, h \in Shares :
        Seen(Column(c), Log(c), h) => Remembered(store[h.hash.thread], turn[h.hash.thread], c, h)

\* The works of a coin are for the block that was loaded last.
LastBlocks(s, g) ==
    \A q \in Singles, c \in Coins : \A id : Within(s, q, c, id) => s.work[id].block[c] = g[c].block
TurnsRight == \A t \in Threads : LastBlocks(store[t], turn[t])

\* Shares with the same hash and turn are the same.
Distinct(c) ==
    \A h, g \in Shares : Seen(Column(c), Log(c), h) /\ Seen(Column(c), Log(c), g)
                          /\ h.hash = g.hash /\ h.turn = g.turn => h = g
AllOnce == \A c \in Coins : Once(Column(c), Log(c)) /\ Distinct(c)

LEMMA BlockAdds ==
    ASSUME NEW x \in Logs, NEW y \in Logs, NEW e \in Found, Longer(x, y, e), NEW h
    PROVE  InWork(y, h) <=> InWork(x, h)
<1>1. ~HasWork(e) /\ ~Here(<<>>, h)
  BY DEF Found, HasWork, Here
<1> QED
  BY <1>1, LongerWork DEF InWork

LEMMA OnceBlock ==
    ASSUME NEW x \in Logs, NEW y \in Logs, NEW e \in Found, Longer(x, y, e), NEW a, Once(a, x)
    PROVE  Once(a, y)
<1>1. ~HasWork(e) /\ DOMAIN <<>> = {}
  BY DEF Found, HasWork
<1>2. \A k \in 1 .. Len(y) : \A i \in DOMAIN Batched(y, k) : k \in 1 .. Len(x) /\ Batched(y, k) = Batched(x, k)
  BY <1>1, LongerWork
<1>3. OnceInWork(y)
  <2> SUFFICES ASSUME NEW k \in 1 .. Len(y), NEW l \in 1 .. Len(y),
                      NEW i \in DOMAIN Batched(y, k), NEW j \in DOMAIN Batched(y, l),
                      Batched(y, k)[i] = Batched(y, l)[j]
               PROVE  k = l /\ i = j
    BY DEF OnceInWork
  <2> QED
    BY <1>2 DEF Once, OnceInWork
<1> QED
  BY <1>3, BlockAdds DEF Once

LEMMA LogsNext ==
    ASSUME TypeOK, [Next]_vars, NEW c \in Coins
    PROVE  Log(c)' \in Logs /\ Column(c)' \in Columns
<1>1. TypeOK'
  BY TypeNext
<1>2. queue' \in [Coins -> Seq(Entries)] /\ ledger' \in [Coins -> Seq(Entries)]
      /\ acc' \in [Threads -> [Coins -> Seq(Shares)]]
  BY <1>1 DEF TypeOK
<1>3. ledger'[c] \in Logs /\ queue'[c] \in Logs /\ Log(c)' = ledger'[c] \o queue'[c]
  BY <1>2 DEF Logs, Log
<1>4. Log(c)' \in Logs
  BY <1>3, ConcatProperties DEF Logs
<1> QED
  BY <1>2, <1>4 DEF Column, Columns

\* No step but a submission brings a share, and none doubles one.
LEMMA NothingNew ==
    ASSUME TypeOK, [Next]_vars, NEW c \in Coins,
           \/ Still(c) \/ Flushed(c) \/ Cleared(c)
           \/ \E op \in submits : Found1(op, c)
    PROVE  /\ \A h : Seen(Column(c)', Log(c)', h) => Seen(Column(c), Log(c), h)
           /\ Once(Column(c), Log(c)) => Once(Column(c)', Log(c)')
<1> DEFINE a == Column(c)
           x == Log(c)
           b == Column(c)'
           y == Log(c)'
<1>1. x \in Logs /\ y \in Logs
  BY ColumnType, LogsNext
<1>2. CASE Still(c)
  <2>1. b = a /\ SameWork(x, y)
    BY <1>2 DEF Still
  <2> HIDE DEF a, x, b, y
  <2>2. \A h : InWork(y, h) <=> InWork(x, h)
    BY <1>1, <2>1, WorkStays
  <2>3. Once(a, x) => Once(a, y)
    BY <1>1, <2>1, OnceStays
  <2>4. (\A h : Seen(b, y, h) => Seen(a, x, h)) /\ (Once(a, x) => Once(b, y))
    BY <2>1, <2>2, <2>3 DEF Seen
  <2> QED
    BY <2>4 DEF a, x, b, y
<1>3. CASE Flushed(c)
  <2>1. PICK t \in Threads : Cut(t, a, x, b, y)
    BY <1>3 DEF Flushed
  <2> HIDE DEF a, x, b, y
  <2>2. \A h : (InAcc(b, h) \/ InWork(y, h)) <=> (InAcc(a, h) \/ InWork(x, h))
    BY <1>1, <2>1, CutWork
  <2>3. Once(a, x) => Once(b, y)
    BY <1>1, <2>1, OnceCut
  <2>4. (\A h : Seen(b, y, h) => Seen(a, x, h)) /\ (Once(a, x) => Once(b, y))
    BY <2>2, <2>3 DEF Seen
  <2> QED
    BY <2>4 DEF a, x, b, y
<1>4. CASE Cleared(c)
  <2>1. y = x /\ \A t \in Threads : b[t] = <<>>
    BY <1>4 DEF Cleared
  <2> HIDE DEF a, x, b, y
  <2>2. \A h : ~InAcc(b, h)
    BY <2>1 DEF InAcc, Here
  <2>3. OnceInAcc(b)
    BY <2>1 DEF OnceInAcc
  <2>4. (\A h : Seen(b, y, h) => Seen(a, x, h)) /\ (Once(a, x) => Once(b, y))
    BY <2>1, <2>2, <2>3 DEF Seen, Once
  <2> QED
    BY <2>4 DEF a, x, b, y
<1>5. ASSUME NEW op \in submits, Found1(op, c)
      PROVE  /\ \A h : Seen(Column(c)', Log(c)', h) => Seen(Column(c), Log(c), h)
             /\ Once(Column(c), Log(c)) => Once(Column(c)', Log(c)')
  <2>1. PICK z \in Logs : Cut(op.thread, a, x, b, z) /\ Longer(z, y, BlockOf(op))
    BY <1>5 DEF Found1
  <2>2. op.thread \in Threads /\ BlockOf(op) \in Found
    BY DEF TypeOK, Ops, BlockOf, Found
  <2> HIDE DEF a, x, b, y
  <2>3. \A h : (InAcc(b, h) \/ InWork(z, h)) <=> (InAcc(a, h) \/ InWork(x, h))
    BY <1>1, <2>1, <2>2, CutWork
  <2>4. \A h : InWork(y, h) <=> InWork(z, h)
    BY <1>1, <2>1, <2>2, BlockAdds
  <2>5. Once(a, x) => Once(b, z)
    BY <1>1, <2>1, <2>2, OnceCut
  <2>6. Once(b, z) => Once(b, y)
    BY <1>1, <2>1, <2>2, OnceBlock
  <2>7. (\A h : Seen(b, y, h) => Seen(a, x, h)) /\ (Once(a, x) => Once(b, y))
    BY <2>3, <2>4, <2>5, <2>6 DEF Seen
  <2> QED
    BY <2>7 DEF a, x, b, y
<1> QED
  BY <1>2, <1>3, <1>4, <1>5

\* A share that is new was not counted between two changes of the coin's block.
LEMMA NewIsUnseen ==
    ASSUME TypeOK, SharesSeen, running, NEW t \in Threads, NEW id \in store[t].byId, NEW v \in Versions,
           NEW nonce \in Nonces, NEW good, IsNew(t, id, v, nonce, good), NEW c \in store[t].work[id].live,
           NEW h \in Shares, h.hash = HashOf(t, id, v, nonce), h.turn = turn[t][c].n
    PROVE  ~Seen(Column(c), Log(c), h)
<1>1. c \in Coins /\ c \in CoinsOf(store[t].work[id])
  BY Live
<1>2. h.hash \notin store[t].accepted[c]
  BY <1>1 DEF IsNew, IsDuplicate
<1>3. h.hash.thread = t
  BY DEF HashOf
<1> QED
  BY <1>1, <1>2, <1>3 DEF SharesSeen, Remembered

LEMMA StillRunning ==
    ASSUME [Next]_vars, running'
    PROVE  running
<1>1. ASSUME NEW c \in Coins, BackendStep(c) PROVE running
  BY <1>1 DEF BackendStep, OnUserWorkSummary, OnBlockFound, OnMergedBlockNotification
<1>2. ASSUME NEW c \in Coins, NEW b \in Blocks, NewBlockTemplate(c, b) PROVE running
  BY <1>2 DEF NewBlockTemplate
<1>3. ASSUME NEW t \in Threads, NEW c \in Coins, FlushWork(t, c) \/ RttTimer(t, c) PROVE running
  BY <1>3 DEF FlushWork, RttTimer
<1>4. ASSUME NEW t \in Threads, AcceptWork(t) PROVE running
  BY <1>4 DEF AcceptWork
<1>5. ASSUME NEW t \in Threads, NEW id, NEW v, NEW nonce, NEW good, NEW blocks, NEW pend,
             Submit(t, id, v, nonce, good, blocks, pend)
      PROVE  running
  BY <1>5 DEF Submit
<1>6. ASSUME NEW op \in submits, NEW n \in inst.nodes, NodeAccepts(op, n) \/ NodeFails(op, n) PROVE running
  BY <1>6 DEF NodeAccepts, NodeFails
<1>7. CASE Stop
  BY <1>7 DEF Stop
<1>8. CASE UNCHANGED vars
  BY <1>8 DEF vars
<1> QED
  BY <1>1, <1>2, <1>3, <1>4, <1>5, <1>6, <1>7, <1>8 DEF Next

\* What a template does to the turns of a thread.
LEMMA TurnedTo ==
    ASSUME TypeOK, NEW t \in Threads, NEW c \in Coins, NEW b, turn' = Turned(t, c, b)
    PROVE  /\ \A u \in Threads : u # t => turn'[u] = turn[u]
           /\ \A d \in Coins : d # c => turn'[t][d] = turn[t][d]
           /\ turn'[t][c].block = b /\ turn[t][c].n \in Nat
           /\ IF turn[t][c].block = b THEN turn'[t][c] = turn[t][c] ELSE turn'[t][c].n = turn[t][c].n + 1
<1>1. turn \in [Threads -> [Coins -> Turns]]
  BY DEF TypeOK
<1> DEFINE x == IF turn[t][c].block = b THEN turn[t][c] ELSE [block |-> b, n |-> turn[t][c].n + 1]
<1>2. turn' = [turn EXCEPT ![t][c] = x]
  BY DEF Turned
<1>3. /\ turn'[t][c] = x
      /\ \A u \in Threads : u # t => turn'[u] = turn[u]
      /\ \A d \in Coins : d # c => turn'[t][d] = turn[t][d]
  <2> HIDE DEF x
  <2> QED
    BY <1>1, <1>2
<1>4. x.block = b /\ turn[t][c].n \in Nat
      /\ IF turn[t][c].block = b THEN x = turn[t][c] ELSE x.n = turn[t][c].n + 1
  BY <1>1 DEF Turns
<1> HIDE DEF x
<1> QED
  BY <1>3, <1>4

LEMMA LastBlocksCreated ==
    ASSUME NEW s, Sound(s), NEW c \in Coins, NEW b, NEW e, Created(s, e, c, b), Sound(e),
           NEW g, LastBlocks(s, g), NEW f, f[c].block = b, \A d \in Coins : d # c => f[d] = g[d]
    PROVE  LastBlocks(e, f)
<1>1. StorageOK(s) /\ StorageOK(e) /\ Evolved(s, e) /\ e.inst = s.inst /\ SinglesOfOthers(s, e, c)
  BY DEF Sound, Created, Grown, Evolved
<1> SUFFICES ASSUME NEW q \in Singles, NEW d \in Coins, NEW id, Within(e, q, d, id)
             PROVE  e.work[id].block[d] = f[d].block
  BY DEF LastBlocks
<1>2. CASE d # c
  <2>1. Within(s, q, d, id)
    BY <1>1, <1>2 DEF SinglesOfOthers, Within
  <2>2. e.work[id].block = s.work[id].block
    BY <1>1, <2>1, BlocksKept
  <2> QED
    BY <1>2, <2>1, <2>2 DEF LastBlocks
<1>3. CASE d = c
  <2>1. Len(e[q][c]) # 0
    <3>1. Len(e[q][c]) \in Nat
      BY <1>1, SeqShape DEF Seqs, StorageOK
    <3> QED
      BY <1>3, <3>1 DEF Within
  <2>2. c \in s.inst[q]
    BY <1>1, <2>1 DEF Sound, OneBlock
  <2> QED
    BY <1>3, <2>2 DEF Created, Built
<1> QED
  BY <1>2, <1>3

\* The shares of a coin are forgotten with its block only.
LEMMA KnownForBlock ==
    ASSUME NEW s, Sound(s), NEW c \in Coins, NEW b, NEW e, Created(s, e, c, b),
           NEW g, LastBlocks(s, g), g[c].block = b
    PROVE  SameShares(s, e, c)
<1>1. ASSUME NEW q \in Singles PROVE ~Replaced(s, q, c, b)
  <2>1. ASSUME Len(s[q][c]) > 0 PROVE s.work[Newest(s, q, c)].block[c] = b
    <3>1. Within(s, q, c, Newest(s, q, c))
      BY <2>1, NewestWithin DEF Sound, Seqs
    <3> QED
      BY <3>1 DEF LastBlocks
  <2> QED
    BY <2>1 DEF Replaced
<1> QED
  BY <1>1 DEF Created, Moved

\* What is remembered stays so as long as the threads run.
LEMMA StaysRemembered ==
    ASSUME TypeOK, TurnsRight, [Next]_vars, running', NEW c \in Coins, NEW h \in Shares,
           Remembered(store[h.hash.thread], turn[h.hash.thread], c, h)
    PROVE  running /\ Remembered(store'[h.hash.thread], turn'[h.hash.thread], c, h)
<1> DEFINE t == h.hash.thread
<1>0. t \in Threads /\ h.turn \in Nat
  BY DEF Shares, Hashes
<1> HIDE DEF t
<1>1. CASE UNCHANGED <<running, store, turn>>
  BY <1>1 DEF t
<1>2. ASSUME NEW u \in Threads, AcceptWork(u) PROVE running /\ Remembered(store'[t], turn'[t], c, h)
  <2>1. PICK e : Loaded(u, e) /\ Sound(e) /\ Stored(u, e)
    BY <1>2, AcceptWorkDoes
  <2>2. running
    BY <1>2 DEF AcceptWork
  <2>3. CASE e = store[u] /\ turn' = turn
    BY <1>0, <2>1, <2>2, <2>3 DEF Stored, Remembered, t
  <2>4. ASSUME NEW d \in Coins, NEW b \in Blocks, Created(store[u], e, d, b), turn' = Turned(u, d, b)
        PROVE  Remembered(store'[t], turn'[t], c, h)
    <3>1. CASE t # u
      BY <1>0, <2>1, <2>4, <3>1, TurnedTo DEF Stored, t
    <3>2. CASE t = u /\ c # d
      <4>1. store'[t].accepted[c] = store[t].accepted[c]
        BY <2>1, <2>4, <3>2 DEF Created, Grown, SharesOfOthers, SameShares, Stored
      <4>2. turn'[t][c] = turn[t][c]
        BY <2>4, <3>2, TurnedTo
      <4> QED
        BY <4>1, <4>2 DEF Remembered, t
    <3>3. CASE t = u /\ c = d /\ turn[t][c].block = b
      <4>1. SameShares(store[t], e, c)
        BY <2>4, <3>3, KnownForBlock DEF TurnsRight, TypeOK, StoreOK
      <4>2. turn'[t][c] = turn[t][c]
        BY <2>4, <3>3, TurnedTo
      <4> QED
        BY <2>1, <3>3, <4>1, <4>2 DEF Remembered, Stored, SameShares, t
    <3>4. CASE t = u /\ c = d /\ turn[t][c].block # b
      <4>1. turn[t][c].n \in Nat /\ turn'[t][c].n = turn[t][c].n + 1
        BY <2>4, <3>4, TurnedTo
      <4>2. h.turn <= turn[t][c].n
        BY DEF Remembered, t
      <4>3. h.turn <= turn'[t][c].n /\ h.turn # turn'[t][c].n
        BY <1>0, <4>1, <4>2
      <4> QED
        BY <4>3 DEF Remembered
    <3> QED
      BY <3>1, <3>2, <3>3, <3>4
  <2> QED
    BY <2>1, <2>2, <2>3, <2>4 DEF Loaded, t
<1>3. ASSUME NEW u \in Threads, NEW id, NEW v, NEW nonce, NEW good, NEW blocks, NEW pend,
             Submit(u, id, v, nonce, good, blocks, pend)
      PROVE  running /\ Remembered(store'[t], turn'[t], c, h)
  <2>1. Noted(u, id, v, nonce, pend) /\ running /\ turn' = turn
    BY <1>3, SubmitNotes DEF Submit
  <2>2. store[t].accepted[c] \subseteq store'[t].accepted[c]
    BY <1>0, <2>1 DEF Noted
  <2> QED
    BY <2>1, <2>2 DEF Remembered, t
<1>4. running /\ Remembered(store'[t], turn'[t], c, h)
  BY <1>1, <1>2, <1>3 DEF Next, vars, work, NewBlockTemplate, BackendStep, OnUserWorkSummary,
     OnBlockFound, OnMergedBlockNotification, FlushWork, RttTimer, NodeAccepts, NodeFails, Stop, t
<1> QED
  BY <1>4 DEF t

LEMMA EmptyWithin ==
    \A i : \A q \in Singles, c \in Coins : \A id : ~Within(EmptyStorage(i), q, c, id)
<1>1. \A i : \A q \in Singles, c \in Coins : Len(EmptyStorage(i)[q][c]) = 0
  BY DEF EmptyStorage, Singles
<1> QED
  BY <1>1 DEF Within

LEMMA TurnsNext ==
    ASSUME TypeOK, TurnsRight, [Next]_vars
    PROVE  TurnsRight'
<1>1. CASE UNCHANGED <<store, turn>>
  BY <1>1 DEF TurnsRight
<1>2. ASSUME NEW s, NEW g, LastBlocks(s, g), NEW e, Alike(s, e) PROVE LastBlocks(e, g)
  <2>1. \A q \in Singles, c \in Coins : e[q][c] = s[q][c]
    BY <1>2 DEF Alike, Singles
  <2>2. \A q \in Singles, c \in Coins : \A id : Within(e, q, c, id) <=> Within(s, q, c, id)
    BY <2>1 DEF Within
  <2> QED
    BY <1>2, <2>2 DEF LastBlocks, Alike
<1>3. ASSUME NEW u \in Threads, AcceptWork(u) PROVE TurnsRight'
  <2>1. PICK e : Loaded(u, e) /\ Sound(e) /\ Stored(u, e)
    BY <1>3, AcceptWorkDoes
  <2>2. CASE e = store[u] /\ turn' = turn
    BY <1>2, <2>1, <2>2 DEF Stored, TurnsRight
  <2>3. ASSUME NEW d \in Coins, NEW b \in Blocks, Created(store[u], e, d, b), turn' = Turned(u, d, b)
        PROVE  TurnsRight'
    <3>1. /\ \A t \in Threads : t # u => turn'[t] = turn[t]
          /\ \A c \in Coins : c # d => turn'[u][c] = turn[u][c]
          /\ turn'[u][d].block = b
      BY <2>3, TurnedTo
    <3>2. LastBlocks(e, turn'[u])
      <4>1. Sound(store[u]) /\ LastBlocks(store[u], turn[u])
        BY DEF TurnsRight, TypeOK, StoreOK
      <4> QED
        BY <2>1, <2>3, <3>1, <4>1, LastBlocksCreated
    <3>3. LastBlocks(store'[u], turn'[u])
      BY <1>2, <2>1, <3>2 DEF Stored
    <3> QED
      BY <2>1, <3>1, <3>3 DEF TurnsRight, Stored
  <2> QED
    BY <2>1, <2>2, <2>3 DEF Loaded
<1>4. ASSUME NEW u \in Threads, NEW id, NEW v, NEW nonce, NEW good, NEW blocks, NEW pend,
             Submit(u, id, v, nonce, good, blocks, pend)
      PROVE  TurnsRight'
  <2>1. Noted(u, id, v, nonce, pend) /\ turn' = turn
    BY <1>4, SubmitNotes DEF Submit
  <2> QED
    BY <1>2, <2>1 DEF Noted, TurnsRight
<1>5. ASSUME Stop PROVE TurnsRight'
  <2>1. \A g : LastBlocks(EmptyStorage(inst), g)
    BY EmptyWithin DEF LastBlocks
  <2> QED
    BY <1>5, <2>1 DEF Stop, TurnsRight
<1> QED
  BY <1>1, <1>3, <1>4, <1>5 DEF Next, vars, work, NewBlockTemplate, BackendStep, OnUserWorkSummary,
     OnBlockFound, OnMergedBlockNotification, FlushWork, RttTimer, NodeAccepts, NodeFails

\* The share of a submission is remembered for the coins of its work.
LEMMA JustRemembered ==
    ASSUME TypeOK, NEW t \in Threads, NEW id, NEW v \in Versions, NEW nonce \in Nonces, NEW good, NEW blocks, NEW pend,
           Submit(t, id, v, nonce, good, blocks, pend), NEW c \in store[t].work[id].live,
           NEW h \in Shares, h.hash = HashOf(t, id, v, nonce), h.turn = turn[t][c].n
    PROVE  Remembered(store'[t], turn'[t], c, h) /\ h.hash.thread = t
<1>1. Noted(t, id, v, nonce, pend) /\ id \in store[t].byId /\ turn' = turn
  BY SubmitNotes DEF Submit
<1>2. c \in Coins /\ c \in CoinsOf(store[t].work[id])
  BY <1>1, Live
<1>3. h.hash \in store'[t].accepted[c]
  BY <1>1, <1>2 DEF Noted
<1>4. h.turn \in Nat /\ h.hash.thread = t
  BY DEF Shares, HashOf
<1> QED
  BY <1>1, <1>3, <1>4 DEF Remembered

LEMMA OnceInit ==
    ASSUME Init
    PROVE  SharesSeen /\ AllOnce /\ TurnsRight
<1>1. \A c \in Coins, t \in Threads : Column(c)[t] = <<>>
  BY DEF Init, Column
<1>2. \A c \in Coins : Log(c) = <<>>
  BY DEF Init, Log
<1>3. Len(<<>>) = 0 /\ DOMAIN <<>> = {}
  OBVIOUS
<1>4. \A c \in Coins : \A h : ~InAcc(Column(c), h) /\ ~InWork(Log(c), h)
  BY <1>1, <1>2, <1>3 DEF InAcc, InWork, Here
<1>5. \A c \in Coins : OnceInAcc(Column(c)) /\ OnceInWork(Log(c))
  BY <1>1, <1>2, <1>3 DEF OnceInAcc, OnceInWork
<1>6. TurnsRight
  BY EmptyWithin DEF Init, TurnsRight, LastBlocks
<1> QED
  BY <1>4, <1>5, <1>6 DEF SharesSeen, AllOnce, Distinct, Once, Seen

\* What a submission does to the shares of one coin: nothing, or share `new' is
\* counted.
SharesGrewBy(c, t, id, v, nonce) ==
    \/ \A h : Seen(Column(c)', Log(c)', h) => Seen(Column(c), Log(c), h)
    \/ \E new \in Shares :
          /\ \A h : Seen(Column(c)', Log(c)', h) => Seen(Column(c), Log(c), h) \/ h = new
          /\ new.hash = HashOf(t, id, v, nonce) /\ new.turn = turn[t][c].n
          /\ c \in store[t].work[id].live
          /\ \A h \in Shares : h.hash = new.hash /\ h.turn = new.turn => ~Seen(Column(c), Log(c), h)

LEMMA OnceSubmit ==
    ASSUME TypeOK, SharesSeen, AllOnce, NEW t \in Threads, NEW id, NEW v \in Versions, NEW nonce \in Nonces, NEW good, NEW blocks, NEW pend,
           Submit(t, id, v, nonce, good, blocks, pend), NEW c \in Coins
    PROVE  /\ Once(Column(c)', Log(c)') /\ SharesGrewBy(c, t, id, v, nonce)
<1> DEFINE w == store[t].work[id]
           s == ShareFor(t, id, v, nonce, c)
<1>1. /\ Submitted(t, id, v, nonce, good, c) /\ (c \in w.live => s \in Shares)
      /\ id \in store[t].byId /\ running
  BY SubmitMoves DEF Submit
<1>2. /\ s.hash = HashOf(t, id, v, nonce) /\ s.turn = turn[t][c].n
      /\ Column(c) \in Columns /\ Once(Column(c), Log(c))
  BY ColumnType DEF ShareFor, AllOnce
<1>3. CASE IsNew(t, id, v, nonce, good) /\ c \in w.live
  <2>1. Added(t, Column(c), Column(c)', s) /\ Log(c)' = Log(c) /\ s \in Shares
    BY <1>1, <1>3 DEF Submitted
  <2>2. \A h \in Shares : h.hash = s.hash /\ h.turn = s.turn => ~Seen(Column(c), Log(c), h)
    BY <1>1, <1>2, <1>3, NewIsUnseen
  <2> HIDE DEF s
  <2>3. \A h : InAcc(Column(c)', h) <=> (InAcc(Column(c), h) \/ h = s)
    BY <1>2, <2>1, AddedHere
  <2>4. ~InAcc(Column(c), s) /\ ~InWork(Log(c), s)
    BY <2>1, <2>2 DEF Seen
  <2>5. Once(Column(c)', Log(c))
    BY <1>2, <2>1, <2>4, OnceAdded
  <2>6. \A h : Seen(Column(c)', Log(c)', h) => Seen(Column(c), Log(c), h) \/ h = s
    BY <2>1, <2>3 DEF Seen
  <2> QED
    BY <1>2, <1>3, <2>1, <2>2, <2>5, <2>6 DEF SharesGrewBy
<1>4. CASE ~(IsNew(t, id, v, nonce, good) /\ c \in w.live)
  BY <1>1, <1>2, <1>4 DEF Submitted, SharesGrewBy
<1> QED
  BY <1>3, <1>4

LEMMA OnceNext ==
    ASSUME TypeOK, SharesSeen, AllOnce, TurnsRight, [Next]_vars
    PROVE  SharesSeen' /\ AllOnce' /\ TurnsRight'
<1>1. ASSUME NEW c \in Coins
      PROVE  /\ Once(Column(c)', Log(c)') /\ Distinct(c)'
             /\ running' => \A h \in Shares : Seen(Column(c)', Log(c)', h) =>
                                Remembered(store'[h.hash.thread], turn'[h.hash.thread], c, h)
  <2>1. CASE /\ \A h : Seen(Column(c)', Log(c)', h) => Seen(Column(c), Log(c), h)
             /\ Once(Column(c)', Log(c)')
    <3>1. Distinct(c)'
      BY <2>1 DEF AllOnce, Distinct
    <3>2. ASSUME running', NEW h \in Shares, Seen(Column(c), Log(c), h)
          PROVE  Remembered(store'[h.hash.thread], turn'[h.hash.thread], c, h)
      BY <3>2, StillRunning, StaysRemembered DEF SharesSeen
    <3> QED
      BY <2>1, <3>1, <3>2
  <2>2. ASSUME NEW t \in Threads, NEW id \in Nat, NEW v \in Versions, NEW nonce \in Nonces, NEW good \in BOOLEAN,
               NEW blocks \in SUBSET Coins, NEW pend \in SUBSET Coins, Submit(t, id, v, nonce, good, blocks, pend),
               NEW new \in Shares,
               \A h : Seen(Column(c)', Log(c)', h) => Seen(Column(c), Log(c), h) \/ h = new,
               new.hash = HashOf(t, id, v, nonce), new.turn = turn[t][c].n,
               c \in store[t].work[id].live,
               \A h \in Shares : h.hash = new.hash /\ h.turn = new.turn => ~Seen(Column(c), Log(c), h)
        PROVE  /\ Distinct(c)'
               /\ running' => \A h \in Shares : Seen(Column(c)', Log(c)', h) =>
                                  Remembered(store'[h.hash.thread], turn'[h.hash.thread], c, h)
    <3>1. Distinct(c)'
      BY <2>2 DEF AllOnce, Distinct
    <3>2. ASSUME running', NEW h \in Shares, Seen(Column(c), Log(c), h)
          PROVE  Remembered(store'[h.hash.thread], turn'[h.hash.thread], c, h)
      BY <3>2, StillRunning, StaysRemembered DEF SharesSeen
    <3>3. Remembered(store'[new.hash.thread], turn'[new.hash.thread], c, new)
      <4>1. Remembered(store'[t], turn'[t], c, new) /\ new.hash.thread = t
        BY <2>2, JustRemembered
      <4> QED
        BY <4>1
    <3> QED
      BY <2>2, <3>1, <3>2, <3>3
  <2>3. \/ Still(c) \/ Flushed(c) \/ Cleared(c) \/ \E op \in submits : Found1(op, c)
        \/ \E t \in Threads, id \in Nat, v \in Versions, nonce \in Nonces, good \in BOOLEAN, blocks, pend \in SUBSET Coins :
              Submit(t, id, v, nonce, good, blocks, pend)
    BY OthersMove
  <2>4. CASE Still(c) \/ Flushed(c) \/ Cleared(c) \/ \E op \in submits : Found1(op, c)
    <3>1. /\ \A h : Seen(Column(c)', Log(c)', h) => Seen(Column(c), Log(c), h)
          /\ Once(Column(c), Log(c)) => Once(Column(c)', Log(c)')
      BY <2>4, NothingNew
    <3>2. Once(Column(c), Log(c))
      BY DEF AllOnce
    <3> QED
      BY <2>1, <3>1, <3>2
  <2>5. CASE \E t \in Threads, id \in Nat, v \in Versions, nonce \in Nonces, good \in BOOLEAN, blocks, pend \in SUBSET Coins :
                Submit(t, id, v, nonce, good, blocks, pend)
    <3>1. PICK t \in Threads, id \in Nat, v \in Versions, nonce \in Nonces, good \in BOOLEAN, blocks \in SUBSET Coins,
               pend \in SUBSET Coins : Submit(t, id, v, nonce, good, blocks, pend)
      BY <2>5
    <3>2. Once(Column(c)', Log(c)') /\ SharesGrewBy(c, t, id, v, nonce)
      BY <3>1, OnceSubmit
    <3> QED
      BY <2>1, <2>2, <3>1, <3>2 DEF SharesGrewBy
  <2> QED
    BY <2>3, <2>4, <2>5
<1>2. AllOnce'
  BY <1>1 DEF AllOnce
<1>3. SharesSeen'
  BY <1>1 DEF SharesSeen
<1> QED
  BY <1>2, <1>3, TurnsNext

\* A header counts once for a coin between two changes of the coin's block, on
\* whichever works it is sent and whatever the bounds: AcceptedShares_ is erased
\* for a coin only with its block (eraseAll), and a share is added to it before
\* it counts (isDuplicate, stratumWorkStorage.h).
THEOREM SharesCountOnceHolds == Spec => []SharesCountOnce
<1>1. Init => SharesSeen /\ AllOnce /\ TurnsRight
  BY OnceInit
<1>2. TypeOK /\ SharesSeen /\ AllOnce /\ TurnsRight /\ [Next]_vars => SharesSeen' /\ AllOnce' /\ TurnsRight'
  BY OnceNext
<1>3. TypeOK /\ AllOnce => SharesCountOnce
  <2> SUFFICES ASSUME TypeOK, AllOnce, NEW c \in Coins,
                      NEW x \in ({"acc"} \X Threads) \cup ({"log"} \X DOMAIN Log(c)),
                      NEW y \in ({"acc"} \X Threads) \cup ({"log"} \X DOMAIN Log(c)),
                      NEW i \in DOMAIN SharesOf(c, x), NEW j \in DOMAIN SharesOf(c, y),
                      SharesOf(c, x)[i].hash = SharesOf(c, y)[j].hash,
                      SharesOf(c, x)[i].turn = SharesOf(c, y)[j].turn
               PROVE  x = y /\ i = j
    BY DEF SharesCountOnce
  <2>1. Once(Column(c), Log(c)) /\ DOMAIN Log(c) = 1 .. Len(Log(c)) /\ \A t \in Threads : Column(c)[t] = acc[t][c]
    BY ColumnType, LogsOf DEF AllOnce
  <2>2. \A z \in ({"acc"} \X Threads) \cup ({"log"} \X DOMAIN Log(c)) :
            \/ z[1] = "acc" /\ z[2] \in Threads /\ z = <<"acc", z[2]>> /\ SharesOf(c, z) = Column(c)[z[2]]
            \/ z[1] = "log" /\ z[2] \in DOMAIN Log(c) /\ z = <<"log", z[2]>> /\ SharesOf(c, z) = Batched(Log(c), z[2])
    BY <2>1 DEF SharesOf, Batched
  <2>7. \A z \in ({"acc"} \X Threads) \cup ({"log"} \X DOMAIN Log(c)) : \A k \in DOMAIN SharesOf(c, z) :
            SharesOf(c, z)[k] \in Shares /\ Seen(Column(c), Log(c), SharesOf(c, z)[k])
    <3>1. \A u \in Threads : \A k \in DOMAIN Column(c)[u] : Column(c)[u][k] \in Shares
      BY ColumnType DEF Columns
    <3>2. \A m \in DOMAIN Log(c) : \A k \in DOMAIN Batched(Log(c), m) : Batched(Log(c), m)[k] \in Shares
      <4> SUFFICES ASSUME NEW m \in DOMAIN Log(c), NEW k \in DOMAIN Batched(Log(c), m)
                   PROVE  Batched(Log(c), m)[k] \in Shares
        OBVIOUS
      <4>1. Log(c)[m] \in Entries
        BY <2>1, ColumnType, LogsOf
      <4>2. HasWork(Log(c)[m])
        BY DEF Batched
      <4>3. Log(c)[m] \in Works
        BY <4>1, <4>2, Kinds
      <4> QED
        BY <4>2, <4>3 DEF Batched, Works
    <3> QED
      BY <2>1, <2>2, <3>1, <3>2 DEF Seen, InAcc, InWork, Here
  <2>8. SharesOf(c, x)[i] = SharesOf(c, y)[j]
    BY <2>7 DEF AllOnce, Distinct
  <2>3. CASE x[1] = "acc" /\ y[1] = "acc"
    BY <2>1, <2>2, <2>3, <2>8 DEF Once, OnceInAcc
  <2>4. CASE x[1] = "log" /\ y[1] = "log"
    BY <2>1, <2>2, <2>4, <2>8 DEF Once, OnceInWork
  <2>5. CASE x[1] = "acc" /\ y[1] = "log"
    <3>1. InAcc(Column(c), SharesOf(c, x)[i]) /\ InWork(Log(c), SharesOf(c, x)[i])
      BY <2>1, <2>2, <2>5, <2>8 DEF InAcc, InWork, Here
    <3> QED
      BY <2>1, <3>1 DEF Once
  <2>6. CASE x[1] = "log" /\ y[1] = "acc"
    <3>1. InAcc(Column(c), SharesOf(c, x)[i]) /\ InWork(Log(c), SharesOf(c, x)[i])
      BY <2>1, <2>2, <2>6, <2>8 DEF InAcc, InWork, Here
    <3> QED
      BY <2>1, <3>1 DEF Once
  <2> QED
    BY <2>2, <2>3, <2>4, <2>5, <2>6
<1> QED
  BY <1>1, <1>2, <1>3, TypesHold, PTL DEF Spec

----------------------------------------------------------------------------
(* The round of a block has its work.                                      *)

\* Share h is the one of e: a block, or something that can become one.
Of(e, h) == h.at = e.at /\ h.hash = e.hash
HasShareOf(z, e) == \E i \in DOMAIN z : Of(e, z[i])

\* No share of list z was accepted by the thread of block b before it.
NoEarlier(z, b) == \A i \in DOMAIN z : ~(z[i].at <= b.at /\ z[i].hash.thread = b.thread)

\* The block at position j of log x, when n shares have been submitted.
RoundAt(a, x, j, n) ==
    /\ x[j].at <= n /\ x[j].thread \in Threads
    /\ \E k \in 1 .. j - 1 : HasShareOf(Batched(x, k), x[j])
    /\ \A k \in j + 1 .. Len(x) : NoEarlier(Batched(x, k), x[j])
    /\ NoEarlier(a[x[j].thread], x[j])
RoundOK(a, x, n) == \A j \in 1 .. Len(x) : HasBlock(x[j]) => RoundAt(a, x, j, n)

\* Every accumulator has the shares of its thread.
OwnShares(a) == \A t \in Threads : \A i \in DOMAIN a[t] : a[t][i].hash.thread = t

LEMMA RoundStays ==
    ASSUME NEW x \in Logs, NEW y \in Logs, SameWork(x, y), NEW a, NEW n, RoundOK(a, x, n)
    PROVE  RoundOK(a, y, n)
<1>1. PICK f \in [1 .. Len(y) -> Nat] :
        /\ \A i \in 1 .. Len(y) : DOMAIN Batched(y, i) # {} \/ HasBlock(y[i]) =>
               f[i] \in 1 .. Len(x) /\ x[f[i]] = y[i] /\ Batched(x, f[i]) = Batched(y, i) /\ ~(y[i] \in Merges)
        /\ \A i, j \in 1 .. Len(y) : ~(y[i] \in Merges) /\ ~(y[j] \in Merges) => ((i < j) <=> (f[i] < f[j]))
        /\ \A k \in 1 .. Len(x) : DOMAIN Batched(x, k) # {} \/ HasBlock(x[k]) =>
               \E i \in 1 .. Len(y) : f[i] = k /\ y[i] = x[k] /\ Batched(y, i) = Batched(x, k) /\ ~(y[i] \in Merges)
  BY MapOf
<1>2. Len(x) \in Nat /\ Len(y) \in Nat
  BY LogsOf
<1>3. SUFFICES ASSUME NEW j \in 1 .. Len(y), HasBlock(y[j]) PROVE RoundAt(a, y, j, n)
  BY DEF RoundOK
<1>4. f[j] \in 1 .. Len(x) /\ x[f[j]] = y[j] /\ ~(y[j] \in Merges)
  BY <1>1, <1>3
<1>5. RoundAt(a, x, f[j], n)
  BY <1>3, <1>4 DEF RoundOK
<1>6. \E k \in 1 .. j - 1 : HasShareOf(Batched(y, k), y[j])
  <2>1. PICK l \in 1 .. f[j] - 1 : HasShareOf(Batched(x, l), y[j])
    BY <1>4, <1>5 DEF RoundAt
  <2>2. l \in 1 .. Len(x) /\ l < f[j]
    BY <1>2, <1>4
  <2>3. DOMAIN Batched(x, l) # {}
    BY <2>1 DEF HasShareOf
  <2>4. PICK i \in 1 .. Len(y) : f[i] = l /\ Batched(y, i) = Batched(x, l) /\ ~(y[i] \in Merges)
    BY <1>1, <2>2, <2>3
  <2>5. i < j
    BY <1>1, <1>4, <2>2, <2>4
  <2>6. i \in 1 .. j - 1
    BY <1>2, <2>5
  <2> QED
    BY <2>1, <2>4, <2>6
<1>7. ASSUME NEW k \in j + 1 .. Len(y) PROVE NoEarlier(Batched(y, k), y[j])
  <2> SUFFICES ASSUME DOMAIN Batched(y, k) # {} PROVE NoEarlier(Batched(y, k), y[j])
    BY DEF NoEarlier
  <2>1. k \in 1 .. Len(y) /\ j < k
    BY <1>2
  <2>2. f[k] \in 1 .. Len(x) /\ Batched(x, f[k]) = Batched(y, k) /\ f[j] < f[k]
    BY <1>1, <1>4, <2>1
  <2>3. f[k] \in f[j] + 1 .. Len(x)
    BY <1>2, <1>4, <2>2
  <2> QED
    BY <1>4, <1>5, <2>2, <2>3 DEF RoundAt
<1> QED
  BY <1>4, <1>5, <1>6, <1>7 DEF RoundAt

\* A log that gets longer by entry e, which has no share from before its blocks.
LEMMA RoundLonger ==
    ASSUME NEW x \in Logs, NEW y \in Logs, NEW e, Longer(x, y, e), NEW a, NEW n, RoundOK(a, x, n),
           \A j \in 1 .. Len(x) : HasBlock(x[j]) => NoEarlier(Batched(y, Len(y)), x[j]),
           HasBlock(e) => RoundAt(a, y, Len(y), n)
    PROVE  RoundOK(a, y, n)
<1>1. /\ Len(x) \in Nat /\ Len(y) = Len(x) + 1 /\ y[Len(y)] = e
      /\ \A k \in 1 .. Len(x) : k \in 1 .. Len(y) /\ y[k] = x[k] /\ Batched(y, k) = Batched(x, k)
      /\ \A k \in 1 .. Len(y) : k \in 1 .. Len(x) \/ k = Len(y)
  BY LongerWork
<1>2. ASSUME NEW j \in 1 .. Len(x), HasBlock(x[j]) PROVE RoundAt(a, y, j, n)
  <2>1. RoundAt(a, x, j, n) /\ y[j] = x[j]
    BY <1>1, <1>2 DEF RoundOK
  <2>2. \E k \in 1 .. j - 1 : HasShareOf(Batched(y, k), y[j])
    <3>1. PICK k \in 1 .. j - 1 : HasShareOf(Batched(x, k), x[j])
      BY <2>1 DEF RoundAt
    <3>2. k \in 1 .. Len(x)
      BY <1>1
    <3> QED
      BY <1>1, <2>1, <3>1, <3>2
  <2>3. ASSUME NEW k \in j + 1 .. Len(y) PROVE NoEarlier(Batched(y, k), y[j])
    <3>1. CASE k = Len(y)
      BY <1>2, <2>1, <3>1
    <3>2. CASE k # Len(y)
      <4>1. k \in j + 1 .. Len(x) /\ k \in 1 .. Len(x)
        BY <1>1, <3>2
      <4> QED
        BY <1>1, <2>1, <4>1 DEF RoundAt
    <3> QED
      BY <3>1, <3>2
  <2> QED
    BY <2>1, <2>2, <2>3 DEF RoundAt
<1> QED
  BY <1>1, <1>2 DEF RoundOK

LEMMA RoundCut ==
    ASSUME NEW t \in Threads, NEW a, NEW x \in Logs, NEW b, NEW y \in Logs, Cut(t, a, x, b, y),
           NEW n, RoundOK(a, x, n), OwnShares(a)
    PROVE  RoundOK(b, y, n) /\ OwnShares(b)
<1>1. \A u \in Threads : b[u] = IF u = t THEN <<>> ELSE a[u]
  BY DEF Cut
<1>2. DOMAIN <<>> = {} /\ \A e : NoEarlier(<<>>, e)
  BY DEF NoEarlier
<1>3. OwnShares(b)
  BY <1>1, <1>2 DEF OwnShares
<1>4. RoundOK(b, x, n)
  <2> SUFFICES ASSUME NEW j \in 1 .. Len(x), HasBlock(x[j]) PROVE RoundAt(b, x, j, n)
    BY DEF RoundOK
  <2>1. RoundAt(a, x, j, n)
    BY DEF RoundOK
  <2> QED
    BY <1>1, <1>2, <2>1 DEF RoundAt
<1>5. CASE a[t] = <<>>
  BY <1>3, <1>4, <1>5 DEF Cut
<1>6. CASE a[t] # <<>>
  <2>1. PICK e \in Works : e.shares = a[t] /\ Longer(x, y, e)
    BY <1>6 DEF Cut
  <2>2. HasWork(e) /\ ~HasBlock(e) /\ Batched(y, Len(y)) = a[t]
    BY <2>1, LongerWork DEF Works, HasWork, HasBlock
  <2>3. ASSUME NEW j \in 1 .. Len(x), HasBlock(x[j]) PROVE NoEarlier(a[t], x[j])
    <3>1. RoundAt(a, x, j, n)
      BY <2>3 DEF RoundOK
    <3> QED
      BY <3>1 DEF RoundAt, OwnShares, NoEarlier
  <2>4. RoundOK(b, y, n)
    BY <1>4, <2>1, <2>2, <2>3, RoundLonger
  <2> QED
    BY <1>3, <2>4
<1> QED
  BY <1>5, <1>6

\* A block comes behind the work of its thread, with the share that is the block.
LEMMA RoundBlock ==
    ASSUME NEW x \in Logs, NEW y \in Logs, NEW e \in Found, Longer(x, y, e), NEW a, NEW n, RoundOK(a, x, n),
           e.at <= n, NEW h, Of(e, h), InWork(x, h), a[e.thread] = <<>>
    PROVE  RoundOK(a, y, n)
<1>1. ~HasWork(e) /\ DOMAIN <<>> = {} /\ e.thread \in Threads
  BY DEF Found, HasWork
<1>2. /\ Len(x) \in Nat /\ Len(y) = Len(x) + 1 /\ y[Len(y)] = e /\ Batched(y, Len(y)) = <<>>
      /\ \A k \in 1 .. Len(x) : Batched(y, k) = Batched(x, k)
  BY <1>1, LongerWork
<1>3. \A b : NoEarlier(<<>>, b)
  BY <1>1 DEF NoEarlier
<1>4. \E k \in 1 .. Len(y) - 1 : HasShareOf(Batched(y, k), e)
  <2>1. PICK k \in 1 .. Len(x) : HasShareOf(Batched(x, k), e)
    BY DEF InWork, Here, HasShareOf
  <2>2. k \in 1 .. Len(y) - 1
    BY <1>2
  <2> QED
    BY <1>2, <2>1, <2>2
<1>5. \A k \in Len(y) + 1 .. Len(y) : NoEarlier(Batched(y, k), e)
  BY <1>2
<1>6. RoundAt(a, y, Len(y), n)
  BY <1>1, <1>2, <1>3, <1>4, <1>5 DEF RoundAt
<1> QED
  BY <1>2, <1>3, <1>6, RoundLonger

LEMMA RoundAdded ==
    ASSUME NEW t \in Threads, NEW a \in Columns, NEW b, NEW s \in Shares, Added(t, a, b, s),
           NEW x \in Logs, NEW n \in Nat, RoundOK(a, x, n), OwnShares(a), s.at = n + 1, s.hash.thread = t
    PROVE  RoundOK(b, x, n + 1) /\ OwnShares(b)
<1>1. /\ \A u \in Threads : u # t => b[u] = a[u]
      /\ DOMAIN b[t] = DOMAIN a[t] \cup {Len(a[t]) + 1} /\ b[t][Len(a[t]) + 1] = s
      /\ \A i \in DOMAIN a[t] : b[t][i] = a[t][i]
  <2>1. a[t] \in Seq(Shares) /\ b[t] = Append(a[t], s)
    BY DEF Columns, Added
  <2> QED
    BY <2>1 DEF Added
<1>2. OwnShares(b)
  BY <1>1 DEF OwnShares
<1>3. ASSUME NEW j \in 1 .. Len(x), HasBlock(x[j]) PROVE RoundAt(b, x, j, n + 1)
  <2>1. RoundAt(a, x, j, n)
    BY <1>3 DEF RoundOK
  <2>2. x[j].at \in Nat
    BY <1>3, LogsOf, Kinds DEF Found
  <2>3. x[j].at <= n + 1 /\ ~(s.at <= x[j].at)
    BY <2>1, <2>2 DEF RoundAt
  <2>4. NoEarlier(b[x[j].thread], x[j])
    BY <1>1, <2>1, <2>3 DEF RoundAt, NoEarlier
  <2> QED
    BY <2>1, <2>3, <2>4 DEF RoundAt
<1> QED
  BY <1>2, <1>3 DEF RoundOK

LEMMA RoundLater ==
    ASSUME NEW x \in Logs, NEW a, NEW n \in Nat, NEW m \in Nat, n <= m, RoundOK(a, x, n)
    PROVE  RoundOK(a, x, m)
<1> SUFFICES ASSUME NEW j \in 1 .. Len(x), HasBlock(x[j]) PROVE RoundAt(a, x, j, m)
  BY DEF RoundOK
<1>1. RoundAt(a, x, j, n)
  BY DEF RoundOK
<1>2. x[j].at \in Nat
  BY LogsOf, Kinds DEF Found
<1>3. x[j].at <= m
  BY <1>1, <1>2 DEF RoundAt
<1> QED
  BY <1>1, <1>3 DEF RoundAt

\* The share that is a block, or can become one, is in the log or still in the
\* accumulator of its thread, which is flushed before the block is sent on.
Behind(a, x, t, h) == InWork(x, h) \/ Here(a[t], h)
Keeps(a, x, b, y) == \A t \in Threads : \A h : Behind(a, x, t, h) => Behind(b, y, t, h)
BehindOf(a, x, t, e) == \E h : Of(e, h) /\ Behind(a, x, t, h)
Promised(c, t, share) ==
    /\ t \in Threads /\ share.hash.thread = t /\ share.at <= shares
    /\ BehindOf(Column(c), Log(c), t, share)

RoundsOK == \A c \in Coins : RoundOK(Column(c), Log(c), shares) /\ OwnShares(Column(c))
OpsPromised == \A op \in submits : Promised(op.coin, op.thread, op)
PendingPromised ==
    \A t \in Threads, c \in Coins :
        store[t].pending[c] # NoShare => Promised(c, t, store[t].pending[c].share)

LEMMA KeepsStill ==
    ASSUME NEW x \in Logs, NEW y \in Logs, SameWork(x, y), NEW a
    PROVE  Keeps(a, x, a, y)
<1>1. \A h : InWork(y, h) <=> InWork(x, h)
  BY WorkStays
<1> QED
  BY <1>1 DEF Keeps, Behind

LEMMA KeepsCut ==
    ASSUME NEW t \in Threads, NEW a, NEW x \in Logs, NEW b, NEW y \in Logs, Cut(t, a, x, b, y)
    PROVE  Keeps(a, x, b, y) /\ \A h : Behind(a, x, t, h) => InWork(y, h)
<1>1. \A h : InWork(x, h) \/ Here(a[t], h) => InWork(y, h)
  BY CutWork
<1>2. \A u \in Threads : u # t => b[u] = a[u]
  BY DEF Cut
<1> QED
  BY <1>1, <1>2 DEF Keeps, Behind

LEMMA HereAdded ==
    ASSUME NEW t \in Threads, NEW a \in Columns, NEW b, NEW s \in Shares, Added(t, a, b, s), NEW x
    PROVE  Keeps(a, x, b, x) /\ Here(b[t], s)
<1>1. /\ \A u \in Threads : u # t => b[u] = a[u]
      /\ DOMAIN b[t] = DOMAIN a[t] \cup {Len(a[t]) + 1} /\ b[t][Len(a[t]) + 1] = s
      /\ \A i \in DOMAIN a[t] : b[t][i] = a[t][i]
  <2>1. a[t] \in Seq(Shares) /\ b[t] = Append(a[t], s)
    BY DEF Columns, Added
  <2> QED
    BY <2>1 DEF Added
<1>2. Here(b[t], s) /\ \A h : Here(a[t], h) => Here(b[t], h)
  BY <1>1 DEF Here
<1> QED
  BY <1>1, <1>2 DEF Keeps, Behind

\* What the work and the blocks of coin c go through in a step that is no submission.
LEMMA RoundsMove ==
    ASSUME TypeOK, RoundsOK, OpsPromised, [Next]_vars, NEW c \in Coins,
           \/ Still(c) \/ Flushed(c) \/ Cleared(c)
           \/ \E op \in submits : op.coin = c /\ Found1(op, c)
    PROVE  /\ RoundOK(Column(c)', Log(c)', shares) /\ OwnShares(Column(c)')
           /\ Cleared(c) \/ Keeps(Column(c), Log(c), Column(c)', Log(c)')
<1> DEFINE a == Column(c)
           x == Log(c)
           b == Column(c)'
           y == Log(c)'
<1>1. x \in Logs /\ y \in Logs /\ RoundOK(a, x, shares) /\ OwnShares(a)
  BY ColumnType, LogsNext DEF RoundsOK
<1>2. CASE Still(c)
  <2>1. b = a /\ SameWork(x, y)
    BY <1>2 DEF Still
  <2> HIDE DEF a, x, b, y
  <2>2. RoundOK(b, y, shares) /\ OwnShares(b) /\ Keeps(a, x, b, y)
    BY <1>1, <2>1, RoundStays, KeepsStill
  <2> QED
    BY <2>2 DEF a, x, b, y
<1>3. CASE Flushed(c)
  <2>1. PICK t \in Threads : Cut(t, a, x, b, y)
    BY <1>3 DEF Flushed
  <2> HIDE DEF a, x, b, y
  <2>2. RoundOK(b, y, shares) /\ OwnShares(b) /\ Keeps(a, x, b, y)
    BY <1>1, <2>1, RoundCut, KeepsCut
  <2> QED
    BY <2>2 DEF a, x, b, y
<1>4. CASE Cleared(c)
  <2>1. y = x /\ \A t \in Threads : b[t] = <<>>
    BY <1>4 DEF Cleared
  <2> HIDE DEF a, x, b, y
  <2>2. DOMAIN <<>> = {} /\ \A e : NoEarlier(<<>>, e)
    BY DEF NoEarlier
  <2>3. OwnShares(b)
    BY <2>1, <2>2 DEF OwnShares
  <2>4. \A j : RoundAt(a, x, j, shares) => RoundAt(b, x, j, shares)
    BY <2>1, <2>2 DEF RoundAt
  <2>5. RoundOK(b, y, shares)
    BY <1>1, <2>1, <2>4 DEF RoundOK
  <2> QED
    BY <1>4, <2>3, <2>5 DEF b, y
<1>5. ASSUME NEW op \in submits, op.coin = c, Found1(op, c)
      PROVE  /\ RoundOK(Column(c)', Log(c)', shares) /\ OwnShares(Column(c)')
             /\ Keeps(Column(c), Log(c), Column(c)', Log(c)')
  <2>1. PICK z \in Logs : Cut(op.thread, a, x, b, z) /\ Longer(z, y, BlockOf(op))
    BY <1>5 DEF Found1
  <2>2. op.thread \in Threads /\ BlockOf(op) \in Found
    BY DEF TypeOK, Ops, BlockOf, Found
  <2>3. op.at <= shares /\ BehindOf(a, x, op.thread, op)
    BY <1>5 DEF OpsPromised, Promised
  <2>11. PICK h : Of(op, h) /\ Behind(a, x, op.thread, h)
    BY <2>3 DEF BehindOf
  <2> DEFINE e == BlockOf(op)
  <2>4. e.at = op.at /\ e.hash = op.hash /\ e.thread = op.thread
    BY DEF BlockOf
  <2>12. Of(e, h)
    BY <2>4, <2>11 DEF Of
  <2> HIDE DEF a, x, b, y, e
  <2>5. RoundOK(b, z, shares) /\ OwnShares(b)
    BY <1>1, <2>1, <2>2, RoundCut
  <2>6. Keeps(a, x, b, z) /\ InWork(z, h)
    BY <1>1, <2>1, <2>2, <2>11, KeepsCut
  <2>7. b[op.thread] = <<>>
    BY <2>1, <2>2 DEF Cut
  <2>8. RoundOK(b, y, shares)
    BY <1>1, <2>1, <2>2, <2>3, <2>4, <2>5, <2>6, <2>7, <2>12, RoundBlock DEF e
  <2>9. \A g : InWork(y, g) <=> InWork(z, g)
    BY <1>1, <2>1, <2>2, BlockAdds
  <2>10. Keeps(a, x, b, y)
    BY <2>6, <2>9 DEF Keeps, Behind
  <2> QED
    BY <2>5, <2>8, <2>10 DEF a, x, b, y
<1> QED
  BY <1>2, <1>3, <1>4, <1>5

\* A submission, for one coin.
LEMMA RoundsSubmit ==
    ASSUME TypeOK, RoundsOK, NEW t \in Threads, NEW id, NEW v \in Versions, NEW nonce \in Nonces, NEW good, NEW blocks, NEW pend,
           Submit(t, id, v, nonce, good, blocks, pend), NEW c \in Coins
    PROVE  /\ RoundOK(Column(c)', Log(c)', shares + 1) /\ OwnShares(Column(c)')
           /\ Keeps(Column(c), Log(c), Column(c)', Log(c)')
           /\ IsNew(t, id, v, nonce, good) /\ c \in store[t].work[id].live =>
                 BehindOf(Column(c)', Log(c)', t, TheShare(t, id, v, nonce))
<1> DEFINE w == store[t].work[id]
           s == ShareFor(t, id, v, nonce, c)
<1>1. /\ Submitted(t, id, v, nonce, good, c) /\ (c \in w.live => s \in Shares)
      /\ Column(c) \in Columns /\ Log(c) \in Logs
      /\ RoundOK(Column(c), Log(c), shares) /\ OwnShares(Column(c)) /\ shares \in Nat
  BY SubmitMoves, ColumnType DEF RoundsOK, TypeOK
<1>2. s.hash.thread = t /\ s.at = shares + 1 /\ Of(TheShare(t, id, v, nonce), s)
  BY DEF ShareFor, HashOf, TheShare, Of
<1>3. CASE IsNew(t, id, v, nonce, good) /\ c \in w.live
  <2>1. Added(t, Column(c), Column(c)', s) /\ Log(c)' = Log(c) /\ s \in Shares
    BY <1>1, <1>3 DEF Submitted
  <2> HIDE DEF s
  <2>2. s.hash.thread = t
    BY <1>2
  <2>3. RoundOK(Column(c)', Log(c), shares + 1) /\ OwnShares(Column(c)')
    BY <1>1, <1>2, <2>1, <2>2, RoundAdded
  <2>4. Keeps(Column(c), Log(c), Column(c)', Log(c)) /\ Here(Column(c)'[t], s)
    BY <1>1, <2>1, HereAdded
  <2>5. BehindOf(Column(c)', Log(c), t, TheShare(t, id, v, nonce))
    BY <1>2, <2>4 DEF Behind, BehindOf
  <2> QED
    BY <2>1, <2>3, <2>4, <2>5
<1>4. CASE ~(IsNew(t, id, v, nonce, good) /\ c \in w.live)
  <2>1. Column(c)' = Column(c) /\ Log(c)' = Log(c)
    BY <1>1, <1>4 DEF Submitted
  <2>2. RoundOK(Column(c), Log(c), shares + 1)
    <3>1. shares + 1 \in Nat /\ shares <= shares + 1
      BY <1>1
    <3> QED
      BY <1>1, <3>1, RoundLater
  <2>3. Keeps(Column(c), Log(c), Column(c)', Log(c)')
    BY <2>1 DEF Keeps
  <2> QED
    BY <1>1, <1>4, <2>1, <2>2, <2>3
<1> QED
  BY <1>3, <1>4

LEMMA SharesGrow ==
    ASSUME TypeOK, [Next]_vars
    PROVE  /\ shares' \in Nat /\ shares <= shares'
           /\ \/ shares' = shares
              \/ \E t \in Threads, id \in Nat, v \in Versions, nonce \in Nonces, good \in BOOLEAN, blocks, pend \in SUBSET Coins :
                    Submit(t, id, v, nonce, good, blocks, pend)
<1>1. shares \in Nat
  BY DEF TypeOK
<1>2. ASSUME NEW t \in Threads, NEW id \in store[t].byId, NEW v \in Versions, NEW nonce \in Nonces, NEW good \in BOOLEAN,
             NEW blocks \in SUBSET Coins, NEW pend \in SUBSET inst.rtt, Submit(t, id, v, nonce, good, blocks, pend)
      PROVE  id \in Nat /\ pend \in SUBSET Coins /\ shares' = shares + 1
  BY <1>2, Live, Instance DEF Submit
<1>3. \/ shares' = shares
      \/ \E t \in Threads : \E id \in store[t].byId, v \in Versions, nonce \in Nonces, good \in BOOLEAN :
            \E blocks \in SUBSET Coins, pend \in SUBSET inst.rtt : Submit(t, id, v, nonce, good, blocks, pend)
  BY DEF Next, vars, BackendStep, OnUserWorkSummary, OnBlockFound, OnMergedBlockNotification, NewBlockTemplate,
     FlushWork, RttTimer, AcceptWork, NodeAccepts, NodeFails, Stop
<1>4. CASE shares' = shares
  BY <1>1, <1>4
<1>5. ASSUME NEW t \in Threads, NEW id \in store[t].byId, NEW v \in Versions, NEW nonce \in Nonces, NEW good \in BOOLEAN,
             NEW blocks \in SUBSET Coins, NEW pend \in SUBSET inst.rtt, Submit(t, id, v, nonce, good, blocks, pend)
      PROVE  /\ shares' \in Nat /\ shares <= shares'
             /\ \E m \in Nat, q \in SUBSET Coins : Submit(t, m, v, nonce, good, blocks, q)
  <2>1. id \in Nat /\ pend \in SUBSET Coins /\ shares' = shares + 1
    BY <1>2, <1>5
  <2>2. shares' \in Nat /\ shares <= shares'
    BY <1>1, <2>1
  <2>3. \E m \in Nat, q \in SUBSET Coins : Submit(t, m, v, nonce, good, blocks, q)
    BY <1>5, <2>1
  <2> QED
    BY <2>2, <2>3
<1> QED
  BY <1>3, <1>4, <1>5

\* Where the blocks come from that wait for answers: one that waited before, a
\* share that is a block, or a pending share that has become one.
SameBlockAs(op, o) ==
    o.coin = op.coin /\ o.thread = op.thread /\ o.hash = op.hash /\ o.at = op.at
    /\ o.block = op.block /\ o.others = op.others
IsSubmission(o, t, c, share, id) ==
    /\ o.coin = c /\ o.thread = t /\ o.hash = share.hash /\ o.at = share.at
    /\ o.block = BlockHash(store[t], id, c, share.hash) /\ o.others = store[t].work[id].live \ {c}
    /\ c \in store[t].work[id].live /\ t \in Threads /\ c \in Coins
FromShare(o, t, id, v, nonce, blocks) ==
    \E c \in blocks : IsSubmission(o, t, c, TheShare(t, id, v, nonce), id)
FromPending(o) ==
    \E t \in Threads, c \in Coins :
        LET pend == store[t].pending[c]
        IN  /\ RttTimer(t, c) /\ pend # NoShare /\ pend.id \in store[t].byId
            /\ IsSubmission(o, t, c, pend.share, pend.id)

LEMMA AnsweredAre ==
    ASSUME TypeOK, NEW op \in submits, NEW n, NEW ok, NEW o \in Answered(op, n, ok)
    PROVE  \E p \in submits : SameBlockAs(p, o)
<1>1. op \in Ops(inst)
  BY DEF TypeOK
<1> DEFINE rest == [op EXCEPT !.waits = @ \ {n}, !.ok = @ + ok]
<1>2. o \in submits \/ o = rest
  BY DEF Answered
<1>3. SameBlockAs(op, rest)
  BY <1>1 DEF Ops, SameBlockAs
<1>4. CASE o \in submits
  BY <1>4 DEF SameBlockAs
<1> HIDE DEF rest
<1> QED
  BY <1>2, <1>3, <1>4

LEMMA OpsFrom ==
    ASSUME TypeOK, [Next]_vars, NEW o \in submits'
    PROVE  \/ \E op \in submits : SameBlockAs(op, o)
           \/ FromPending(o)
           \/ \E t \in Threads, id \in Nat, v \in Versions, nonce \in Nonces, good \in BOOLEAN, blocks, pend \in SUBSET Coins :
                 Submit(t, id, v, nonce, good, blocks, pend) /\ FromShare(o, t, id, v, nonce, blocks)
<1>1. ASSUME submits' = submits PROVE \E op \in submits : SameBlockAs(op, o)
  BY <1>1 DEF SameBlockAs
<1>2. ASSUME NEW op \in submits, NEW n, NodeAccepts(op, n) \/ NodeFails(op, n)
      PROVE  \E p \in submits : SameBlockAs(p, o)
  BY <1>2, AnsweredAre DEF NodeAccepts, NodeFails
<1>3. ASSUME NEW t \in Threads, NEW c \in Coins, RttTimer(t, c)
      PROVE  (\E op \in submits : SameBlockAs(op, o)) \/ FromPending(o)
  <2> DEFINE pend == store[t].pending[c]
             w == store[t].work[pend.id]
             new == Submission(t, c, pend.id, pend.share, sends')
  <2>1. /\ pend # NoShare /\ pend.id \in store[t].byId /\ c \in w.live
        /\ submits' = submits \cup {new}
    BY <1>3 DEF RttTimer
  <2>2. CASE o \in submits
    BY <2>2 DEF SameBlockAs
  <2>3. CASE o = new
    <3>1. IsSubmission(o, t, c, pend.share, pend.id)
      BY <2>1, <2>3 DEF IsSubmission, Submission
    <3> QED
      BY <1>3, <2>1, <3>1 DEF FromPending
  <2> HIDE DEF new
  <2> QED
    BY <2>1, <2>2, <2>3
<1>4. ASSUME NEW t \in Threads, NEW id \in store[t].byId, NEW v \in Versions, NEW nonce \in Nonces, NEW good \in BOOLEAN,
             NEW blocks \in SUBSET Coins, NEW pend \in SUBSET inst.rtt, Submit(t, id, v, nonce, good, blocks, pend)
      PROVE  id \in Nat /\ pend \in SUBSET Coins /\ ((\E op \in submits : SameBlockAs(op, o)) \/ FromShare(o, t, id, v, nonce, blocks))
  <2> DEFINE w == store[t].work[id]
             share == TheShare(t, id, v, nonce)
  <2>1. /\ blocks \subseteq w.live /\ id \in Nat /\ pend \in SUBSET Coins
        /\ submits' = submits \cup {Submission(t, c, id, share, sends') : c \in blocks}
    BY <1>4, Live, Instance DEF Submit, TheShare, HashOf
  <2>2. CASE o \in submits
    BY <2>1, <2>2 DEF SameBlockAs
  <2>3. ASSUME NEW c \in blocks, o = Submission(t, c, id, share, sends')
        PROVE  FromShare(o, t, id, v, nonce, blocks)
    <3>1. IsSubmission(o, t, c, share, id)
      BY <2>1, <2>3 DEF IsSubmission, Submission
    <3> QED
      BY <3>1 DEF FromShare
  <2> QED
    BY <2>1, <2>2, <2>3
<1>5. CASE \/ \E c \in Coins : BackendStep(c) \/ \E b \in Blocks : NewBlockTemplate(c, b)
           \/ \E t \in Threads, c \in Coins : FlushWork(t, c)
           \/ \E t \in Threads : AcceptWork(t)
           \/ UNCHANGED vars
  BY <1>1, <1>5 DEF vars, BackendStep, OnUserWorkSummary, OnBlockFound, OnMergedBlockNotification,
     NewBlockTemplate, FlushWork, AcceptWork
<1>6. CASE Stop
  BY <1>6 DEF Stop
<1>7. ASSUME NEW t \in Threads, NEW id \in store[t].byId, NEW v \in Versions, NEW nonce \in Nonces, NEW good \in BOOLEAN,
             NEW blocks \in SUBSET Coins, NEW pend \in SUBSET inst.rtt, Submit(t, id, v, nonce, good, blocks, pend)
      PROVE  \/ \E op \in submits : SameBlockAs(op, o)
             \/ \E i \in Nat, ps \in SUBSET Coins :
                   Submit(t, i, v, nonce, good, blocks, ps) /\ FromShare(o, t, i, v, nonce, blocks)
  <2>1. id \in Nat /\ pend \in SUBSET Coins /\ ((\E op \in submits : SameBlockAs(op, o)) \/ FromShare(o, t, id, v, nonce, blocks))
    BY <1>4, <1>7
  <2> QED
    BY <1>7, <2>1
<1>8. CASE \E t \in Threads : \E id \in store[t].byId, v \in Versions, nonce \in Nonces, good \in BOOLEAN :
              \E blocks \in SUBSET Coins, pend \in SUBSET inst.rtt : Submit(t, id, v, nonce, good, blocks, pend)
  <2>1. PICK t \in Threads : \E id \in store[t].byId, v \in Versions, nonce \in Nonces, good \in BOOLEAN :
               \E blocks \in SUBSET Coins, pend \in SUBSET inst.rtt : Submit(t, id, v, nonce, good, blocks, pend)
    BY <1>8
  <2>2. PICK id \in store[t].byId, v \in Versions, nonce \in Nonces, good \in BOOLEAN,
             blocks \in SUBSET Coins, pend \in SUBSET inst.rtt : Submit(t, id, v, nonce, good, blocks, pend)
    BY <2>1
  <2> QED
    BY <1>7, <2>2
<1>9. CASE \/ \E t \in Threads, c \in Coins : RttTimer(t, c)
           \/ \E op \in submits, n \in inst.nodes : NodeAccepts(op, n) \/ NodeFails(op, n)
  BY <1>2, <1>3, <1>9
<1> QED
  BY <1>5, <1>6, <1>8, <1>9 DEF Next

\* Where pending shares come from.
LEMMA PendingFrom ==
    ASSUME TypeOK, [Next]_vars, NEW t \in Threads, NEW c \in Coins, store'[t].pending[c] # NoShare
    PROVE  \/ store[t].pending[c] # NoShare /\ store'[t].pending[c] = store[t].pending[c]
           \/ \E id \in Nat, v \in Versions, nonce \in Nonces, good \in BOOLEAN, blocks, pend \in SUBSET Coins :
                 /\ Submit(t, id, v, nonce, good, blocks, pend) /\ c \in pend
                 /\ store'[t].pending[c] = [id |-> id, share |-> TheShare(t, id, v, nonce)]
<1>1. CASE UNCHANGED store
  BY <1>1
<1>2. ASSUME NEW u \in Threads, AcceptWork(u)
      PROVE  store[t].pending[c] # NoShare /\ store'[t].pending[c] = store[t].pending[c]
  <2>1. PICK e : Loaded(u, e) /\ Stored(u, e)
    BY <1>2, AcceptWorkDoes
  <2>2. CASE t = u
    <3>1. SameShares(store[t], e, c) \/ NoShares(e, c)
      BY <2>1, <2>2, LoadedShares
    <3>2. store'[t].pending = e.pending
      BY <2>1, <2>2 DEF Stored
    <3> QED
      BY <3>1, <3>2 DEF SameShares, NoShares
  <2>3. CASE t # u
    BY <2>1, <2>3 DEF Stored
  <2> QED
    BY <2>2, <2>3
<1>3. ASSUME NEW u \in Threads, NEW id \in store[u].byId, NEW v \in Versions, NEW nonce \in Nonces, NEW good \in BOOLEAN,
             NEW blocks \in SUBSET Coins, NEW pend \in SUBSET inst.rtt, Submit(u, id, v, nonce, good, blocks, pend)
      PROVE  \/ store[t].pending[c] # NoShare /\ store'[t].pending[c] = store[t].pending[c]
             \/ /\ t = u /\ id \in Nat /\ c \in pend /\ pend \in SUBSET Coins
                /\ store'[t].pending[c] = [id |-> id, share |-> TheShare(t, id, v, nonce)]
  <2>1. Noted(u, id, v, nonce, pend) /\ id \in Nat /\ pend \in SUBSET Coins
    BY <1>3, SubmitNotes, Live, Instance
  <2>2. CASE t = u
    BY <2>1, <2>2 DEF Noted
  <2>3. CASE t # u
    BY <2>1, <2>3 DEF Noted
  <2> QED
    BY <2>2, <2>3
<1>4. CASE Stop
  <2>1. EmptyStorage(inst).pending[c] = NoShare
    BY DEF EmptyStorage
  <2> QED
    BY <1>4, <2>1 DEF Stop
<1>5. ASSUME NEW u \in Threads, NEW id \in store[u].byId, NEW v \in Versions, NEW nonce \in Nonces, NEW good \in BOOLEAN,
             NEW blocks \in SUBSET Coins, NEW pend \in SUBSET inst.rtt, Submit(u, id, v, nonce, good, blocks, pend)
      PROVE  \/ store[t].pending[c] # NoShare /\ store'[t].pending[c] = store[t].pending[c]
             \/ \E i \in Nat, ps \in SUBSET Coins :
                   /\ Submit(t, i, v, nonce, good, blocks, ps) /\ c \in ps
                   /\ store'[t].pending[c] = [id |-> i, share |-> TheShare(t, i, v, nonce)]
  <2>1. \/ store[t].pending[c] # NoShare /\ store'[t].pending[c] = store[t].pending[c]
        \/ /\ t = u /\ id \in Nat /\ c \in pend /\ pend \in SUBSET Coins
           /\ store'[t].pending[c] = [id |-> id, share |-> TheShare(t, id, v, nonce)]
    BY <1>3, <1>5
  <2> QED
    BY <1>5, <2>1
<1>6. \/ UNCHANGED store \/ Stop
      \/ \E u \in Threads : AcceptWork(u)
      \/ \E u \in Threads : \E id \in store[u].byId, v \in Versions, nonce \in Nonces, good \in BOOLEAN :
            \E blocks \in SUBSET Coins, pend \in SUBSET inst.rtt : Submit(u, id, v, nonce, good, blocks, pend)
  BY DEF Next, vars, work, NewBlockTemplate, BackendStep, OnUserWorkSummary,
     OnBlockFound, OnMergedBlockNotification, FlushWork, RttTimer, NodeAccepts, NodeFails
<1>7. CASE \E u \in Threads : \E id \in store[u].byId, v \in Versions, nonce \in Nonces, good \in BOOLEAN :
              \E blocks \in SUBSET Coins, pend \in SUBSET inst.rtt : Submit(u, id, v, nonce, good, blocks, pend)
  <2>1. PICK u \in Threads : \E id \in store[u].byId, v \in Versions, nonce \in Nonces, good \in BOOLEAN :
               \E blocks \in SUBSET Coins, pend \in SUBSET inst.rtt : Submit(u, id, v, nonce, good, blocks, pend)
    BY <1>7
  <2>2. PICK id \in store[u].byId, v \in Versions, nonce \in Nonces, good \in BOOLEAN,
             blocks \in SUBSET Coins, pend \in SUBSET inst.rtt : Submit(u, id, v, nonce, good, blocks, pend)
    BY <2>1
  <2>3. \/ store[t].pending[c] # NoShare /\ store'[t].pending[c] = store[t].pending[c]
        \/ \E i \in Nat, ps \in SUBSET Coins :
              /\ Submit(t, i, v, nonce, good, blocks, ps) /\ c \in ps
              /\ store'[t].pending[c] = [id |-> i, share |-> TheShare(t, i, v, nonce)]
    BY <1>5, <2>2
  <2> QED
    BY <2>3
<1> QED
  BY <1>1, <1>2, <1>4, <1>6, <1>7

LEMMA RoundsInit ==
    ASSUME Init
    PROVE  RoundsOK /\ OpsPromised /\ PendingPromised
<1>1. \A c \in Coins, t \in Threads : Column(c)[t] = <<>>
  BY DEF Init, Column
<1>2. \A c \in Coins : Log(c) = <<>>
  BY DEF Init, Log
<1>3. Len(<<>>) = 0 /\ DOMAIN <<>> = {}
  OBVIOUS
<1>4. RoundsOK
  BY <1>1, <1>2, <1>3 DEF RoundsOK, RoundOK, OwnShares
<1>5. EmptyStorage(inst).pending = [c \in Coins |-> NoShare]
  BY DEF EmptyStorage
<1>6. OpsPromised /\ PendingPromised
  BY <1>5 DEF Init, OpsPromised, PendingPromised
<1> QED
  BY <1>4, <1>6

\* One step, for one coin: what was promised stays behind, unless the threads stop.
LEMMA RoundsStep ==
    ASSUME TypeOK, RoundsOK, OpsPromised, [Next]_vars, NEW c \in Coins
    PROVE  /\ RoundOK(Column(c)', Log(c)', shares') /\ OwnShares(Column(c)')
           /\ Stop \/ Keeps(Column(c), Log(c), Column(c)', Log(c)')
<1>1. shares' \in Nat /\ shares <= shares' /\ shares \in Nat /\ Log(c)' \in Logs
  BY SharesGrow, LogsNext DEF TypeOK
<1>2. CASE \/ Still(c) \/ Flushed(c) \/ (Stop /\ Cleared(c))
           \/ \E op \in submits, n \in inst.nodes : NodeAccepts(op, n) /\ op.ok = 0 /\ op.coin = c /\ Found1(op, c)
  <2>1. /\ RoundOK(Column(c)', Log(c)', shares) /\ OwnShares(Column(c)')
        /\ Cleared(c) \/ Keeps(Column(c), Log(c), Column(c)', Log(c)')
    BY <1>2, RoundsMove
  <2>2. RoundOK(Column(c)', Log(c)', shares')
    BY <1>1, <2>1, RoundLater
  <2>3. Stop \/ Keeps(Column(c), Log(c), Column(c)', Log(c)')
    <3>1. CASE Still(c) \/ Flushed(c)
               \/ \E op \in submits, n \in inst.nodes : NodeAccepts(op, n) /\ op.ok = 0 /\ op.coin = c /\ Found1(op, c)
      <4>1. CASE Still(c)
        <5>1. Log(c) \in Logs /\ Column(c)' = Column(c) /\ SameWork(Log(c), Log(c)')
          BY <4>1, ColumnType DEF Still
        <5> QED
          BY <1>1, <5>1, KeepsStill
      <4>2. CASE Flushed(c)
        <5>1. PICK t \in Threads : Cut(t, Column(c), Log(c), Column(c)', Log(c)')
          BY <4>2 DEF Flushed
        <5> QED
          BY <1>1, <5>1, ColumnType, KeepsCut
      <4>3. ASSUME NEW op \in submits, Found1(op, c) PROVE Keeps(Column(c), Log(c), Column(c)', Log(c)')
        <5>1. PICK z \in Logs : Cut(op.thread, Column(c), Log(c), Column(c)', z) /\ Longer(z, Log(c)', BlockOf(op))
          BY <4>3 DEF Found1
        <5>2. op.thread \in Threads /\ BlockOf(op) \in Found
          BY DEF TypeOK, Ops, BlockOf, Found
        <5>3. Keeps(Column(c), Log(c), Column(c)', z)
          BY <5>1, <5>2, ColumnType, KeepsCut
        <5>4. \A h : InWork(Log(c)', h) <=> InWork(z, h)
          BY <1>1, <5>1, <5>2, BlockAdds
        <5> QED
          BY <5>3, <5>4 DEF Keeps, Behind
      <4> QED
        BY <3>1, <4>1, <4>2, <4>3
    <3> QED
      BY <1>2, <3>1
  <2> QED
    BY <2>1, <2>2, <2>3
<1>3. ASSUME NEW t \in Threads, NEW id, NEW v \in Versions, NEW nonce \in Nonces, NEW good, NEW blocks, NEW pend,
             Submit(t, id, v, nonce, good, blocks, pend)
      PROVE  /\ RoundOK(Column(c)', Log(c)', shares') /\ OwnShares(Column(c)')
             /\ Keeps(Column(c), Log(c), Column(c)', Log(c)')
  <2>1. shares' = shares + 1
    BY <1>3 DEF Submit
  <2> QED
    BY <1>3, <2>1, RoundsSubmit
<1> QED
  BY <1>2, <1>3, OthersMove

\* It is so after the step.
PromisedStill(c, t, share) ==
    /\ t \in Threads /\ share.hash.thread = t /\ share.at <= shares'
    /\ BehindOf(Column(c)', Log(c)', t, share)

LEMMA StillPromised ==
    ASSUME TypeOK, shares' \in Nat, shares <= shares', NEW c \in Coins, Keeps(Column(c), Log(c), Column(c)', Log(c)'),
           NEW t, NEW share, Promised(c, t, share), share.at \in Nat
    PROVE  PromisedStill(c, t, share)
<1>1. shares \in Nat /\ share.at <= shares'
  BY DEF TypeOK, Promised
<1> QED
  BY <1>1 DEF Promised, PromisedStill, Keeps, BehindOf

LEMMA RoundsNext ==
    ASSUME TypeOK, RoundsOK, OpsPromised, PendingPromised, [Next]_vars
    PROVE  RoundsOK' /\ OpsPromised' /\ PendingPromised'
<1>1. RoundsOK'
  BY RoundsStep DEF RoundsOK
<1>2. CASE Stop
  <2>1. \A c \in Coins : EmptyStorage(inst).pending[c] = NoShare
    BY DEF EmptyStorage
  <2> QED
    BY <1>1, <1>2, <2>1 DEF Stop, OpsPromised, PendingPromised
<1>3. CASE ~Stop
  <2>1. /\ \A c \in Coins : Keeps(Column(c), Log(c), Column(c)', Log(c)')
        /\ shares' \in Nat /\ shares <= shares' /\ shares \in Nat
    BY <1>3, RoundsStep, SharesGrow DEF TypeOK
  <2>2. ASSUME NEW t \in Threads, NEW c \in Coins, store[t].pending[c] # NoShare
        PROVE  PromisedStill(c, t, store[t].pending[c].share)
    <3> DEFINE share == store[t].pending[c].share
    <3>1. Promised(c, t, share) /\ share.at \in Nat
      BY <2>2 DEF PendingPromised, TypeOK, StoreOK, Pending, SentShares
    <3> QED
      BY <2>1, <3>1, StillPromised
  <2>3. ASSUME NEW t \in Threads, NEW id \in Nat, NEW v \in Versions, NEW nonce \in Nonces, NEW good \in BOOLEAN,
               NEW blocks \in SUBSET Coins, NEW pend \in SUBSET Coins, Submit(t, id, v, nonce, good, blocks, pend),
               NEW c \in Coins, c \in blocks \cup pend
        PROVE  PromisedStill(c, t, TheShare(t, id, v, nonce))
    <3>1. /\ IsNew(t, id, v, nonce, good) /\ c \in store[t].work[id].live /\ shares' = shares + 1
      BY <2>3 DEF Submit, IsNew, HashOf
    <3>2. BehindOf(Column(c)', Log(c)', t, TheShare(t, id, v, nonce))
      BY <2>3, <3>1, RoundsSubmit
    <3> QED
      BY <2>1, <3>1, <3>2 DEF PromisedStill, TheShare, HashOf
  <2>4. ASSUME NEW o \in submits' PROVE PromisedStill(o.coin, o.thread, o)
    <3>1. ASSUME NEW op \in submits, SameBlockAs(op, o) PROVE PromisedStill(o.coin, o.thread, o)
      <4>1. op.coin \in Coins /\ op.at \in Nat /\ Promised(op.coin, op.thread, op)
        BY DEF OpsPromised, TypeOK, Ops
      <4>2. PromisedStill(op.coin, op.thread, op)
        BY <2>1, <4>1, StillPromised
      <4> QED
        BY <3>1, <4>2 DEF SameBlockAs, PromisedStill, BehindOf, Of
    <3>2. CASE FromPending(o)
      <4>1. PICK t \in Threads, c \in Coins : store[t].pending[c] # NoShare
               /\ IsSubmission(o, t, c, store[t].pending[c].share, store[t].pending[c].id)
        BY <3>2 DEF FromPending
      <4>2. PromisedStill(c, t, store[t].pending[c].share)
        BY <2>2, <4>1
      <4> QED
        BY <4>1, <4>2 DEF IsSubmission, PromisedStill, BehindOf, Of
    <3>3. ASSUME NEW t \in Threads, NEW id \in Nat, NEW v \in Versions, NEW nonce \in Nonces, NEW good \in BOOLEAN,
                 NEW blocks \in SUBSET Coins, NEW pend \in SUBSET Coins, Submit(t, id, v, nonce, good, blocks, pend),
                 FromShare(o, t, id, v, nonce, blocks)
          PROVE  PromisedStill(o.coin, o.thread, o)
      <4>1. PICK c \in blocks : IsSubmission(o, t, c, TheShare(t, id, v, nonce), id)
        BY <3>3 DEF FromShare
      <4>2. c \in Coins /\ PromisedStill(c, t, TheShare(t, id, v, nonce))
        BY <2>3, <3>3
      <4> QED
        BY <4>1, <4>2 DEF IsSubmission, PromisedStill, BehindOf, Of
    <3> QED
      BY <3>1, <3>2, <3>3, OpsFrom
  <2>5. ASSUME NEW t \in Threads, NEW c \in Coins, store'[t].pending[c] # NoShare
        PROVE  PromisedStill(c, t, store'[t].pending[c].share)
    <3>1. CASE store[t].pending[c] # NoShare /\ store'[t].pending[c] = store[t].pending[c]
      <4>1. PromisedStill(c, t, store[t].pending[c].share)
        BY <2>2, <3>1
      <4> QED
        BY <3>1, <4>1
    <3>2. ASSUME NEW id \in Nat, NEW v \in Versions, NEW nonce \in Nonces, NEW good \in BOOLEAN,
                 NEW blocks \in SUBSET Coins, NEW pend \in SUBSET Coins, Submit(t, id, v, nonce, good, blocks, pend),
                 c \in pend, store'[t].pending[c] = [id |-> id, share |-> TheShare(t, id, v, nonce)]
          PROVE  PromisedStill(c, t, store'[t].pending[c].share)
      <4>1. PromisedStill(c, t, TheShare(t, id, v, nonce))
        BY <2>3, <3>2
      <4> QED
        BY <3>2, <4>1
    <3>3. \/ store[t].pending[c] # NoShare /\ store'[t].pending[c] = store[t].pending[c]
          \/ \E id \in Nat, v \in Versions, nonce \in Nonces, good \in BOOLEAN, blocks, pend \in SUBSET Coins :
                /\ Submit(t, id, v, nonce, good, blocks, pend) /\ c \in pend
                /\ store'[t].pending[c] = [id |-> id, share |-> TheShare(t, id, v, nonce)]
      BY <2>5, PendingFrom
    <3> QED
      BY <3>1, <3>2, <3>3
  <2>6. \A c, t, share : PromisedStill(c, t, share) =>
            /\ t \in Threads /\ share.hash.thread = t /\ share.at <= shares'
            /\ BehindOf(Column(c)', Log(c)', t, share)
    BY DEF PromisedStill
  <2> QED
    BY <1>1, <2>4, <2>5, <2>6 DEF OpsPromised, PendingPromised, Promised
<1> QED
  BY <1>2, <1>3

\* The round of a block has the work of its finder's thread, whatever the
\* bounds: the share that is the block is in the accumulator by the time the
\* block is sent, the accumulator is flushed in front of the found block, and
\* what the thread accepts later came after it (stratum.h).
THEOREM RoundHasItsWorkHolds == Spec => []RoundHasItsWork
<1>1. Init => RoundsOK /\ OpsPromised /\ PendingPromised
  BY RoundsInit
<1>2. TypeOK /\ RoundsOK /\ OpsPromised /\ PendingPromised /\ [Next]_vars =>
          RoundsOK' /\ OpsPromised' /\ PendingPromised'
  BY RoundsNext
<1>3. TypeOK /\ RoundsOK => RoundHasItsWork
  <2> SUFFICES ASSUME TypeOK, RoundsOK, NEW c \in Coins, NEW j \in DOMAIN Log(c), HasBlock(Log(c)[j])
               PROVE  LET b == Log(c)[j]
                          earlier(s) == s.at <= b.at /\ s.hash.thread = b.thread
                          in(k) == HasWork(Log(c)[k]) /\ \E i \in DOMAIN Log(c)[k].shares : earlier(Log(c)[k].shares[i])
                      IN  /\ \E k \in 1 .. j - 1 : HasWork(Log(c)[k])
                                /\ \E i \in DOMAIN Log(c)[k].shares : Log(c)[k].shares[i].at = b.at
                          /\ \A k \in j + 1 .. Len(Log(c)) : ~in(k)
                          /\ \A k \in DOMAIN acc[b.thread][c] : ~earlier(acc[b.thread][c][k])
    BY DEF RoundHasItsWork
  <2>1. Log(c) \in Logs /\ DOMAIN Log(c) = 1 .. Len(Log(c)) /\ \A t \in Threads : Column(c)[t] = acc[t][c]
    BY ColumnType, LogsOf
  <2>2. RoundAt(Column(c), Log(c), j, shares)
    BY <2>1 DEF RoundsOK, RoundOK
  <2> DEFINE x == Log(c)
  <2>3. PICK k \in 1 .. j - 1 : HasShareOf(Batched(x, k), x[j])
    BY <2>2 DEF RoundAt
  <2>4. HasWork(x[k]) /\ \E i \in DOMAIN x[k].shares : x[k].shares[i].at = x[j].at
    <3>1. DOMAIN <<>> = {}
      OBVIOUS
    <3> QED
      BY <2>3, <3>1 DEF HasShareOf, Of, Batched
  <2>5. ASSUME NEW l \in j + 1 .. Len(x), HasWork(x[l]), NEW i \in DOMAIN x[l].shares
        PROVE  ~(x[l].shares[i].at <= x[j].at /\ x[l].shares[i].hash.thread = x[j].thread)
    BY <2>2, <2>5 DEF RoundAt, NoEarlier, Batched
  <2>6. \A i \in DOMAIN acc[x[j].thread][c] :
            ~(acc[x[j].thread][c][i].at <= x[j].at /\ acc[x[j].thread][c][i].hash.thread = x[j].thread)
    BY <2>1, <2>2 DEF RoundAt, NoEarlier
  <2> QED
    BY <2>4, <2>5, <2>6
<1> QED
  BY <1>1, <1>2, <1>3, TypesHold, PTL DEF Spec

----------------------------------------------------------------------------
(* A block gets one round.                                                 *)

\* Log x has the found block h; no report is there twice.
BlockIn(x, h) == \E j \in 1 .. Len(x) : HasBlock(x[j]) /\ x[j] = h
BlocksOnce(x) ==
    \A j, k \in 1 .. Len(x) : HasBlock(x[j]) /\ HasBlock(x[k]) /\ x[j] = x[k] => j = k
SameBlocks(x, y) == (\A h : BlockIn(y, h) <=> BlockIn(x, h)) /\ (BlocksOnce(x) => BlocksOnce(y))

LEMMA BlocksStay ==
    ASSUME NEW x \in Logs, NEW y \in Logs, SameWork(x, y)
    PROVE  SameBlocks(x, y)
<1>1. PICK f \in [1 .. Len(y) -> Nat] :
        /\ \A i \in 1 .. Len(y) : DOMAIN Batched(y, i) # {} \/ HasBlock(y[i]) =>
               f[i] \in 1 .. Len(x) /\ x[f[i]] = y[i] /\ Batched(x, f[i]) = Batched(y, i) /\ ~(y[i] \in Merges)
        /\ \A i, j \in 1 .. Len(y) : ~(y[i] \in Merges) /\ ~(y[j] \in Merges) => ((i < j) <=> (f[i] < f[j]))
        /\ \A k \in 1 .. Len(x) : DOMAIN Batched(x, k) # {} \/ HasBlock(x[k]) =>
               \E i \in 1 .. Len(y) : f[i] = k /\ y[i] = x[k] /\ Batched(y, i) = Batched(x, k) /\ ~(y[i] \in Merges)
  BY MapOf
<1>2. ASSUME NEW h PROVE BlockIn(y, h) <=> BlockIn(x, h)
  <2>1. ASSUME NEW i \in 1 .. Len(y), HasBlock(y[i]), y[i] = h PROVE BlockIn(x, h)
    <3>1. f[i] \in 1 .. Len(x) /\ x[f[i]] = y[i]
      BY <1>1, <2>1
    <3> QED
      BY <2>1, <3>1 DEF BlockIn
  <2>2. ASSUME NEW k \in 1 .. Len(x), HasBlock(x[k]), x[k] = h PROVE BlockIn(y, h)
    <3>1. PICK i \in 1 .. Len(y) : y[i] = x[k]
      BY <1>1, <2>2
    <3> QED
      BY <2>2, <3>1 DEF BlockIn
  <2> QED
    BY <2>1, <2>2 DEF BlockIn
<1>3. ASSUME BlocksOnce(x), NEW j \in 1 .. Len(y), NEW k \in 1 .. Len(y),
             HasBlock(y[j]), HasBlock(y[k]), y[j] = y[k]
      PROVE  j = k
  <2>1. /\ f[j] \in 1 .. Len(x) /\ x[f[j]] = y[j] /\ ~(y[j] \in Merges)
        /\ f[k] \in 1 .. Len(x) /\ x[f[k]] = y[k] /\ ~(y[k] \in Merges)
    BY <1>1, <1>3
  <2>2. f[j] = f[k]
    BY <1>3, <2>1 DEF BlocksOnce
  <2>3. j \in Nat /\ k \in Nat /\ f[j] \in Nat
    BY LogsOf
  <2>4. ~(j < k) /\ ~(k < j)
    BY <1>1, <2>1, <2>2, <2>3
  <2> QED
    BY <2>3, <2>4
<1> QED
  BY <1>2, <1>3 DEF SameBlocks, BlocksOnce

LEMMA BlocksLonger ==
    ASSUME NEW x \in Logs, NEW y \in Logs, NEW e, Longer(x, y, e)
    PROVE  /\ ~HasBlock(e) => SameBlocks(x, y)
           /\ HasBlock(e) =>
                 /\ \A h : BlockIn(y, h) <=> (BlockIn(x, h) \/ h = e)
                 /\ BlocksOnce(x) /\ ~BlockIn(x, e) => BlocksOnce(y)
<1>1. /\ y[Len(y)] = e /\ Len(y) \in 1 .. Len(y)
      /\ \A k \in 1 .. Len(x) : k \in 1 .. Len(y) /\ y[k] = x[k]
      /\ \A k \in 1 .. Len(y) : k \in 1 .. Len(x) \/ k = Len(y)
  BY LongerWork
<1>2. \A h : BlockIn(y, h) <=> (BlockIn(x, h) \/ (HasBlock(e) /\ h = e))
  BY <1>1 DEF BlockIn
<1>3. BlocksOnce(x) /\ ~(HasBlock(e) /\ BlockIn(x, e)) => BlocksOnce(y)
  BY <1>1 DEF BlocksOnce, BlockIn
<1> QED
  BY <1>2, <1>3 DEF SameBlocks

LEMMA BlocksCut ==
    ASSUME NEW t, NEW a, NEW x \in Logs, NEW b, NEW y \in Logs, Cut(t, a, x, b, y)
    PROVE  SameBlocks(x, y)
<1>1. CASE a[t] = <<>>
  BY <1>1 DEF Cut, SameBlocks
<1>2. CASE a[t] # <<>>
  <2>1. PICK e \in Works : Longer(x, y, e)
    BY <1>2 DEF Cut
  <2>2. ~HasBlock(e)
    BY DEF Works, HasBlock
  <2> QED
    BY <2>1, <2>2, BlocksLonger
<1> QED
  BY <1>1, <1>2

\* The found blocks of coin c in a step, but for the first answer to a block.
LEMMA BlocksMove ==
    ASSUME TypeOK, [Next]_vars, NEW c \in Coins,
           \A op \in submits, n \in inst.nodes : NodeAccepts(op, n) => ~(op.ok = 0 /\ op.coin = c)
    PROVE  SameBlocks(Log(c), Log(c)')
<1>1. Log(c) \in Logs /\ Log(c)' \in Logs
  BY ColumnType, LogsNext
<1>2. CASE Still(c)
  BY <1>1, <1>2, BlocksStay DEF Still
<1>3. CASE Flushed(c)
  BY <1>1, <1>3, BlocksCut DEF Flushed
<1>4. ASSUME Log(c)' = Log(c) PROVE SameBlocks(Log(c), Log(c)')
  BY <1>4 DEF SameBlocks
<1>5. CASE \/ Stop /\ Cleared(c)
           \/ \E t \in Threads, id \in Nat, v \in Versions, nonce \in Nonces, good \in BOOLEAN, blocks, pend \in SUBSET Coins :
                 Submit(t, id, v, nonce, good, blocks, pend) /\ Submitted(t, id, v, nonce, good, c)
  BY <1>4, <1>5 DEF Cleared, Submitted
<1> QED
  BY <1>2, <1>3, <1>5, OthersMove

\* The first answer to a block makes it a found one.
LEMMA BlockAdded ==
    ASSUME TypeOK, [Next]_vars, NEW op \in submits, NEW n, NodeAccepts(op, n), op.ok = 0
    PROVE  LET c == op.coin
           IN  /\ \A h : BlockIn(Log(c)', h) <=> (BlockIn(Log(c), h) \/ h = BlockOf(op))
               /\ BlocksOnce(Log(c)) /\ ~BlockIn(Log(c), BlockOf(op)) => BlocksOnce(Log(c)')
<1> DEFINE c == op.coin
           x == Log(c)
           y == Log(c)'
           e == BlockOf(op)
<1>1. c \in Coins /\ HasBlock(e)
  BY DEF TypeOK, Ops, BlockOf, HasBlock
<1>2. Found1(op, c)
  BY <1>1, AcceptedMoves
<1>3. PICK z \in Logs : Cut(op.thread, Column(c), x, Column(c)', z) /\ Longer(z, y, e)
  BY <1>2 DEF Found1
<1>4. x \in Logs /\ y \in Logs
  BY <1>1, ColumnType, LogsNext
<1>5. SameBlocks(x, z)
  BY <1>3, <1>4, BlocksCut
<1> HIDE DEF x, y, e
<1>6. /\ \A h : BlockIn(y, h) <=> (BlockIn(z, h) \/ h = e)
      /\ BlocksOnce(z) /\ ~BlockIn(z, e) => BlocksOnce(y)
  BY <1>1, <1>3, <1>4, BlocksLonger
<1>7. /\ \A h : BlockIn(y, h) <=> (BlockIn(x, h) \/ h = e)
      /\ BlocksOnce(x) /\ ~BlockIn(x, e) => BlocksOnce(y)
  BY <1>1, <1>5, <1>6 DEF SameBlocks
<1> QED
  BY <1>7 DEF x, y, e

\* Where found blocks come from.
LEMMA BlocksFrom ==
    ASSUME TypeOK, [Next]_vars, NEW c \in Coins, NEW e, BlockIn(Log(c)', e)
    PROVE  \/ BlockIn(Log(c), e)
           \/ \E op \in submits, n \in inst.nodes :
                 NodeAccepts(op, n) /\ op.ok = 0 /\ op.coin = c /\ e = BlockOf(op)
<1>1. CASE \A op \in submits, n \in inst.nodes : NodeAccepts(op, n) => ~(op.ok = 0 /\ op.coin = c)
  BY <1>1, BlocksMove DEF SameBlocks
<1>2. ASSUME NEW op \in submits, NEW n \in inst.nodes, NodeAccepts(op, n), op.ok = 0, op.coin = c
      PROVE  BlockIn(Log(c), e) \/ e = BlockOf(op)
  BY <1>2, BlockAdded
<1> QED
  BY <1>1, <1>2

\* Blocks of coins with real time targeting are sent again while they wait: a
\* backend with more than one node may take two of the answers for the first.
OneAnswer == \A i \in Instances : i.rtt = {} \/ \A m, n \in i.nodes : m = n

\* Without real time targeting a block is sent once, and found by its first answer.
SentOnce ==
    inst.rtt = {} =>
        /\ \A t \in Threads, c \in Coins : store[t].pending[c] = NoShare
        /\ \A op, o \in submits : op.coin = o.coin /\ op.at = o.at => op = o
        /\ \A op \in submits : \A e : BlockIn(Log(op.coin), e) /\ e.at = op.at => op.ok # 0

\* A found block is one that a node has.
NodesKnow == \A c \in Coins : \A e : BlockIn(Log(c), e) => \E n \in inst.nodes : <<c, e.block>> \in nodeHas[n]

\* Two reports of coin c are not about the same share, nor about the same block
\* of one node.
SameReport(e, f) == e.at = f.at \/ (OneNode /\ e.block = f.block)
AllBlocksOnce ==
    \A c \in Coins :
        /\ BlocksOnce(Log(c))
        /\ \A e, f : BlockIn(Log(c), e) /\ BlockIn(Log(c), f) /\ SameReport(e, f) => e = f

\* Without merged works, which no coin with real time targeting has, the block
\* that a share is has the hash of the share.
OwnBlocks ==
    inst.secondary = {} =>
        /\ \A op \in submits : op.block = op.hash
        /\ \A c \in Coins : \A e : BlockIn(Log(c), e) => e.block = e.hash

\* The shares of a coin have different numbers.
Numbered(c) ==
    /\ \A h : Seen(Column(c), Log(c), h) => h.at \in 1 .. shares
    /\ \A h, g : Seen(Column(c), Log(c), h) /\ Seen(Column(c), Log(c), g) /\ h.at = g.at => h = g
AllNumbered == \A c \in Coins : Numbered(c)

\* An instance without secondary coins has no merged works: a work is for one coin.
NotMerging(s) == s.inst.secondary = {} => \A p \in Coins : s.merged[p] = <<>>
NoneMerging == \A t \in Threads : NotMerging(store[t])

LEMMA CreateNotMerging ==
    ASSUME NEW s, StorageOK(s), NotMerging(s), s.inst.secondary = {}, NEW c \in Coins, NEW b \in Blocks
    PROVE  \A p \in Coins : CreateWork(s, c, b).merged[p] = <<>>
<1> DEFINE a == PushSingleWork(s, "primary", c, b)
           e == PushMergedWork(a, c)
<1>1. CreateWork(s, c, b) = IF c \in s.inst.primary THEN e ELSE s
  BY DEF CreateWork
<1>2. "primary" \in Singles /\ "merged" \in Seqs /\ "merged" # "primary"
  BY DEF Singles, Seqs
<1>3. SinglePushed(s, a, "primary", c, b)
  BY <1>2, PushSingleWorkDoes
<1> HIDE DEF a
<1>4. StorageOK(a) /\ a.inst = s.inst /\ a.primary[c] # <<>> /\ \A p \in Coins : a["merged"][p] = s["merged"][p]
  <2>1. StorageOK(a) /\ Len(a["primary"][c]) > 0 /\ a.inst = s.inst /\ OnlyIn(s, a, "primary", c)
    BY <1>3 DEF SinglePushed, Changed, Evolved
  <2> QED
    BY <1>2, <2>1 DEF OnlyIn
<1>5. CASE c \in s.inst.primary
  <2>1. MergedPushed(a, e, c)
    BY <1>4, <1>5, PushMergedWorkDoes
  <2> HIDE DEF e
  <2>2. Others(a, c) = {} /\ {} \notin Mergeable
    BY <1>4 DEF Others, Mergeable
  <2>3. e = a
    BY <2>1, <2>2 DEF MergedPushed
  <2> QED
    BY <1>1, <1>4, <1>5, <2>3 DEF NotMerging
<1>6. CASE c \notin s.inst.primary
  BY <1>1, <1>6 DEF NotMerging
<1> QED
  BY <1>5, <1>6

LEMMA NoneMergingNext ==
    ASSUME TypeOK, NoneMerging, [Next]_vars
    PROVE  NoneMerging'
<1>1. CASE UNCHANGED store
  BY <1>1 DEF NoneMerging
<1>2. ASSUME NEW t \in Threads, AcceptWork(t) PROVE NoneMerging'
  <2>1. PICK e : Loaded(t, e) /\ Stored(t, e)
    BY <1>2, AcceptWorkDoes
  <2>2. Sound(store[t]) /\ NotMerging(store[t])
    BY DEF TypeOK, StoreOK, NoneMerging
  <2>5. ASSUME NEW c \in Coins, NEW b \in Blocks, Created(store[t], e, c, b), e = CreateWork(store[t], c, b)
        PROVE  NotMerging(e)
    <3>1. e.inst = store[t].inst
      BY <2>5 DEF Created, Grown, Evolved
    <3> QED
      BY <2>2, <2>5, <3>1, CreateNotMerging DEF NotMerging, Sound
  <2>3. NotMerging(e)
    BY <2>1, <2>2, <2>5 DEF Loaded
  <2>4. NotMerging(store'[t])
    BY <2>1, <2>3 DEF Stored, Alike, NotMerging
  <2> QED
    BY <2>1, <2>4 DEF Stored, NoneMerging
<1>3. ASSUME NEW t \in Threads, NEW id, NEW v, NEW nonce, NEW good, NEW blocks, NEW pend,
             Submit(t, id, v, nonce, good, blocks, pend)
      PROVE  NoneMerging'
  <2>1. Noted(t, id, v, nonce, pend)
    BY <1>3, SubmitNotes
  <2> QED
    BY <2>1 DEF Noted, Alike, NotMerging, NoneMerging
<1>4. CASE Stop
  <2>1. \A c \in Coins : EmptyStorage(inst).merged[c] = <<>>
    BY DEF EmptyStorage
  <2> QED
    BY <1>4, <2>1 DEF Stop, NoneMerging, NotMerging
<1>5. \/ UNCHANGED store \/ Stop
      \/ \E t \in Threads : AcceptWork(t)
      \/ \E t \in Threads : \E id \in store[t].byId, v \in Versions, nonce \in Nonces, good \in BOOLEAN :
            \E blocks \in SUBSET Coins, pend \in SUBSET inst.rtt : Submit(t, id, v, nonce, good, blocks, pend)
  BY DEF Next, vars, work, NewBlockTemplate, BackendStep, OnUserWorkSummary,
     OnBlockFound, OnMergedBlockNotification, FlushWork, RttTimer, NodeAccepts, NodeFails
<1> QED
  BY <1>1, <1>2, <1>3, <1>4, <1>5

LEMMA Alone ==
    ASSUME TypeOK, NoneMerging, inst.secondary = {}, NEW t \in Threads, NEW id \in store[t].byId,
           NEW c \in store[t].work[id].live, NEW d \in store[t].work[id].live
    PROVE  c = d
<1> DEFINE s == store[t]
<1>1. StorageOK(s) /\ s.inst = inst /\ id \in DOMAIN s.work
  BY Live DEF TypeOK, StoreOK, Sound
<1>2. PICK q \in Seqs, k \in Coins : \E i \in 1 .. Len(s[q][k]) : s[q][k][i] = id
  BY <1>1 DEF StorageOK, HeldOnce
<1>3. q # "merged"
  <2>1. s.merged[k] = <<>>
    BY <1>1 DEF NoneMerging, NotMerging
  <2>2. Len(<<>>) = 0
    OBVIOUS
  <2> QED
    BY <1>2, <2>1, <2>2
<1>4. IsSingle(s, id, k)
  BY <1>1, <1>2, <1>3 DEF StorageOK, SinglesOK, Seqs
<1> QED
  BY <1>4 DEF IsSingle

LEMMA SameInstance ==
    ASSUME [Next]_vars
    PROVE  inst' = inst
<1>1. ASSUME \/ UNCHANGED vars \/ Stop
             \/ \E c \in Coins : BackendStep(c) \/ \E b \in Blocks : NewBlockTemplate(c, b)
      PROVE  inst' = inst
  BY <1>1 DEF vars, BackendStep, OnUserWorkSummary, OnBlockFound, OnMergedBlockNotification, NewBlockTemplate, Stop
<1>2. ASSUME NEW t \in Threads, NEW c \in Coins, FlushWork(t, c) \/ RttTimer(t, c) PROVE inst' = inst
  BY <1>2 DEF FlushWork, RttTimer
<1>3. ASSUME NEW t \in Threads, AcceptWork(t) PROVE inst' = inst
  BY <1>3 DEF AcceptWork
<1>4. ASSUME NEW t \in Threads, NEW id, NEW v, NEW nonce, NEW good, NEW blocks, NEW pend,
             Submit(t, id, v, nonce, good, blocks, pend)
      PROVE  inst' = inst
  BY <1>4 DEF Submit
<1>5. ASSUME NEW op, NEW n, NodeAccepts(op, n) \/ NodeFails(op, n) PROVE inst' = inst
  BY <1>5 DEF NodeAccepts, NodeFails
<1> QED
  BY <1>1, <1>2, <1>3, <1>4, <1>5 DEF Next

LEMMA NumberedNext ==
    ASSUME TypeOK, AllNumbered, [Next]_vars
    PROVE  AllNumbered'
<1> SUFFICES ASSUME NEW c \in Coins PROVE Numbered(c)'
  BY DEF AllNumbered
<1>1. shares \in Nat /\ shares' \in Nat /\ shares <= shares' /\ Numbered(c)
  BY SharesGrow DEF TypeOK, AllNumbered
<1>2. ASSUME \A h : Seen(Column(c)', Log(c)', h) => Seen(Column(c), Log(c), h)
      PROVE  Numbered(c)'
  <2>1. ASSUME NEW h, Seen(Column(c)', Log(c)', h) PROVE h.at \in 1 .. shares'
    <3>1. h.at \in 1 .. shares
      BY <1>1, <1>2, <2>1 DEF Numbered
    <3> QED
      BY <1>1, <3>1
  <2> QED
    BY <1>1, <1>2, <2>1 DEF Numbered
<1>3. CASE Still(c) \/ Flushed(c) \/ Cleared(c) \/ \E op \in submits : Found1(op, c)
  BY <1>2, <1>3, NothingNew
<1>4. ASSUME NEW t \in Threads, NEW id, NEW v \in Versions, NEW nonce \in Nonces, NEW good, NEW blocks, NEW pend,
             Submit(t, id, v, nonce, good, blocks, pend)
      PROVE  Numbered(c)'
  <2> DEFINE s == ShareFor(t, id, v, nonce, c)
  <2>1. /\ Submitted(t, id, v, nonce, good, c) /\ (c \in store[t].work[id].live => s \in Shares)
        /\ shares' = shares + 1 /\ Column(c) \in Columns /\ s.at = shares + 1
    BY <1>4, SubmitMoves, ColumnType DEF Submit, ShareFor
  <2>2. CASE IsNew(t, id, v, nonce, good) /\ c \in store[t].work[id].live
    <3>1. Added(t, Column(c), Column(c)', s) /\ Log(c)' = Log(c) /\ s \in Shares
      BY <2>1, <2>2 DEF Submitted
    <3> HIDE DEF s
    <3>2. \A h : InAcc(Column(c)', h) <=> (InAcc(Column(c), h) \/ h = s)
      BY <2>1, <3>1, AddedHere
    <3>3. \A h : Seen(Column(c)', Log(c)', h) => Seen(Column(c), Log(c), h) \/ h = s
      BY <3>1, <3>2 DEF Seen
    <3>4. ASSUME NEW h, Seen(Column(c), Log(c), h) PROVE h.at \in 1 .. shares' /\ h.at # s.at
      <4>1. h.at \in 1 .. shares
        BY <1>1, <3>4 DEF Numbered
      <4> QED
        BY <1>1, <2>1, <4>1
    <3>5. s.at \in 1 .. shares'
      BY <1>1, <2>1
    <3>6. \A h : Seen(Column(c)', Log(c)', h) => h.at \in 1 .. shares'
      BY <3>3, <3>4, <3>5
    <3>7. \A h, g : Seen(Column(c)', Log(c)', h) /\ Seen(Column(c)', Log(c)', g) /\ h.at = g.at => h = g
      BY <1>1, <3>3, <3>4 DEF Numbered
    <3> QED
      BY <3>6, <3>7 DEF Numbered
  <2>3. CASE ~(IsNew(t, id, v, nonce, good) /\ c \in store[t].work[id].live)
    BY <1>2, <2>1, <2>3 DEF Submitted
  <2> QED
    BY <2>2, <2>3
<1> QED
  BY <1>3, <1>4, OthersMove

\* What has the number of a share of coin c has its hash.
LEMMA HashByNumber ==
    ASSUME TypeOK, RoundsOK, OpsPromised, AllNumbered, NEW c \in Coins, NEW e, BlockIn(Log(c), e),
           NEW op \in submits, op.coin = c, op.at = e.at
    PROVE  op.hash = e.hash
<1>1. PICK h : Of(op, h) /\ Seen(Column(c), Log(c), h)
  <2>1. op.thread \in Threads /\ BehindOf(Column(c), Log(c), op.thread, op)
    BY DEF OpsPromised, Promised
  <2> QED
    BY <2>1 DEF BehindOf, Behind, Seen, InAcc
<1>2. PICK g : Of(e, g) /\ Seen(Column(c), Log(c), g)
  <2>1. PICK j \in 1 .. Len(Log(c)) : HasBlock(Log(c)[j]) /\ Log(c)[j] = e
    BY DEF BlockIn
  <2>2. PICK k \in 1 .. j - 1 : HasShareOf(Batched(Log(c), k), e)
    BY <2>1 DEF RoundsOK, RoundOK, RoundAt
  <2>3. Len(Log(c)) \in Nat
    BY ColumnType, LogsOf
  <2>4. k \in 1 .. Len(Log(c))
    BY <2>1, <2>3
  <2> QED
    BY <2>2, <2>4 DEF HasShareOf, Seen, InWork, Here
<1>3. h = g
  BY <1>1, <1>2 DEF AllNumbered, Numbered, Of
<1> QED
  BY <1>1, <1>2, <1>3 DEF Of

LEMMA OwnBlocksNext ==
    ASSUME TypeOK, NoneMerging, OwnBlocks, [Next]_vars
    PROVE  OwnBlocks'
<1> SUFFICES ASSUME inst.secondary = {}
             PROVE  /\ \A op \in submits' : op.block = op.hash
                    /\ \A c \in Coins : \A e : BlockIn(Log(c)', e) => e.block = e.hash
  BY SameInstance DEF OwnBlocks
<1>1. ASSUME NEW t \in Threads, NEW id, NEW c, NEW hash PROVE BlockHash(store[t], id, c, hash) = hash
  <2>1. \A p \in Coins : store[t].merged[p] = <<>>
    BY DEF NoneMerging, NotMerging, TypeOK, StoreOK
  <2>2. Range(<<>>) = {}
    BY DEF Range
  <2> QED
    BY <2>1, <2>2 DEF BlockHash
<1>2. ASSUME NEW op \in submits' PROVE op.block = op.hash
  <2>1. ASSUME NEW p \in submits, SameBlockAs(p, op) PROVE op.block = op.hash
    BY <2>1 DEF SameBlockAs, OwnBlocks
  <2>2. ASSUME NEW t \in Threads, NEW c, NEW share, NEW id, IsSubmission(op, t, c, share, id)
        PROVE  op.block = op.hash
    BY <1>1, <2>2 DEF IsSubmission
  <2> QED
    BY <2>1, <2>2, OpsFrom DEF FromPending, FromShare
<1>3. ASSUME NEW c \in Coins, NEW e, BlockIn(Log(c)', e) PROVE e.block = e.hash
  <2>1. CASE BlockIn(Log(c), e)
    BY <2>1 DEF OwnBlocks
  <2>2. ASSUME NEW op \in submits, e = BlockOf(op) PROVE e.block = e.hash
    BY <2>2 DEF OwnBlocks, BlockOf
  <2> QED
    BY <1>3, <2>1, <2>2, BlocksFrom
<1> QED
  BY <1>2, <1>3

\* A block that nobody has answered for yet is not a found one.
LEMMA FirstAnswer ==
    ASSUME OneAnswer \/ inst.rtt = {}, TypeOK, SentOnce, NodesKnow, RoundsOK, OpsPromised, AllNumbered, OwnBlocks,
           NEW op \in submits, NEW n, NodeAccepts(op, n), op.ok = 0, NEW e, BlockIn(Log(op.coin), e)
    PROVE  ~SameReport(e, BlockOf(op))
<1>1. op.coin \in Coins /\ op.waits \subseteq inst.nodes /\ n \in op.waits /\ <<op.coin, op.block>> \notin nodeHas[n]
  BY DEF TypeOK, Ops, NodeAccepts
<1>2. ASSUME OneNode PROVE e.block # op.block
  <2>1. \A m \in inst.nodes : m = n
    BY <1>1, <1>2 DEF OneNode
  <2> QED
    BY <1>1, <2>1 DEF NodesKnow
<1>3. ASSUME e.at = op.at PROVE FALSE
  <2>1. CASE inst.rtt = {}
    BY <1>3, <2>1 DEF SentOnce
  <2>2. CASE inst.rtt # {}
    <3>1. OneNode /\ inst.secondary = {}
      BY <2>2, StratumAssumptions DEF OneAnswer, OneNode, TypeOK
    <3>2. op.hash = e.hash
      BY <1>1, <1>3, HashByNumber
    <3>3. op.block = op.hash /\ e.block = e.hash
      BY <1>1, <3>1 DEF OwnBlocks
    <3> QED
      BY <1>2, <3>1, <3>2, <3>3
  <2> QED
    BY <2>1, <2>2
<1>4. BlockOf(op).at = op.at /\ BlockOf(op).block = op.block
  BY DEF BlockOf
<1> QED
  BY <1>2, <1>3, <1>4 DEF SameReport

LEMMA NodesKnowNext ==
    ASSUME TypeOK, NodesKnow, [Next]_vars
    PROVE  NodesKnow'
<1>1. inst' = inst
  BY SameInstance
<1>2. \A n \in inst.nodes : nodeHas[n] \subseteq nodeHas'[n]
  <2>1. ASSUME NEW op \in submits, NEW m \in inst.nodes, NodeAccepts(op, m)
        PROVE  \A n \in inst.nodes : nodeHas[n] \subseteq nodeHas'[n]
    BY <2>1 DEF NodeAccepts, TypeOK
  <2>2. ASSUME \A op \in submits, m \in inst.nodes : ~NodeAccepts(op, m)
        PROVE  nodeHas' = nodeHas
    <3>1. ASSUME \/ UNCHANGED vars \/ Stop
                 \/ \E c \in Coins : BackendStep(c) \/ \E b \in Blocks : NewBlockTemplate(c, b)
          PROVE  nodeHas' = nodeHas
      BY <3>1 DEF vars, BackendStep, OnUserWorkSummary, OnBlockFound, OnMergedBlockNotification, NewBlockTemplate, Stop
    <3>2. ASSUME NEW t \in Threads, NEW c \in Coins, FlushWork(t, c) \/ RttTimer(t, c) PROVE nodeHas' = nodeHas
      BY <3>2 DEF FlushWork, RttTimer
    <3>3. ASSUME NEW t \in Threads, AcceptWork(t) PROVE nodeHas' = nodeHas
      BY <3>3 DEF AcceptWork
    <3>4. ASSUME NEW t \in Threads, NEW id, NEW v, NEW nonce, NEW good, NEW blocks, NEW pend,
                 Submit(t, id, v, nonce, good, blocks, pend)
          PROVE  nodeHas' = nodeHas
      BY <3>4 DEF Submit
    <3>5. ASSUME NEW op, NEW n, NodeFails(op, n) PROVE nodeHas' = nodeHas
      BY <3>5 DEF NodeFails
    <3> QED
      BY <2>2, <3>1, <3>2, <3>3, <3>4, <3>5 DEF Next
  <2> QED
    BY <2>1, <2>2
<1>3. ASSUME NEW c \in Coins, NEW e, BlockIn(Log(c)', e)
      PROVE  \E n \in inst.nodes : <<c, e.block>> \in nodeHas'[n]
  <2>1. CASE BlockIn(Log(c), e)
    BY <1>2, <2>1 DEF NodesKnow
  <2>2. ASSUME NEW op \in submits, NEW n \in inst.nodes, NodeAccepts(op, n), op.coin = c, e = BlockOf(op)
        PROVE  <<c, e.block>> \in nodeHas'[n]
    BY <2>2 DEF NodeAccepts, TypeOK, BlockOf
  <2> QED
    BY <1>3, <2>1, <2>2, BlocksFrom
<1> QED
  BY <1>1, <1>3 DEF NodesKnow

LEMMA BlocksOnceNext ==
    ASSUME OneAnswer \/ inst.rtt = {}, TypeOK, SentOnce, NodesKnow, RoundsOK, OpsPromised, AllNumbered, OwnBlocks,
           AllBlocksOnce, [Next]_vars
    PROVE  AllBlocksOnce'
<1>0. inst' = inst /\ (OneNode' <=> OneNode)
  BY SameInstance DEF OneNode
<1> SUFFICES ASSUME NEW c \in Coins
             PROVE  /\ BlocksOnce(Log(c)')
                    /\ \A e, f : BlockIn(Log(c)', e) /\ BlockIn(Log(c)', f) /\ SameReport(e, f) => e = f
  BY <1>0 DEF AllBlocksOnce, SameReport
<1>1. /\ BlocksOnce(Log(c))
      /\ \A e, f : BlockIn(Log(c), e) /\ BlockIn(Log(c), f) /\ SameReport(e, f) => e = f
  BY DEF AllBlocksOnce
<1>2. ASSUME NEW op \in submits, NEW n \in inst.nodes, NodeAccepts(op, n), op.ok = 0, op.coin = c
      PROVE  /\ BlocksOnce(Log(c)')
             /\ \A e, f : BlockIn(Log(c)', e) /\ BlockIn(Log(c)', f) /\ SameReport(e, f) => e = f
  <2>1. \A e : BlockIn(Log(c), e) => ~SameReport(e, BlockOf(op)) /\ ~SameReport(BlockOf(op), e)
    BY <1>2, FirstAnswer DEF SameReport
  <2>2. ~BlockIn(Log(c), BlockOf(op))
    BY <2>1 DEF SameReport
  <2>3. /\ \A h : BlockIn(Log(c)', h) <=> (BlockIn(Log(c), h) \/ h = BlockOf(op))
        /\ BlocksOnce(Log(c)) /\ ~BlockIn(Log(c), BlockOf(op)) => BlocksOnce(Log(c)')
    BY <1>2, BlockAdded
  <2> QED
    BY <1>1, <2>1, <2>2, <2>3
<1>3. CASE \A op \in submits, n \in inst.nodes : NodeAccepts(op, n) => ~(op.ok = 0 /\ op.coin = c)
  BY <1>1, <1>3, BlocksMove DEF SameBlocks
<1> QED
  BY <1>2, <1>3

\* Nothing that was sent or found has the number of a new share.
LEMMA NewBlocks ==
    ASSUME TypeOK, RoundsOK, OpsPromised, NEW c \in Coins
    PROVE  /\ \A e : BlockIn(Log(c), e) => e.at # shares + 1
           /\ \A op \in submits : op.at # shares + 1
<1>1. ASSUME NEW e, BlockIn(Log(c), e) PROVE e.at # shares + 1
  <2>1. PICK j \in 1 .. Len(Log(c)) : HasBlock(Log(c)[j]) /\ Log(c)[j] = e
    BY <1>1 DEF BlockIn
  <2>2. e.at <= shares /\ shares \in Nat
    BY <2>1 DEF RoundsOK, RoundOK, RoundAt, TypeOK
  <2>3. e.at \in Nat
    BY <2>1, ColumnType, LogsOf, Kinds DEF Found
  <2> QED
    BY <2>2, <2>3
<1>2. ASSUME NEW op \in submits PROVE op.at # shares + 1
  <2>1. op.at <= shares /\ shares \in Nat /\ op.at \in Nat
    BY DEF OpsPromised, Promised, TypeOK, Ops
  <2> QED
    BY <2>1
<1> QED
  BY <1>1, <1>2

LEMMA SentOnceNext ==
    ASSUME TypeOK, RoundsOK, OpsPromised, SentOnce, [Next]_vars
    PROVE  SentOnce'
<1> SUFFICES ASSUME inst.rtt = {}
             PROVE  /\ \A t \in Threads, c \in Coins : store'[t].pending[c] = NoShare
                    /\ \A op, o \in submits' : op.coin = o.coin /\ op.at = o.at => op = o
                    /\ \A op \in submits' : \A e : BlockIn(Log(op.coin)', e) /\ e.at = op.at => op.ok # 0
  BY SameInstance DEF SentOnce
<1>1. /\ \A t \in Threads, c \in Coins : store[t].pending[c] = NoShare
      /\ \A op, o \in submits : op.coin = o.coin /\ op.at = o.at => op = o
      /\ \A op \in submits : \A e : BlockIn(Log(op.coin), e) /\ e.at = op.at => op.ok # 0
  BY DEF SentOnce
<1>2. \A t \in Threads, c \in Coins : store'[t].pending[c] = NoShare
  <2>1. ASSUME NEW t \in Threads, NEW c \in Coins, store'[t].pending[c] # NoShare PROVE FALSE
    <3>1. PICK id, v, nonce, good, blocks, pend : Submit(t, id, v, nonce, good, blocks, pend) /\ c \in pend
      BY <1>1, <2>1, PendingFrom
    <3> QED
      BY <3>1 DEF Submit
  <2> QED
    BY <2>1
<1>3. submits \subseteq Ops(inst) /\ \A op \in submits : op.coin \in Coins
  BY DEF TypeOK, Ops
<1>4. ASSUME \A op \in submits, n \in inst.nodes : NodeAccepts(op, n) => op.ok # 0
      PROVE  \A c \in Coins : \A h : BlockIn(Log(c)', h) <=> BlockIn(Log(c), h)
  BY <1>4, BlocksMove DEF SameBlocks
<1>5. ASSUME submits' = submits, \A op \in submits, n \in inst.nodes : ~NodeAccepts(op, n)
      PROVE  \A op \in submits' : \A e : BlockIn(Log(op.coin)', e) /\ e.at = op.at => op.ok # 0
  BY <1>1, <1>3, <1>4, <1>5
<1>6. ASSUME NEW op \in submits, NEW n \in inst.nodes, NEW k \in {0, 1}, submits' = Answered(op, n, k),
             NodeAccepts(op, n) \/ NodeFails(op, n), NodeAccepts(op, n) => k = 1,
             NodeFails(op, n) => \A c \in Coins : \A h : BlockIn(Log(c)', h) <=> BlockIn(Log(c), h)
      PROVE  /\ \A p, o \in submits' : p.coin = o.coin /\ p.at = o.at => p = o
             /\ \A p \in submits' : \A e : BlockIn(Log(p.coin)', e) /\ e.at = p.at => p.ok # 0
  <2> DEFINE rest == [op EXCEPT !.waits = @ \ {n}, !.ok = @ + k]
  <2>1. op \in Ops(inst)
    BY <1>3
  <2>2. /\ rest.coin = op.coin /\ rest.at = op.at /\ rest.ok = op.ok + k /\ op.ok \in Nat /\ op.coin \in Coins
    BY <2>1 DEF Ops
  <2>3. \A p \in submits' : (p \in submits /\ p # op) \/ p = rest
    BY <1>6 DEF Answered
  <2> HIDE DEF rest
  <2>4. \A p, o \in submits' : p.coin = o.coin /\ p.at = o.at => p = o
    BY <1>1, <2>2, <2>3
  <2>5. ASSUME NEW p \in submits, p # op, NEW e, BlockIn(Log(p.coin)', e), e.at = p.at PROVE p.ok # 0
    <3>1. p.coin \in Coins /\ ~(p.coin = op.coin /\ p.at = op.at)
      BY <1>1, <1>3, <2>5
    <3>2. CASE NodeFails(op, n)
      BY <1>1, <1>6, <2>5, <3>1, <3>2
    <3>3. CASE NodeAccepts(op, n)
      <4>1. CASE op.ok = 0 /\ op.coin = p.coin
        <5>1. BlockIn(Log(op.coin)', e) => BlockIn(Log(op.coin), e) \/ e = BlockOf(op)
          BY <3>3, <4>1, BlockAdded
        <5>2. BlockOf(op).at = op.at
          BY DEF BlockOf
        <5> QED
          BY <1>1, <2>5, <3>1, <4>1, <5>1, <5>2
      <4>2. CASE ~(op.ok = 0 /\ op.coin = p.coin)
        <5>1. Still(p.coin)
          BY <3>1, <3>3, <4>2, AcceptedMoves
        <5>2. SameBlocks(Log(p.coin), Log(p.coin)')
          BY <3>1, <5>1, ColumnType, LogsNext, BlocksStay DEF Still
        <5> QED
          BY <1>1, <2>5, <5>2 DEF SameBlocks
      <4> QED
        BY <4>1, <4>2
    <3> QED
      BY <1>6, <3>2, <3>3
  <2>6. ASSUME NEW e, BlockIn(Log(rest.coin)', e), e.at = rest.at PROVE rest.ok # 0
    <3>1. CASE k = 1
      BY <2>2, <3>1
    <3>2. CASE k = 0
      <4>1. NodeFails(op, n)
        BY <1>6, <3>2
      <4>2. BlockIn(Log(op.coin), e)
        BY <1>6, <2>2, <2>6, <4>1
      <4>3. op.ok # 0
        BY <1>1, <2>2, <2>6, <4>2
      <4>4. rest.ok = op.ok
        BY <2>2, <3>2
      <4> QED
        BY <4>3, <4>4
    <3> QED
      BY <3>1, <3>2
  <2> QED
    BY <2>3, <2>4, <2>5, <2>6
<1>7. ASSUME NEW op \in submits, NEW n \in inst.nodes, NodeAccepts(op, n) \/ NodeFails(op, n)
      PROVE  /\ \A p, o \in submits' : p.coin = o.coin /\ p.at = o.at => p = o
             /\ \A p \in submits' : \A e : BlockIn(Log(p.coin)', e) /\ e.at = p.at => p.ok # 0
  <2>1. CASE NodeAccepts(op, n)
    <3>1. submits' = Answered(op, n, 1) /\ ~NodeFails(op, n)
      <4>1. nodeHas' # nodeHas
        BY <1>3, <2>1 DEF NodeAccepts, TypeOK
      <4> QED
        BY <2>1, <4>1 DEF NodeAccepts, NodeFails
    <3> QED
      BY <1>6, <2>1, <3>1
  <2>2. CASE NodeFails(op, n)
    <3>1. submits' = Answered(op, n, 0) /\ UNCHANGED <<acc, queue, ledger, nodeHas>>
      BY <2>2 DEF NodeFails, backend
    <3>2. ~NodeAccepts(op, n)
      <4>1. NodeAccepts(op, n) => nodeHas' # nodeHas
        BY <1>3 DEF NodeAccepts, TypeOK
      <4> QED
        BY <3>1, <4>1
    <3>3. \A c \in Coins : Log(c)' = Log(c)
      BY <3>1 DEF Log
    <3>4. \A c \in Coins : \A h : BlockIn(Log(c)', h) <=> BlockIn(Log(c), h)
      BY <3>3
    <3> QED
      BY <1>6, <2>2, <3>1, <3>2, <3>4
  <2> QED
    BY <1>7, <2>1, <2>2
<1>8. ASSUME NEW t \in Threads, NEW id \in store[t].byId, NEW v \in Versions, NEW nonce \in Nonces, NEW good \in BOOLEAN,
             NEW blocks \in SUBSET Coins, NEW pend \in SUBSET inst.rtt, Submit(t, id, v, nonce, good, blocks, pend)
      PROVE  /\ \A p, o \in submits' : p.coin = o.coin /\ p.at = o.at => p = o
             /\ \A p \in submits' : \A e : BlockIn(Log(p.coin)', e) /\ e.at = p.at => p.ok # 0
  <2> DEFINE new(c) == Submission(t, c, id, TheShare(t, id, v, nonce), sends')
  <2>1. submits' = submits \cup {new(c) : c \in blocks}
    BY <1>8 DEF Submit, TheShare, HashOf
  <2>2. \A c \in blocks : new(c).coin = c /\ new(c).at = shares + 1
    BY DEF Submission, TheShare
  <2>3. \A c \in Coins : Log(c)' = Log(c)
    BY <1>8, SubmitMoves DEF Submitted
  <2>4. /\ \A c \in Coins : \A e : BlockIn(Log(c), e) => e.at # shares + 1
        /\ \A c \in Coins : \A op \in submits : op.at # shares + 1
    BY NewBlocks
  <2> HIDE DEF new
  <2>5. \A p \in submits' : p \in submits \/ \E c \in blocks : p = new(c) /\ p.coin = c /\ p.at = shares + 1
    BY <2>1, <2>2
  <2>6. \A p, o \in submits' : p.coin = o.coin /\ p.at = o.at => p = o
    BY <1>1, <1>3, <2>4, <2>5
  <2>7. ASSUME NEW p \in submits', NEW e, BlockIn(Log(p.coin)', e), e.at = p.at PROVE p.ok # 0
    <3>1. p \in submits \/ (p.coin \in blocks /\ p.at = shares + 1)
      BY <2>5
    <3>2. BlockIn(Log(p.coin), e) /\ p.coin \in Coins
      BY <1>3, <2>3, <2>7, <3>1
    <3> QED
      BY <1>1, <2>4, <2>7, <3>1, <3>2
  <2> QED
    BY <2>6, <2>7
<1>9. ASSUME NEW t \in Threads, NEW c \in Coins, RttTimer(t, c) PROVE FALSE
  BY <1>1, <1>9 DEF RttTimer
<1>10. CASE Stop
  BY <1>2, <1>10 DEF Stop
<1>11. CASE /\ submits' = submits
            /\ \A op \in submits, n \in inst.nodes : ~NodeAccepts(op, n)
  BY <1>1, <1>2, <1>5, <1>11
<1>12. \/ \E c \in Coins : BackendStep(c) \/ \E b \in Blocks : NewBlockTemplate(c, b)
       \/ \E t \in Threads, c \in Coins : FlushWork(t, c)
       \/ \E t \in Threads : AcceptWork(t)
       \/ UNCHANGED vars
       => submits' = submits
  BY DEF vars, BackendStep, OnUserWorkSummary, OnBlockFound, OnMergedBlockNotification,
     NewBlockTemplate, FlushWork, AcceptWork
<1> QED
  BY <1>2, <1>7, <1>8, <1>9, <1>10, <1>11, <1>12 DEF Next

LEMMA OneRoundInit ==
    ASSUME Init
    PROVE  SentOnce /\ NodesKnow /\ AllBlocksOnce /\ NoneMerging /\ OwnBlocks /\ AllNumbered
<1>1. \A c \in Coins : Log(c) = <<>>
  BY DEF Init, Log
<1>2. Len(<<>>) = 0
  OBVIOUS
<1>3. EmptyStorage(inst).pending = [c \in Coins |-> NoShare]
  BY DEF EmptyStorage
<1>4. SentOnce
  BY <1>3 DEF Init, SentOnce
<1>5. NoneMerging
  BY DEF Init, EmptyStorage, NoneMerging, NotMerging
<1>6. \A c \in Coins : \A e : ~BlockIn(Log(c), e)
  BY <1>1, <1>2 DEF BlockIn
<1>7. \A c \in Coins : BlocksOnce(Log(c))
  BY <1>1, <1>2 DEF BlocksOnce
<1>8. ASSUME NEW c \in Coins, NEW h PROVE ~Seen(Column(c), Log(c), h)
  <2>1. \A t \in Threads : Column(c)[t] = <<>>
    BY DEF Init, Column
  <2>2. DOMAIN <<>> = {}
    OBVIOUS
  <2> QED
    BY <1>1, <1>2, <2>1, <2>2 DEF Seen, InAcc, InWork, Here
<1>9. OwnBlocks
  BY <1>6 DEF Init, OwnBlocks
<1> QED
  BY <1>4, <1>5, <1>6, <1>7, <1>8, <1>9 DEF NodesKnow, AllBlocksOnce, AllNumbered, Numbered

\* A found block is reported once, whatever the bounds, if the coins with real
\* time targeting have one node: the second node that accepts a submission finds
\* it counted, and a node takes a block once, whichever submission it comes with
\* (CSubmitBlockOperation, submitBlock).
THEOREM OneRoundPerBlockHolds == ASSUME OneAnswer PROVE Spec => []OneRoundPerBlock
<1> DEFINE Inv == /\ RoundsOK /\ OpsPromised /\ PendingPromised
                  /\ SentOnce /\ NodesKnow /\ AllBlocksOnce /\ NoneMerging /\ OwnBlocks /\ AllNumbered
<1>1. Init => Inv
  BY RoundsInit, OneRoundInit
<1>2. TypeOK /\ Inv /\ [Next]_vars => Inv'
  BY RoundsNext, SentOnceNext, NodesKnowNext, BlocksOnceNext, NoneMergingNext, OwnBlocksNext, NumberedNext
<1>3. TypeOK /\ Inv => OneRoundPerBlock
  <2> SUFFICES ASSUME TypeOK, AllBlocksOnce, NEW c \in Coins, NEW j \in DOMAIN Log(c), NEW k \in DOMAIN Log(c),
                      HasBlock(Log(c)[j]), HasBlock(Log(c)[k]), SameReport(Log(c)[j], Log(c)[k])
               PROVE  j = k
    BY DEF OneRoundPerBlock, SameReport
  <2>1. DOMAIN Log(c) = 1 .. Len(Log(c))
    BY ColumnType, LogsOf
  <2>2. BlockIn(Log(c), Log(c)[j]) /\ BlockIn(Log(c), Log(c)[k])
    BY <2>1 DEF BlockIn
  <2>3. Log(c)[j] = Log(c)[k]
    BY <2>2 DEF AllBlocksOnce
  <2> QED
    BY <2>1, <2>3 DEF AllBlocksOnce, BlocksOnce
<1> HIDE DEF Inv
<1> QED
  BY <1>1, <1>2, <1>3, TypesHold, PTL DEF Spec

----------------------------------------------------------------------------
(* Merged blocks are linked.                                               *)

\* Share number n, with hash h, is a block of coin c that was sent to the nodes or
\* found, and counts for the coins o too; or it may become a block.
Item(c, n, h, o) ==
    \/ \E op \in submits : op.coin = c /\ op.at = n /\ op.hash = h /\ op.others = o
    \/ \E e : BlockIn(Log(c), e) /\ e.at = n /\ e.hash = h /\ e.others = o
Waiting(c, n) == \E t \in Threads : store[t].pending[c] # NoShare /\ store[t].pending[c].share.at = n
Used(c, n) == Waiting(c, n) \/ \E h, o : Item(c, n, h, o)

\* The share that a step submits.
Fresh(n) ==
    n = shares + 1 /\ \E t \in Threads, id \in Nat, v \in Versions, nonce \in Nonces, good \in BOOLEAN :
        \E blocks, pend \in SUBSET Coins : Submit(t, id, v, nonce, good, blocks, pend)

\* Where the blocks of a coin come from.
LEMMA ItemsFrom ==
    ASSUME TypeOK, [Next]_vars, NEW c \in Coins, NEW n, NEW h, NEW o, Item(c, n, h, o)'
    PROVE  Item(c, n, h, o) \/ Waiting(c, n) \/ Fresh(n)
<1>1. ASSUME NEW e, BlockIn(Log(c)', e), e.at = n, e.hash = h, e.others = o PROVE Item(c, n, h, o)
  <2>1. CASE BlockIn(Log(c), e)
    BY <1>1, <2>1 DEF Item
  <2>2. ASSUME NEW op \in submits, op.coin = c, e = BlockOf(op) PROVE Item(c, n, h, o)
    BY <1>1, <2>2 DEF Item, BlockOf
  <2> QED
    BY <1>1, <2>1, <2>2, BlocksFrom
<1>2. ASSUME NEW op \in submits', op.coin = c, op.at = n, op.hash = h, op.others = o
      PROVE  Item(c, n, h, o) \/ Waiting(c, n) \/ Fresh(n)
  <2>1. ASSUME NEW p \in submits, SameBlockAs(p, op) PROVE Item(c, n, h, o)
    BY <1>2, <2>1 DEF SameBlockAs, Item
  <2>2. CASE FromPending(op)
    BY <1>2, <2>2 DEF FromPending, IsSubmission, Waiting
  <2>3. ASSUME NEW t \in Threads, NEW id \in Nat, NEW v \in Versions, NEW nonce \in Nonces, NEW good \in BOOLEAN,
               NEW blocks \in SUBSET Coins, NEW pend \in SUBSET Coins, Submit(t, id, v, nonce, good, blocks, pend),
               FromShare(op, t, id, v, nonce, blocks)
        PROVE  Fresh(n)
    <3>1. n = shares + 1
      BY <1>2, <2>3 DEF FromShare, IsSubmission, TheShare
    <3> QED
      BY <2>3, <3>1 DEF Fresh
  <2> QED
    BY <2>1, <2>2, <2>3, OpsFrom
<1> QED
  BY <1>1, <1>2 DEF Item

LEMMA WaitingFrom ==
    ASSUME TypeOK, [Next]_vars, NEW c \in Coins, NEW n, Waiting(c, n)'
    PROVE  Waiting(c, n) \/ Fresh(n)
<1>1. PICK t \in Threads : store'[t].pending[c] # NoShare /\ store'[t].pending[c].share.at = n
  BY DEF Waiting
<1>2. CASE store[t].pending[c] # NoShare /\ store'[t].pending[c] = store[t].pending[c]
  BY <1>1, <1>2 DEF Waiting
<1>3. ASSUME NEW id \in Nat, NEW v \in Versions, NEW nonce \in Nonces, NEW good \in BOOLEAN,
             NEW blocks \in SUBSET Coins, NEW pend \in SUBSET Coins, Submit(t, id, v, nonce, good, blocks, pend),
             store'[t].pending[c] = [id |-> id, share |-> TheShare(t, id, v, nonce)]
      PROVE  Fresh(n)
  <2>1. n = shares + 1
    BY <1>1, <1>3 DEF TheShare
  <2> QED
    BY <1>3, <2>1 DEF Fresh
<1>4. \/ store[t].pending[c] # NoShare /\ store'[t].pending[c] = store[t].pending[c]
      \/ \E id \in Nat, v \in Versions, nonce \in Nonces, good \in BOOLEAN, blocks, pend \in SUBSET Coins :
            /\ Submit(t, id, v, nonce, good, blocks, pend) /\ c \in pend
            /\ store'[t].pending[c] = [id |-> id, share |-> TheShare(t, id, v, nonce)]
  BY <1>1, PendingFrom
<1> QED
  BY <1>2, <1>3, <1>4

LEMMA UsedFrom ==
    ASSUME TypeOK, [Next]_vars, NEW c \in Coins, NEW n, Used(c, n)'
    PROVE  Used(c, n) \/ Fresh(n)
<1>1. CASE Waiting(c, n)'
  BY <1>1, WaitingFrom DEF Used
<1>2. ASSUME NEW h, NEW o, Item(c, n, h, o)' PROVE Used(c, n) \/ Fresh(n)
  BY <1>2, ItemsFrom DEF Used
<1> QED
  BY <1>1, <1>2 DEF Used

\* What the submission of share number n makes of it.
MadeOf(t, id, v, nonce, blocks, pend, n) ==
    \A c \in Coins :
        /\ \A h, o : Item(c, n, h, o)' =>
               c \in blocks /\ h = HashOf(t, id, v, nonce) /\ o = store[t].work[id].live \ {c}
        /\ Waiting(c, n)' => c \in pend

\* The number of a new share is of no block yet: what the step makes of it is all.
LEMMA FreshIs ==
    ASSUME TypeOK, RoundsOK, OpsPromised, PendingPromised,
           NEW t \in Threads, NEW id \in Nat, NEW v \in Versions, NEW nonce \in Nonces, NEW good \in BOOLEAN,
           NEW blocks \in SUBSET Coins, NEW pend \in SUBSET Coins, Submit(t, id, v, nonce, good, blocks, pend),
           NEW n, n = shares + 1
    PROVE  MadeOf(t, id, v, nonce, blocks, pend, n)
<1> SUFFICES ASSUME NEW c \in Coins
             PROVE  /\ \A h, o : Item(c, n, h, o)' =>
                           c \in blocks /\ h = HashOf(t, id, v, nonce) /\ o = store[t].work[id].live \ {c}
                    /\ Waiting(c, n)' => c \in pend
  BY DEF MadeOf
<1> DEFINE new(d) == Submission(t, d, id, TheShare(t, id, v, nonce), sends')
<1>1. submits' = submits \cup {new(d) : d \in blocks}
  BY DEF Submit, TheShare, HashOf
<1>2. \A d \in blocks : /\ new(d).coin = d /\ new(d).hash = HashOf(t, id, v, nonce)
                        /\ new(d).others = store[t].work[id].live \ {d}
  BY DEF Submission, TheShare
<1>3. Log(c)' = Log(c)
  BY SubmitMoves DEF Submitted
<1>4. (\A e : BlockIn(Log(c), e) => e.at # n) /\ \A op \in submits : op.at # n
  BY NewBlocks
<1> HIDE DEF new
<1>5. ASSUME NEW h, NEW o, Item(c, n, h, o)'
      PROVE  c \in blocks /\ h = HashOf(t, id, v, nonce) /\ o = store[t].work[id].live \ {c}
  <2>1. \E op \in submits' : op.coin = c /\ op.at = n /\ op.hash = h /\ op.others = o
    BY <1>3, <1>4, <1>5 DEF Item
  <2> QED
    BY <1>1, <1>2, <1>4, <2>1
<1>6. ASSUME Waiting(c, n)' PROVE c \in pend
  <2>1. PICK u \in Threads : store'[u].pending[c] # NoShare /\ store'[u].pending[c].share.at = n
    BY <1>6 DEF Waiting
  <2>2. ASSUME store[u].pending[c] # NoShare, store'[u].pending[c] = store[u].pending[c] PROVE FALSE
    <3>1. store[u].pending[c].share.at <= shares /\ shares \in Nat
      BY <2>2 DEF PendingPromised, Promised, TypeOK
    <3> QED
      BY <2>1, <2>2, <3>1
  <2>3. id \in store[t].byId /\ pend \in SUBSET inst.rtt
    BY DEF Submit
  <2>4. Noted(t, id, v, nonce, pend)
    BY <2>3, SubmitNotes
  <2> QED
    BY <2>1, <2>2, <2>4 DEF Noted
<1> QED
  BY <1>5, <1>6

\* With real time targeting no share is a block of two coins; without it, the
\* blocks that a share is know of each other.
OneCoin == inst.rtt # {} => \A c, d \in Coins : \A n : Used(c, n) /\ Used(d, n) => c = d
OthersKnown ==
    inst.rtt = {} =>
        \A c, d \in Coins : \A n, h, g, o, p :
            c # d /\ Item(c, n, h, o) /\ Item(d, n, g, p) => d \in o /\ h = g

LEMMA OneCoinNext ==
    ASSUME TypeOK, RoundsOK, OpsPromised, PendingPromised, NoneMerging, OneCoin, [Next]_vars
    PROVE  OneCoin'
<1> SUFFICES ASSUME inst.rtt # {}, NEW c \in Coins, NEW d \in Coins, NEW n, Used(c, n)', Used(d, n)'
             PROVE  c = d
  BY SameInstance DEF OneCoin
<1>1. inst.secondary = {}
  BY StratumAssumptions DEF TypeOK
<1>2. CASE Used(c, n) /\ Used(d, n)
  BY <1>2 DEF OneCoin
<1>3. ASSUME NEW t \in Threads, NEW id \in Nat, NEW v \in Versions, NEW nonce \in Nonces, NEW good \in BOOLEAN,
             NEW blocks \in SUBSET Coins, NEW pend \in SUBSET Coins, Submit(t, id, v, nonce, good, blocks, pend),
             n = shares + 1
      PROVE  c = d
  <2>1. id \in store[t].byId /\ blocks \cup pend \subseteq store[t].work[id].live
    BY <1>3 DEF Submit
  <2>2. MadeOf(t, id, v, nonce, blocks, pend, n)
    BY <1>3, FreshIs
  <2>3. ASSUME NEW x \in Coins, Used(x, n)' PROVE x \in store[t].work[id].live
    <3>1. CASE Waiting(x, n)'
      BY <2>1, <2>2, <3>1 DEF MadeOf
    <3>2. ASSUME NEW h, NEW o, Item(x, n, h, o)' PROVE x \in store[t].work[id].live
      BY <2>1, <2>2, <3>2 DEF MadeOf
    <3> QED
      BY <2>3, <3>1, <3>2 DEF Used
  <2> QED
    BY <1>1, <2>1, <2>3, Alone
<1>4. Fresh(n) => c = d
  BY <1>3 DEF Fresh
<1> QED
  BY <1>2, <1>4, UsedFrom

LEMMA OthersKnownNext ==
    ASSUME TypeOK, RoundsOK, OpsPromised, PendingPromised, SentOnce, OthersKnown, [Next]_vars
    PROVE  OthersKnown'
<1> SUFFICES ASSUME inst.rtt = {}, NEW c \in Coins, NEW d \in Coins, NEW n, NEW h, NEW g, NEW o, NEW p, c # d,
                    Item(c, n, h, o)', Item(d, n, g, p)'
             PROVE  d \in o /\ h = g
  BY SameInstance DEF OthersKnown
<1>1. \A x \in Coins : ~Waiting(x, n)
  BY DEF SentOnce, Waiting
<1>2. CASE Item(c, n, h, o) /\ Item(d, n, g, p)
  BY <1>2 DEF OthersKnown
<1>3. ASSUME NEW t \in Threads, NEW id \in Nat, NEW v \in Versions, NEW nonce \in Nonces, NEW good \in BOOLEAN,
             NEW blocks \in SUBSET Coins, NEW pend \in SUBSET Coins, Submit(t, id, v, nonce, good, blocks, pend),
             n = shares + 1
      PROVE  d \in o /\ h = g
  <2>1. blocks \subseteq store[t].work[id].live
    BY <1>3 DEF Submit
  <2>2. MadeOf(t, id, v, nonce, blocks, pend, n)
    BY <1>3, FreshIs
  <2>3. h = HashOf(t, id, v, nonce) /\ o = store[t].work[id].live \ {c}
    BY <2>2 DEF MadeOf
  <2>4. d \in blocks /\ g = HashOf(t, id, v, nonce)
    BY <2>2 DEF MadeOf
  <2> QED
    BY <2>1, <2>3, <2>4
<1>4. Fresh(n) => d \in o /\ h = g
  BY <1>3 DEF Fresh
<1> QED
  BY <1>1, <1>2, <1>4, ItemsFrom

----------------------------------------------------------------------------
(* The coins of a block tell each other.                                   *)

\* Queue q has the task that tells of the block h of coin c.
Brings(q, c, h) == \E k \in 1 .. Len(q) : q[k].kind = "merged" /\ q[k].hash = h /\ q[k].from = c

\* Log x has a report of share h for block b; and report k is of h, or writes to
\* the row of another one that is.
Reported(x, h, b) == \E k \in 1 .. Len(x) : HasBlock(x[k]) /\ x[k].hash = h /\ x[k].block = b
Rewritten(x, h) ==
    \E j, k \in 1 .. Len(x) :
        /\ j # k /\ HasBlock(x[j]) /\ HasBlock(x[k]) /\ x[j].hash = h
        /\ x[k].hash = h \/ x[k].block = x[j].block

\* Coin d has been told that share h is a block of coin c, or will be; or the row
\* that would say so has been written again.
LinkedTo(l, note, c) == c \in note.pending \/ (note.hasBlock /\ c \in l[note.block])
Known(c, d, h) == LinkedTo(linked[d], Note(d, h), c) \/ Rewritten(ledger[d], h)
Told(c, d, h) == Brings(queue[d], c, h) \/ Known(c, d, h)

\* A note that has a block has one that was reported, and nothing waits for it.
NoteHasReport(x, l, h, note) ==
    /\ note.hasBlock => note.pending = {} /\ note.block \in DOMAIN l /\ Reported(x, h, note.block)
    /\ \A b : Reported(x, h, b) => note.hasBlock
LinkedOK == \A d \in Coins : \A h : NoteHasReport(ledger[d], linked[d], h, Note(d, h))

\* The found blocks of a coin have been told to the other coins.
AllTold ==
    inst.rtt = {} =>
        \A c, d \in Coins : \A e : BlockIn(ledger[c], e) /\ d \in e.others => Told(c, d, e.hash)

LEMMA BringsMore ==
    ASSUME NEW q \in Logs, NEW b \in Logs, NEW c, NEW h, Brings(q, c, h) \/ Brings(b, c, h)
    PROVE  Brings(q \o b, c, h)
<1>1. q \in Seq(Entries) /\ b \in Seq(Entries) /\ Len(q) \in Nat /\ Len(b) \in Nat
  BY DEF Logs
<1>2. /\ Len(q \o b) = Len(q) + Len(b)
      /\ \A i \in 1 .. Len(q) + Len(b) : (q \o b)[i] = IF i <= Len(q) THEN q[i] ELSE b[i - Len(q)]
  BY <1>1, ConcatProperties
<1> DEFINE z == q \o b
<1> HIDE DEF z
<1>3. ASSUME NEW k \in 1 .. Len(q) PROVE k \in 1 .. Len(z) /\ z[k] = q[k]
  BY <1>1, <1>2 DEF z
<1>4. ASSUME NEW k \in 1 .. Len(b) PROVE Len(q) + k \in 1 .. Len(z) /\ z[Len(q) + k] = b[k]
  <2>1. Len(q) + k \in 1 .. Len(q) + Len(b) /\ ~(Len(q) + k <= Len(q)) /\ (Len(q) + k) - Len(q) = k
    BY <1>1
  <2> QED
    BY <1>2, <2>1 DEF z
<1>5. Brings(z, c, h)
  BY <1>3, <1>4 DEF Brings
<1> QED
  BY <1>5 DEF z

LEMMA BringsLess ==
    ASSUME NEW q \in Logs, q # <<>>, NEW c, NEW h, Brings(q, c, h)
    PROVE  Brings(Tail(q), c, h) \/ (Head(q).kind = "merged" /\ Head(q).hash = h /\ Head(q).from = c)
<1>1. q \in Seq(Entries) /\ Len(q) \in Nat
  BY DEF Logs
<1>2. /\ Len(Tail(q)) = Len(q) - 1 /\ Head(q) = q[1]
      /\ \A i \in 1 .. Len(Tail(q)) : Tail(q)[i] = q[i + 1]
  BY <1>1, HeadTailProperties
<1>3. PICK k \in 1 .. Len(q) : q[k].kind = "merged" /\ q[k].hash = h /\ q[k].from = c
  BY DEF Brings
<1>4. CASE k = 1
  BY <1>2, <1>3, <1>4
<1>5. CASE k # 1
  <2>1. k - 1 \in 1 .. Len(Tail(q)) /\ (k - 1) + 1 = k
    BY <1>1, <1>2, <1>5
  <2>2. Tail(q)[k - 1] = q[k]
    BY <1>2, <2>1
  <2> QED
    BY <1>3, <2>1, <2>2 DEF Brings
<1> QED
  BY <1>4, <1>5

\* A flush loses no task.
LEMMA FlushBrings ==
    ASSUME TypeOK, NEW t \in Threads, NEW C, NEW then \in Logs, Flush(t, C, then), NEW d \in Coins,
           NEW c, NEW h, Brings(queue[d], c, h)
    PROVE  Brings(queue'[d], c, h)
<1>1. queue'[d] = IF d \in C THEN (queue[d] \o TakeBatch(t, d)) \o then ELSE queue[d]
  BY DEF Flush
<1>2. TakeBatch(t, d) \in Logs /\ queue[d] \in Logs
  <2>1. Batch(t, d) \in Works
    BY DEF Batch, Works, TypeOK
  <2>2. Batch(t, d) \in Entries
    BY <2>1 DEF Entries
  <2> QED
    BY <2>2 DEF TakeBatch, Logs, TypeOK
<1> DEFINE b == TakeBatch(t, d)
           q == queue[d]
<1> HIDE DEF b, q
<1>3. q \in Logs /\ b \in Logs /\ q \o b \in Logs /\ Brings(q \o b, c, h)
  <2>1. q \in Logs /\ b \in Logs
    BY <1>2 DEF q, b
  <2>2. q \o b \in Logs
    BY <2>1, ConcatProperties DEF Logs
  <2> QED
    BY <2>1, <2>2, BringsMore DEF q
<1>4. Brings((q \o b) \o then, c, h)
  BY <1>3, BringsMore
<1> QED
  BY <1>1, <1>4 DEF q, b

\* Only the backends' own steps take tasks, or change what the accounting has.
LEMMA BringsStay ==
    ASSUME TypeOK, [Next]_vars, \A c \in Coins : ~BackendStep(c)
    PROVE  /\ UNCHANGED <<ledger, notes, linked>>
           /\ \A d \in Coins : \A c, h : Brings(queue[d], c, h) => Brings(queue'[d], c, h)
<1> DEFINE Stays == /\ UNCHANGED <<ledger, notes, linked>>
                    /\ \A d \in Coins : \A c, h : Brings(queue[d], c, h) => Brings(queue'[d], c, h)
<1>0. <<>> \in Logs
  BY DEF Logs
<1>1. CASE UNCHANGED backend
  BY <1>1 DEF backend
<1>2. ASSUME NEW t \in Threads, NEW C, NEW then \in Logs, Flush(t, C, then), UNCHANGED <<ledger, notes, linked>>
      PROVE  Stays
  BY <1>2, FlushBrings
<1> HIDE DEF Stays
<1>3. ASSUME NEW t \in Threads, NEW c \in Coins, FlushWork(t, c) PROVE Stays
  BY <1>0, <1>2, <1>3 DEF FlushWork
<1>4. ASSUME NEW t \in Threads, AcceptWork(t) PROVE Stays \/ UNCHANGED backend
  <2>1. PICK e : NotSent(t, e) \/ \E w : Sent(t, e, w)
    BY <1>4, AcceptWorkDoes
  <2>3. UNCHANGED queue \/ Flush(t, StaleAccumulators(e), <<>>)
    BY <2>1 DEF NotSent, Sent
  <2>2. UNCHANGED <<ledger, notes, linked>>
    BY <1>4 DEF AcceptWork
  <2> QED
    BY <1>0, <1>2, <2>2, <2>3 DEF backend
<1>5. ASSUME NEW op \in submits, NEW n, NodeAccepts(op, n) PROVE Stays \/ UNCHANGED backend
  <2>1. op.thread \in Threads /\ BlockOf(op) \in Entries
    BY DEF TypeOK, Ops, BlockOf, Found, Entries
  <2>2. BlockFound(op) = <<BlockOf(op)>> /\ BlockFound(op) \in Logs
    BY <2>1 DEF BlockFound, BlockOf, Logs
  <2>3. CASE op.ok = 0
    BY <1>2, <1>5, <2>1, <2>2, <2>3 DEF NodeAccepts, BlockAccepted
  <2>4. CASE op.ok # 0
    BY <1>5, <2>4 DEF NodeAccepts, backend
  <2> QED
    BY <2>3, <2>4
<1>6. CASE \/ UNCHANGED vars \/ Stop
           \/ \E c \in Coins, b \in Blocks : NewBlockTemplate(c, b)
           \/ \E t \in Threads, c \in Coins : RttTimer(t, c)
           \/ \E op \in submits, n \in inst.nodes : NodeFails(op, n)
           \/ \E t \in Threads : \E id \in store[t].byId, v \in Versions, nonce \in Nonces, good \in BOOLEAN :
                 \E blocks \in SUBSET Coins, pend \in SUBSET inst.rtt : Submit(t, id, v, nonce, good, blocks, pend)
  <2>1. ASSUME NEW t \in Threads, NEW id, NEW v, NEW nonce, NEW good, NEW blocks, NEW pend,
               Submit(t, id, v, nonce, good, blocks, pend)
        PROVE  UNCHANGED backend
    BY <2>1 DEF Submit
  <2>2. ASSUME NEW c, NEW b, NewBlockTemplate(c, b) PROVE UNCHANGED backend
    BY <2>2 DEF NewBlockTemplate
  <2>3. ASSUME NEW t, NEW c, RttTimer(t, c) PROVE UNCHANGED backend
    BY <2>3 DEF RttTimer
  <2>4. ASSUME NEW op, NEW n, NodeFails(op, n) PROVE UNCHANGED backend
    BY <2>4 DEF NodeFails
  <2>5. ASSUME UNCHANGED vars \/ Stop PROVE UNCHANGED backend
    BY <2>5 DEF vars, Stop
  <2> QED
    BY <1>1, <1>6, <2>1, <2>2, <2>3, <2>4, <2>5
<1>7. Stays
  BY <1>1, <1>3, <1>4, <1>5, <1>6 DEF Next, Stays
<1> QED
  BY <1>7 DEF Stays

\* The note of share h of coin c after a step.
NextNote(c, h) ==
    IF h \in DOMAIN notes'[c] THEN notes'[c][h] ELSE [hasBlock |-> FALSE, block |-> NoBlock, pending |-> {}]

\* What linking does to the note of share h and the links of its block, and what
\* it leaves alone.
Links(c, h, row, note) ==
    /\ \A d \in Coins : d # c => notes'[d] = notes[d] /\ linked'[d] = linked[d]
    /\ \A g : g # h => NextNote(c, g) = Note(c, g)
    /\ NextNote(c, h).pending = {} /\ NextNote(c, h).hasBlock = note.hasBlock
    /\ NextNote(c, h).block = note.block
    /\ DOMAIN linked'[c] = DOMAIN linked[c] \cup {note.block}
    /\ linked'[c][note.block] = row \cup note.pending
    /\ \A g \in DOMAIN linked[c] : g # note.block => linked'[c][g] = linked[c][g]

LEMMA LinkMergedDoes ==
    ASSUME TypeOK, NEW c \in Coins, NEW h, NEW row, NEW note \in NoteType, LinkMerged(c, h, row, note)
    PROVE  Links(c, h, row, note)
<1> DEFINE z == [note EXCEPT !.pending = {}]
           b == note.block
           l == With(linked[c], b, row \cup note.pending)
           n == With(notes[c], h, z)
<1>1. /\ linked' = [linked EXCEPT ![c] = l] /\ notes' = [notes EXCEPT ![c] = n]
      /\ DOMAIN notes = Coins /\ DOMAIN linked = Coins
  BY DEF LinkMerged, TypeOK
<1>2. z.pending = {} /\ z.block = note.block /\ z.hasBlock = note.hasBlock
  BY DEF NoteType
<1> HIDE DEF z, b
<1>3. /\ DOMAIN n = DOMAIN notes[c] \cup {h} /\ n[h] = z
      /\ \A g \in DOMAIN notes[c] : g # h => n[g] = notes[c][g]
  BY DEF With
<1>4. /\ DOMAIN l = DOMAIN linked[c] \cup {b} /\ l[b] = row \cup note.pending
      /\ \A g \in DOMAIN linked[c] : g # b => l[g] = linked[c][g]
  BY DEF With
<1> HIDE DEF n, l
<1>5. notes'[c] = n /\ linked'[c] = l /\ \A d \in Coins : d # c => notes'[d] = notes[d] /\ linked'[d] = linked[d]
  BY <1>1
<1>6. NextNote(c, h) = z /\ \A g : g # h => NextNote(c, g) = Note(c, g)
  BY <1>3, <1>5 DEF Note, NextNote
<1> QED
  BY <1>2, <1>4, <1>5, <1>6 DEF Links, b

\* The backend of coin c does its first task.
GrownBy(d, c, e) ==
    /\ \A k \in 1 .. Len(ledger[d]) : k \in 1 .. Len(ledger'[d]) /\ ledger'[d][k] = ledger[d][k]
    /\ \A k \in 1 .. Len(ledger'[d]) : k \in 1 .. Len(ledger[d]) \/ (d = c /\ ledger'[d][k] = e)
    /\ d = c /\ e.kind = "block" =>
          \E k \in 1 .. Len(ledger'[d]) : ~(k \in 1 .. Len(ledger[d])) /\ ledger'[d][k] = e
Done(c, e) ==
    /\ queue[c] # <<>> /\ e = Head(queue[c]) /\ e \in Entries
    /\ \A d \in Coins : \A x, h :
          Brings(queue[d], x, h) =>
              Brings(queue'[d], x, h) \/ (d = c /\ e.kind = "merged" /\ e.hash = h /\ e.from = x)
    /\ \A d \in Coins : GrownBy(d, c, e)

LEMMA LedgerGrows ==
    ASSUME TypeOK, NEW c \in Coins, NEW e \in Entries, ledger' = [ledger EXCEPT ![c] = Append(@, e)],
           NEW d \in Coins
    PROVE  GrownBy(d, c, e)
<1> DEFINE x == ledger[c]
           y == Append(x, e)
<1>1. x \in Seq(Entries) /\ ledger'[c] = y /\ (d # c => ledger'[d] = ledger[d])
  BY DEF TypeOK
<1>2. y = x \o <<e>> /\ y \in Seq(Entries) /\ Longer(x, y, e)
  <2> HIDE DEF x
  <2> QED
    BY <1>1, OneMore
<1> HIDE DEF x, y
<1>3. /\ y[Len(y)] = e /\ Len(y) \in 1 .. Len(y) /\ ~(Len(y) \in 1 .. Len(x))
      /\ \A k \in 1 .. Len(x) : k \in 1 .. Len(y) /\ y[k] = x[k]
      /\ \A k \in 1 .. Len(y) : k \in 1 .. Len(x) \/ k = Len(y)
  BY <1>1, <1>2, LongerWork DEF Logs
<1>4. CASE d = c
  <2>1. ledger'[d] = y /\ ledger[d] = x
    BY <1>1, <1>4 DEF x
  <2> QED
    BY <1>3, <1>4, <2>1 DEF GrownBy
<1>5. CASE d # c
  BY <1>1, <1>5 DEF GrownBy
<1> QED
  BY <1>4, <1>5

LEMMA WorkSummaryDone ==
    ASSUME TypeOK, NEW c \in Coins, OnUserWorkSummary(c)
    PROVE  Done(c, Head(queue[c])) /\ Head(queue[c]).kind = "work" /\ UNCHANGED <<notes, linked>>
<1> DEFINE e == Head(queue[c])
<1>1. /\ queue[c] # <<>> /\ e.kind = "work" /\ ledger' = [ledger EXCEPT ![c] = Append(@, e)]
      /\ queue' = [queue EXCEPT ![c] = Tail(queue[c])] /\ UNCHANGED <<notes, linked>>
  BY DEF OnUserWorkSummary
<1>2. e \in Entries /\ queue[c] \in Logs /\ DOMAIN queue = Coins
  BY <1>1, Heads DEF TypeOK, Logs
<1>3. ASSUME NEW d \in Coins, NEW x, NEW h, Brings(queue[d], x, h) PROVE Brings(queue'[d], x, h)
  <2>1. CASE d = c
    BY <1>1, <1>2, <1>3, <2>1, BringsLess
  <2>2. CASE d # c
    BY <1>1, <1>3, <2>2
  <2> QED
    BY <2>1, <2>2
<1> HIDE DEF e
<1>4. \A d \in Coins : GrownBy(d, c, e)
  BY <1>1, <1>2, LedgerGrows
<1>5. Done(c, e)
  BY <1>1, <1>2, <1>3, <1>4 DEF Done, e
<1> QED
  BY <1>1, <1>5 DEF e

LEMMA BlockFoundDone ==
    ASSUME TypeOK, NEW c \in Coins, OnBlockFound(c)
    PROVE  LET e == Head(queue[c])
           IN  /\ Done(c, e) /\ e.kind = "block"
               /\ \A d \in Coins : d \in e.others => Brings(queue'[d], c, e.hash)
               /\ \E note \in NoteType : /\ note.hasBlock /\ note.block = e.block
                                         /\ note.pending = Note(c, e.hash).pending
                                         /\ Links(c, e.hash, {}, note)
<1> DEFINE e == Head(queue[c])
           note == [Note(c, e.hash) EXCEPT !.hasBlock = TRUE, !.block = e.block]
           m == [kind |-> "merged", hash |-> e.hash, from |-> c]
           rest(d) == IF d = c THEN Tail(queue[d]) ELSE queue[d]
           told(d) == IF d \in e.others THEN <<m>> ELSE <<>>
<1>1. /\ queue[c] # <<>> /\ e.kind = "block" /\ ledger' = [ledger EXCEPT ![c] = Append(@, e)]
      /\ LinkMerged(c, e.hash, {}, note)
      /\ queue' = [d \in Coins |-> rest(d) \o told(d)]
  BY DEF OnBlockFound
<1>2. e \in Entries /\ queue[c] \in Logs /\ Tail(queue[c]) \in Logs /\ \A d \in Coins : queue[d] \in Logs
  BY <1>1, Heads DEF TypeOK, Logs
<1>3. /\ note \in NoteType /\ note.hasBlock /\ note.block = e.block
      /\ note.pending = Note(c, e.hash).pending
  <2> DEFINE b == e.block
             o == Note(c, e.hash)
             z == [o EXCEPT !.hasBlock = TRUE, !.block = b]
  <2>1. o \in NoteType
    BY NoteTypes
  <2>2. b \in BlockIds
    <3> HIDE DEF e
    <3>1. e \in Found
      BY <1>1, <1>2, Entry
    <3> QED
      BY <3>1 DEF Found
  <2> HIDE DEF b, o
  <2>3. z \in NoteType /\ z.hasBlock /\ z.block = b /\ z.pending = o.pending
    BY <2>1, <2>2 DEF NoteType
  <2> QED
    BY <2>3 DEF b, o
<1>4. m \in Entries /\ m.kind = "merged" /\ m.hash = e.hash /\ m.from = c
  <2> HIDE DEF e
  <2>1. e \in Found
    BY <1>1, <1>2, Entry
  <2> QED
    BY <2>1 DEF Found, Merges, Entries
<1>5. \A d \in Coins : rest(d) \in Logs /\ told(d) \in Logs
  <2> HIDE DEF m, e
  <2> QED
    BY <1>2, <1>4 DEF Logs
<1>6. ASSUME NEW d \in Coins, NEW x, NEW h, Brings(queue[d], x, h) PROVE Brings(queue'[d], x, h)
  <2>1. Brings(rest(d), x, h)
    BY <1>1, <1>2, <1>6, BringsLess
  <2> HIDE DEF rest, told
  <2> QED
    BY <1>1, <1>5, <2>1, BringsMore
<1>7. ASSUME NEW d \in Coins, d \in e.others PROVE Brings(queue'[d], c, e.hash)
  <2> HIDE DEF m, e
  <2>1. told(d) = <<m>> /\ Len(<<m>>) = 1 /\ <<m>>[1] = m
    BY <1>7
  <2>2. Brings(told(d), c, e.hash)
    BY <1>4, <2>1 DEF Brings
  <2> HIDE DEF rest, told
  <2> QED
    BY <1>1, <1>5, <2>2, BringsMore
<1> HIDE DEF e, note
<1>8. \A d \in Coins : GrownBy(d, c, e)
  BY <1>1, <1>2, LedgerGrows
<1>9. Done(c, e)
  BY <1>1, <1>2, <1>6, <1>8 DEF Done, e
<1>10. Links(c, e.hash, {}, note)
  BY <1>1, <1>3, LinkMergedDoes
<1> QED
  BY <1>1, <1>3, <1>7, <1>9, <1>10 DEF e

\* A block that is there takes the link; one that is not yet finds it in its note.
Noticed(c, e) ==
    \/ \E note \in NoteType :
          /\ note.hasBlock /\ Note(c, e.hash).hasBlock /\ note.block = Note(c, e.hash).block
          /\ note.pending = Note(c, e.hash).pending \cup {e.from}
          /\ note.block \in DOMAIN linked[c] /\ Links(c, e.hash, linked[c][note.block], note)
    \/ /\ ~Note(c, e.hash).hasBlock /\ linked' = linked
       /\ \A d \in Coins : d # c => notes'[d] = notes[d]
       /\ \A g : g # e.hash => NextNote(c, g) = Note(c, g)
       /\ NextNote(c, e.hash) = [Note(c, e.hash) EXCEPT !.pending = @ \cup {e.from}]

LEMMA MergedNotificationDone ==
    ASSUME TypeOK, NEW c \in Coins, OnMergedBlockNotification(c)
    PROVE  Done(c, Head(queue[c])) /\ Head(queue[c]).kind = "merged" /\ Noticed(c, Head(queue[c]))
<1> DEFINE e == Head(queue[c])
           note == [Note(c, e.hash) EXCEPT !.pending = @ \cup {e.from}]
<1>1. /\ queue[c] # <<>> /\ e.kind = "merged" /\ ledger' = ledger
      /\ queue' = [queue EXCEPT ![c] = Tail(queue[c])]
      /\ IF note.hasBlock THEN LinkMerged(c, e.hash, linked[c][note.block], note)
         ELSE notes' = [notes EXCEPT ![c] = With(@, e.hash, note)] /\ UNCHANGED linked
  BY DEF OnMergedBlockNotification
<1>2. e \in Entries /\ queue[c] \in Logs /\ DOMAIN queue = Coins /\ DOMAIN notes = Coins
  BY <1>1, Heads DEF TypeOK, Logs
<1>3. ASSUME NEW d \in Coins, NEW x, NEW h, Brings(queue[d], x, h)
      PROVE  Brings(queue'[d], x, h) \/ (d = c /\ e.kind = "merged" /\ e.hash = h /\ e.from = x)
  <2>1. CASE d = c
    BY <1>1, <1>2, <1>3, <2>1, BringsLess
  <2>2. CASE d # c
    BY <1>1, <1>3, <2>2
  <2> QED
    BY <2>1, <2>2
<1> HIDE DEF e
<1>4. Done(c, e)
  <2>1. \A d \in Coins : GrownBy(d, c, e)
    BY <1>1 DEF GrownBy
  <2> QED
    BY <1>1, <1>2, <1>3, <2>1 DEF Done, e
<1>5. e.from \in Coins
  <2>1. e \in Merges
    BY <1>1, <1>2, Entry
  <2> QED
    BY <2>1 DEF Merges
<1>6. /\ note \in NoteType /\ note.hasBlock = Note(c, e.hash).hasBlock
      /\ note.block = Note(c, e.hash).block
      /\ note.pending = Note(c, e.hash).pending \cup {e.from}
      /\ Note(c, e.hash).hasBlock => note.block \in DOMAIN linked[c]
  BY <1>5, NoteTypes DEF NoteType
<1>7. CASE note.hasBlock
  <2> HIDE DEF note
  <2>1. Links(c, e.hash, linked[c][note.block], note)
    BY <1>1, <1>6, <1>7, LinkMergedDoes
  <2>2. Noticed(c, e)
    BY <1>6, <1>7, <2>1 DEF Noticed
  <2> QED
    BY <1>1, <1>4, <2>2 DEF e
<1>8. CASE ~note.hasBlock
  <2>1. notes' = [notes EXCEPT ![c] = With(notes[c], e.hash, note)] /\ linked' = linked
    BY <1>1, <1>8
  <2> HIDE DEF note
  <2>2. NextNote(c, e.hash) = note /\ \A g : g # e.hash => NextNote(c, g) = Note(c, g)
    BY <1>2, <2>1 DEF Note, NextNote, With
  <2>3. Noticed(c, e)
    BY <1>2, <1>6, <1>8, <2>1, <2>2 DEF Noticed, note
  <2> QED
    BY <1>1, <1>4, <2>3 DEF e
<1> QED
  BY <1>7, <1>8

\* The three steps of a backend: its first task e and what comes of it.
WorkDone(c, e) == Done(c, e) /\ e.kind = "work" /\ UNCHANGED <<notes, linked>>
BlockDone(c, e) ==
    /\ Done(c, e) /\ e.kind = "block"
    /\ \A d \in Coins : d \in e.others => Brings(queue'[d], c, e.hash)
    /\ \E note \in NoteType : /\ note.hasBlock /\ note.block = e.block
                              /\ note.pending = Note(c, e.hash).pending /\ Links(c, e.hash, {}, note)
NoticeDone(c, e) == Done(c, e) /\ e.kind = "merged" /\ Noticed(c, e)

LEMMA BackendDone ==
    ASSUME TypeOK, NEW c \in Coins, BackendStep(c)
    PROVE  \E e \in Entries : WorkDone(c, e) \/ BlockDone(c, e) \/ NoticeDone(c, e)
<1>1. ASSUME OnUserWorkSummary(c) PROVE WorkDone(c, Head(queue[c]))
  BY <1>1, WorkSummaryDone DEF WorkDone
<1>2. ASSUME OnBlockFound(c) PROVE BlockDone(c, Head(queue[c]))
  BY <1>2, BlockFoundDone DEF BlockDone
<1>3. ASSUME OnMergedBlockNotification(c) PROVE NoticeDone(c, Head(queue[c]))
  BY <1>3, MergedNotificationDone DEF NoticeDone
<1>4. WorkDone(c, Head(queue[c])) \/ BlockDone(c, Head(queue[c])) \/ NoticeDone(c, Head(queue[c]))
  BY <1>1, <1>2, <1>3 DEF BackendStep
<1>5. queue[c] # <<>>
  BY DEF BackendStep, OnUserWorkSummary, OnBlockFound, OnMergedBlockNotification
<1> QED
  BY <1>4, <1>5, Heads

LEMMA ReportsNext ==
    ASSUME NEW c \in Coins, NEW e, Done(c, e), NEW d \in Coins, NEW h, NEW b
    PROVE  /\ Reported(ledger[d], h, b) => Reported(ledger'[d], h, b)
           /\ Reported(ledger'[d], h, b) =>
                 Reported(ledger[d], h, b) \/ (d = c /\ e.kind = "block" /\ e.hash = h)
           /\ d = c /\ e.kind = "block" => Reported(ledger'[d], e.hash, e.block)
           /\ Rewritten(ledger[d], h) => Rewritten(ledger'[d], h)
           /\ d = c /\ e.kind = "block" /\ Reported(ledger[d], h, b) /\ (h = e.hash \/ b = e.block) =>
                 Rewritten(ledger'[d], h)
<1>1. GrownBy(d, c, e)
  BY DEF Done
<1> DEFINE x == ledger[d]
           y == ledger'[d]
<1>2. /\ \A k \in 1 .. Len(x) : k \in 1 .. Len(y) /\ y[k] = x[k]
      /\ \A k \in 1 .. Len(y) : k \in 1 .. Len(x) \/ (d = c /\ y[k] = e)
      /\ d = c /\ e.kind = "block" => \E k \in 1 .. Len(y) : ~(k \in 1 .. Len(x)) /\ y[k] = e
  BY <1>1 DEF GrownBy
<1> HIDE DEF x, y
<1>3. (Reported(x, h, b) => Reported(y, h, b)) /\ (Rewritten(x, h) => Rewritten(y, h))
  BY <1>2 DEF Reported, Rewritten
<1>4. Reported(y, h, b) => Reported(x, h, b) \/ (d = c /\ e.kind = "block" /\ e.hash = h)
  BY <1>2 DEF Reported, HasBlock
<1>5. d = c /\ e.kind = "block" => Reported(y, e.hash, e.block)
  BY <1>2 DEF Reported, HasBlock
<1>6. ASSUME d = c, e.kind = "block", Reported(x, h, b), h = e.hash \/ b = e.block PROVE Rewritten(y, h)
  <2>1. PICK k \in 1 .. Len(y) : ~(k \in 1 .. Len(x)) /\ y[k] = e
    BY <1>2, <1>6
  <2>2. PICK j \in 1 .. Len(x) : HasBlock(x[j]) /\ x[j].hash = h /\ x[j].block = b
    BY <1>6 DEF Reported
  <2>3. j \in 1 .. Len(y) /\ y[j] = x[j] /\ j # k /\ HasBlock(y[k])
    BY <1>2, <1>6, <2>1, <2>2 DEF HasBlock
  <2> QED
    BY <1>6, <2>1, <2>2, <2>3 DEF Rewritten
<1> QED
  BY <1>3, <1>4, <1>5, <1>6 DEF x, y

LEMMA LinkedOKNext ==
    ASSUME TypeOK, LinkedOK, [Next]_vars
    PROVE  LinkedOK'
<1>1. CASE \A c \in Coins : ~BackendStep(c)
  <2>1. UNCHANGED <<ledger, notes, linked>>
    BY <1>1, BringsStay
  <2> QED
    BY <2>1 DEF LinkedOK, NoteHasReport, Note
<1>2. ASSUME NEW c \in Coins, BackendStep(c) PROVE LinkedOK'
  <2>1. PICK e \in Entries : WorkDone(c, e) \/ BlockDone(c, e) \/ NoticeDone(c, e)
    BY <1>2, BackendDone
  <2>2. Done(c, e)
    BY <2>1 DEF WorkDone, BlockDone, NoticeDone
  <2> SUFFICES ASSUME NEW d \in Coins, NEW h PROVE NoteHasReport(ledger'[d], linked'[d], h, NextNote(d, h))
    BY DEF LinkedOK, NoteHasReport, Note, NextNote
  <2>3. NoteHasReport(ledger[d], linked[d], h, Note(d, h)) /\ Note(d, h) \in NoteType
    BY NoteTypes DEF LinkedOK
  <2>4. ASSUME NextNote(d, h) = Note(d, h), DOMAIN linked[d] \subseteq DOMAIN linked'[d],
               ~(d = c /\ e.kind = "block" /\ e.hash = h)
        PROVE  NoteHasReport(ledger'[d], linked'[d], h, NextNote(d, h))
    <3>1. \A b : Reported(ledger'[d], h, b) <=> Reported(ledger[d], h, b)
      BY <2>2, <2>4, ReportsNext
    <3> QED
      BY <2>3, <2>4, <3>1 DEF NoteHasReport
  <2>5. ASSUME notes'[d] = notes[d], linked'[d] = linked[d], ~(d = c /\ e.kind = "block")
        PROVE  NoteHasReport(ledger'[d], linked'[d], h, NextNote(d, h))
    <3>1. NextNote(d, h) = Note(d, h)
      BY <2>5 DEF Note, NextNote
    <3> QED
      BY <2>4, <2>5, <3>1
  <2>6. CASE WorkDone(c, e)
    BY <2>5, <2>6 DEF WorkDone
  <2>7. ASSUME NEW row, NEW note, Links(c, e.hash, row, note), ~(d = c /\ h = e.hash)
        PROVE  NoteHasReport(ledger'[d], linked'[d], h, NextNote(d, h))
    <3>1. CASE d # c
      BY <2>5, <2>7, <3>1 DEF Links
    <3>2. CASE d = c /\ h # e.hash
      BY <2>4, <2>7, <3>2 DEF Links
    <3> QED
      BY <2>7, <3>1, <3>2
  <2>8. ASSUME NEW row, NEW note, Links(c, e.hash, row, note), d = c, h = e.hash, note.hasBlock,
               Reported(ledger'[d], h, note.block)
        PROVE  NoteHasReport(ledger'[d], linked'[d], h, NextNote(d, h))
    BY <2>8 DEF Links, NoteHasReport
  <2>9. CASE BlockDone(c, e)
    <3>1. PICK note \in NoteType : note.hasBlock /\ note.block = e.block /\ Links(c, e.hash, {}, note)
      BY <2>9 DEF BlockDone
    <3>2. Reported(ledger'[c], e.hash, e.block)
      BY <2>2, <2>9, ReportsNext DEF BlockDone
    <3> QED
      BY <2>7, <2>8, <3>1, <3>2
  <2>10. CASE NoticeDone(c, e)
    <3>1. ASSUME NEW note \in NoteType, note.hasBlock, Note(c, e.hash).hasBlock, note.block = Note(c, e.hash).block,
                 Links(c, e.hash, linked[c][note.block], note)
          PROVE  NoteHasReport(ledger'[d], linked'[d], h, NextNote(d, h))
      <4>1. CASE d = c /\ h = e.hash
        <5>1. Reported(ledger[d], h, note.block)
          BY <2>3, <3>1, <4>1 DEF NoteHasReport
        <5>2. Reported(ledger'[d], h, note.block)
          BY <2>2, <5>1, ReportsNext
        <5> QED
          BY <2>8, <3>1, <4>1, <5>2
      <4> QED
        BY <2>7, <3>1, <4>1
    <3>2. ASSUME ~Note(c, e.hash).hasBlock, linked' = linked, \A y \in Coins : y # c => notes'[y] = notes[y],
                 \A g : g # e.hash => NextNote(c, g) = Note(c, g),
                 NextNote(c, e.hash) = [Note(c, e.hash) EXCEPT !.pending = @ \cup {e.from}]
          PROVE  NoteHasReport(ledger'[d], linked'[d], h, NextNote(d, h))
      <4>1. CASE d # c
        BY <2>5, <3>2, <4>1
      <4>2. CASE d = c /\ h # e.hash
        BY <2>4, <3>2, <4>2
      <4>3. CASE d = c /\ h = e.hash
        <5>1. ~NextNote(d, h).hasBlock
          BY <2>3, <3>2, <4>3 DEF NoteType
        <5>2. \A b : ~Reported(ledger[d], h, b)
          BY <2>3, <3>2, <4>3 DEF NoteHasReport
        <5>3. \A b : ~Reported(ledger'[d], h, b)
          BY <2>2, <2>10, <5>2, ReportsNext DEF NoticeDone
        <5> QED
          BY <5>1, <5>3 DEF NoteHasReport
      <4> QED
        BY <4>1, <4>2, <4>3
    <3> QED
      BY <2>10, <3>1, <3>2 DEF NoticeDone, Noticed
  <2> QED
    BY <2>1, <2>6, <2>9, <2>10
<1> QED
  BY <1>1, <1>2

\* Who has been told stays so, or the row has been written again.
KnownNext(c, d, h) == LinkedTo(linked'[d], NextNote(d, h), c) \/ Rewritten(ledger'[d], h)

LEMMA KnownStays ==
    ASSUME TypeOK, LinkedOK, NEW c \in Coins, NEW e \in Entries,
           WorkDone(c, e) \/ BlockDone(c, e) \/ NoticeDone(c, e),
           NEW x \in Coins, NEW d \in Coins, NEW h, Known(x, d, h)
    PROVE  KnownNext(x, d, h)
<1> DEFINE o == Note(d, h)
           l == linked[d]
<1>1. Done(c, e)
  BY DEF WorkDone, BlockDone, NoticeDone
<1>2. CASE Rewritten(ledger[d], h)
  BY <1>1, <1>2, ReportsNext DEF KnownNext
<1>3. CASE LinkedTo(l, o, x)
  <2>1. NoteHasReport(ledger[d], l, h, o) /\ o \in NoteType
    BY NoteTypes DEF LinkedOK
  <2>2. CASE notes'[d] = notes[d] /\ linked'[d] = linked[d]
    <3>1. NextNote(d, h) = Note(d, h)
      BY <2>2 DEF Note, NextNote
    <3> QED
      BY <1>3, <2>2, <3>1 DEF KnownNext
  <2>3. CASE WorkDone(c, e)
    BY <2>2, <2>3 DEF WorkDone
  <2>4. CASE BlockDone(c, e)
    <3>1. PICK note \in NoteType : /\ note.hasBlock /\ note.block = e.block
                                   /\ note.pending = Note(c, e.hash).pending /\ Links(c, e.hash, {}, note)
      BY <2>4 DEF BlockDone
    <3>2. CASE d # c
      BY <2>2, <3>1, <3>2 DEF Links
    <3>3. CASE d = c /\ o.hasBlock /\ (h = e.hash \/ o.block = e.block)
      <4>1. Reported(ledger[d], h, o.block)
        BY <2>1, <3>3 DEF NoteHasReport
      <4>2. Rewritten(ledger'[d], h)
        BY <1>1, <2>4, <3>3, <4>1, ReportsNext DEF BlockDone
      <4> QED
        BY <4>2 DEF KnownNext
    <3>4. CASE d = c /\ h = e.hash /\ ~o.hasBlock
      <4>1. x \in note.pending
        BY <1>3, <3>1, <3>4 DEF LinkedTo
      <4>2. NextNote(d, h).hasBlock /\ x \in linked'[d][NextNote(d, h).block]
        BY <3>1, <3>4, <4>1 DEF Links
      <4> QED
        BY <4>2 DEF KnownNext, LinkedTo
    <3>5. CASE d = c /\ h # e.hash /\ ~(o.hasBlock /\ o.block = e.block)
      <4>1. NextNote(d, h) = o
        BY <3>1, <3>5 DEF Links
      <4>2. o.hasBlock => o.block \in DOMAIN l
        BY <2>1 DEF NoteHasReport
      <4>3. o.hasBlock => linked'[d][o.block] = l[o.block]
        BY <3>1, <3>5, <4>2 DEF Links
      <4> QED
        BY <1>3, <4>1, <4>3 DEF KnownNext, LinkedTo
    <3> QED
      BY <3>2, <3>3, <3>4, <3>5
  <2>5. CASE NoticeDone(c, e)
    <3>1. ASSUME NEW note \in NoteType, note.hasBlock, Note(c, e.hash).hasBlock, note.block = Note(c, e.hash).block,
                 note.pending = Note(c, e.hash).pending \cup {e.from}, note.block \in DOMAIN linked[c],
                 Links(c, e.hash, linked[c][note.block], note)
          PROVE  KnownNext(x, d, h)
      <4>1. CASE d # c
        BY <2>2, <3>1, <4>1 DEF Links
      <4>2. ASSUME d = c PROVE \A b \in DOMAIN l : l[b] \subseteq linked'[d][b]
        BY <3>1, <4>2 DEF Links
      <4>3. CASE d = c /\ h = e.hash
        <5>1. x \in l[note.block] \cup note.pending
          BY <1>3, <3>1, <4>3 DEF LinkedTo
        <5>2. NextNote(d, h).hasBlock /\ x \in linked'[d][NextNote(d, h).block]
          BY <3>1, <4>3, <5>1 DEF Links
        <5> QED
          BY <5>2 DEF KnownNext, LinkedTo
      <4>4. CASE d = c /\ h # e.hash
        <5>1. NextNote(d, h) = o
          BY <3>1, <4>4 DEF Links
        <5>2. o.hasBlock => o.block \in DOMAIN l
          BY <2>1 DEF NoteHasReport
        <5> QED
          BY <1>3, <4>2, <4>4, <5>1, <5>2 DEF KnownNext, LinkedTo
      <4> QED
        BY <4>1, <4>3, <4>4
    <3>2. ASSUME ~Note(c, e.hash).hasBlock, linked' = linked, \A y \in Coins : y # c => notes'[y] = notes[y],
                 \A g : g # e.hash => NextNote(c, g) = Note(c, g),
                 NextNote(c, e.hash) = [Note(c, e.hash) EXCEPT !.pending = @ \cup {e.from}]
          PROVE  KnownNext(x, d, h)
      <4>1. CASE d # c
        BY <2>2, <3>2, <4>1
      <4>2. CASE d = c /\ h # e.hash
        <5>1. NextNote(d, h) = o
          BY <3>2, <4>2
        <5> QED
          BY <1>3, <3>2, <5>1 DEF KnownNext
      <4>3. CASE d = c /\ h = e.hash
        <5>1. NextNote(d, h).pending = o.pending \cup {e.from}
          BY <2>1, <3>2, <4>3 DEF NoteType
        <5>2. x \in o.pending
          BY <1>3, <3>2, <4>3 DEF LinkedTo
        <5> QED
          BY <5>1, <5>2 DEF KnownNext, LinkedTo
      <4> QED
        BY <4>1, <4>2, <4>3
    <3> QED
      BY <2>5, <3>1, <3>2 DEF NoticeDone, Noticed
  <2> QED
    BY <2>3, <2>4, <2>5
<1> QED
  BY <1>2, <1>3 DEF Known

LEMMA AllToldNext ==
    ASSUME TypeOK, LinkedOK, AllTold, [Next]_vars
    PROVE  AllTold'
<1> SUFFICES ASSUME inst.rtt = {}, NEW c \in Coins, NEW d \in Coins, NEW f, BlockIn(ledger'[c], f), d \in f.others
             PROVE  Brings(queue'[d], c, f.hash) \/ KnownNext(c, d, f.hash)
  BY SameInstance DEF AllTold, Told, Known, KnownNext, Note, NextNote
<1> DEFINE h == f.hash
<1>1. CASE \A x \in Coins : ~BackendStep(x)
  <2>1. UNCHANGED <<ledger, notes, linked>> /\ (Brings(queue[d], c, h) => Brings(queue'[d], c, h))
    BY <1>1, BringsStay
  <2>2. NextNote(d, h) = Note(d, h)
    BY <2>1 DEF Note, NextNote
  <2>3. Told(c, d, h)
    BY <2>1 DEF AllTold
  <2> QED
    BY <2>1, <2>2, <2>3 DEF Told, Known, KnownNext
<1>2. ASSUME NEW x \in Coins, BackendStep(x) PROVE Brings(queue'[d], c, h) \/ KnownNext(c, d, h)
  <2>1. PICK e \in Entries : WorkDone(x, e) \/ BlockDone(x, e) \/ NoticeDone(x, e)
    BY <1>2, BackendDone
  <2>2. Done(x, e)
    BY <2>1 DEF WorkDone, BlockDone, NoticeDone
  <2>3. BlockIn(ledger[c], f) \/ (c = x /\ f = e /\ e.kind = "block")
    <3>1. GrownBy(c, x, e)
      BY <2>2 DEF Done
    <3> QED
      BY <3>1 DEF GrownBy, BlockIn, HasBlock
  <2>4. CASE c = x /\ f = e /\ e.kind = "block"
    BY <2>1, <2>4 DEF WorkDone, BlockDone, NoticeDone
  <2>5. CASE BlockIn(ledger[c], f)
    <3>1. Told(c, d, h)
      BY <2>5 DEF AllTold
    <3>2. CASE Known(c, d, h)
      BY <2>1, <3>2, KnownStays
    <3>3. CASE Brings(queue[d], c, h)
      <4>1. Brings(queue'[d], c, h) \/ (d = x /\ e.kind = "merged" /\ e.hash = h /\ e.from = c)
        BY <2>2, <3>3 DEF Done
      <4>2. CASE d = x /\ e.kind = "merged" /\ e.hash = h /\ e.from = c
        <5>1. Noticed(x, e)
          BY <2>1, <4>2 DEF WorkDone, BlockDone, NoticeDone
        <5>2. ASSUME NEW note \in NoteType, note.hasBlock, note.pending = Note(x, e.hash).pending \cup {e.from},
                     Links(x, e.hash, linked[x][note.block], note)
              PROVE  LinkedTo(linked'[d], NextNote(d, h), c)
          BY <4>2, <5>2 DEF Links, LinkedTo
        <5>3. ASSUME NextNote(x, e.hash) = [Note(x, e.hash) EXCEPT !.pending = @ \cup {e.from}]
              PROVE  LinkedTo(linked'[d], NextNote(d, h), c)
          <6>1. NextNote(d, h).pending = Note(d, h).pending \cup {c}
            BY <4>2, <5>3, NoteTypes DEF NoteType
          <6> QED
            BY <6>1 DEF LinkedTo
        <5> QED
          BY <5>1, <5>2, <5>3 DEF Noticed, KnownNext
      <4> QED
        BY <4>1, <4>2
    <3> QED
      BY <3>1, <3>2, <3>3 DEF Told
  <2> QED
    BY <2>3, <2>4, <2>5
<1> QED
  BY <1>1, <1>2

LEMMA LinkedInit ==
    ASSUME Init
    PROVE  OneCoin /\ OthersKnown /\ LinkedOK /\ AllTold
<1>1. Len(<<>>) = 0 /\ DOMAIN <<>> = {}
  OBVIOUS
<1>2. \A c \in Coins : Log(c) = <<>> /\ ledger[c] = <<>> /\ notes[c] = <<>>
  BY DEF Init, Log
<1>3. \A t \in Threads, c \in Coins : store[t].pending[c] = NoShare
  BY DEF Init, EmptyStorage
<1>4. submits = {}
  BY DEF Init
<1>5. (\A e : ~BlockIn(<<>>, e)) /\ \A h, b : ~Reported(<<>>, h, b)
  BY <1>1 DEF BlockIn, Reported
<1>6. ASSUME NEW c \in Coins, NEW n PROVE ~Used(c, n)
  BY <1>2, <1>3, <1>4, <1>5 DEF Used, Waiting, Item
<1>7. OneCoin /\ OthersKnown
  BY <1>6 DEF OneCoin, OthersKnown, Used
<1>8. ASSUME NEW c \in Coins, NEW h PROVE ~Note(c, h).hasBlock
  BY <1>1, <1>2 DEF Note
<1>9. LinkedOK
  BY <1>2, <1>5, <1>8 DEF LinkedOK, NoteHasReport
<1> QED
  BY <1>2, <1>5, <1>7, <1>9 DEF AllTold

\* Found blocks that the accounting has, and those that are on their way to it.
LEMMA InLog ==
    ASSUME TypeOK, NEW c \in Coins, NEW j \in DOMAIN ledger[c], HasBlock(ledger[c][j])
    PROVE  /\ BlockIn(ledger[c], ledger[c][j]) /\ j \in 1 .. Len(ledger[c])
           /\ LET e == ledger[c][j] IN Item(c, e.at, e.hash, e.others)
<1> DEFINE m == Len(ledger[c])
           n == Len(queue[c])
           e == ledger[c][j]
<1>1. Len(Log(c)) = m + n /\ \A i \in 1 .. m : Log(c)[i] = ledger[c][i]
  BY LogType DEF TypeOK
<1>2. m \in Nat /\ n \in Nat /\ j \in 1 .. m
  BY DEF TypeOK
<1>3. j \in 1 .. Len(Log(c)) /\ Log(c)[j] = e
  <2> HIDE DEF m, n
  <2>1. j \in 1 .. m + n
    BY <1>2
  <2> QED
    BY <1>1, <1>2, <2>1
<1>4. BlockIn(ledger[c], e) /\ BlockIn(Log(c), e)
  BY <1>2, <1>3 DEF BlockIn
<1> HIDE DEF e
<1>5. Item(c, e.at, e.hash, e.others)
  BY <1>4 DEF Item
<1> QED
  BY <1>2, <1>4, <1>5 DEF e

LEMMA AreLinked ==
    ASSUME TypeOK, OneCoin, OthersKnown, LinkedOK, AllTold
    PROVE  MergedBlocksLinked
<1> SUFFICES ASSUME NEW c \in Coins, NEW d \in Coins, c # d, queue[c] = <<>>,
                    NEW j \in DOMAIN ledger[c], NEW k \in DOMAIN ledger[d],
                    HasBlock(ledger[c][j]), HasBlock(ledger[d][k]), ledger[c][j].at = ledger[d][k].at,
                    OnlyReport(c, j)
             PROVE  d \in linked[c][ledger[c][j].block]
  BY DEF MergedBlocksLinked
<1> DEFINE a == ledger[c][j]
           b == ledger[d][k]
           h == a.hash
<1>1. BlockIn(ledger[d], b) /\ j \in 1 .. Len(ledger[c])
  BY InLog
<1>2. Item(c, a.at, a.hash, a.others) /\ Item(d, a.at, b.hash, b.others)
  BY InLog
<1>3. inst.rtt = {}
  BY <1>2 DEF OneCoin, Used
<1>4. c \in b.others /\ b.hash = h
  BY <1>2, <1>3 DEF OthersKnown
<1>5. Told(d, c, h)
  BY <1>1, <1>3, <1>4 DEF AllTold
<1>6. \A i \in 1 .. Len(ledger[c]) : i \in DOMAIN ledger[c]
  BY DEF TypeOK
<1>7. NoteHasReport(ledger[c], linked[c], h, Note(c, h)) /\ Note(c, h).hasBlock /\ Reported(ledger[c], h, Note(c, h).block)
  <2>1. Reported(ledger[c], h, a.block)
    BY <1>1 DEF Reported
  <2> QED
    BY <2>1 DEF LinkedOK, NoteHasReport
<1>8. Note(c, h).block = a.block
  BY <1>6, <1>7 DEF Reported, OnlyReport
<1>9. ~Rewritten(ledger[c], h)
  BY <1>6 DEF Rewritten, OnlyReport
<1>10. ~Brings(queue[c], d, h)
  <2>1. Len(<<>>) = 0
    OBVIOUS
  <2> QED
    BY <2>1 DEF Brings
<1> QED
  BY <1>5, <1>7, <1>8, <1>9, <1>10 DEF Told, Known, LinkedTo, NoteHasReport

\* The blocks that one share is know of each other when nothing waits in the
\* queues of their coins, whichever node answered first and in whatever order
\* the backends did their tasks, for any number of coins and threads: onBlockFound
\* takes what was noted before the block, and a later notification is linked at
\* once (accounting.cpp).
THEOREM MergedBlocksLinkedHolds == Spec => []MergedBlocksLinked
<1> DEFINE Inv == /\ RoundsOK /\ OpsPromised /\ PendingPromised /\ SentOnce
                  /\ NoneMerging /\ OneCoin /\ OthersKnown /\ LinkedOK /\ AllTold
<1>1. Init => Inv
  BY RoundsInit, OneRoundInit, LinkedInit
<1>2. TypeOK /\ Inv /\ [Next]_vars => Inv'
  <2> SUFFICES ASSUME TypeOK, Inv, [Next]_vars PROVE Inv'
    OBVIOUS
  <2>1. RoundsOK' /\ OpsPromised' /\ PendingPromised'
    BY RoundsNext
  <2>2. SentOnce' /\ NoneMerging'
    BY SentOnceNext, NoneMergingNext
  <2>3. OneCoin' /\ OthersKnown'
    BY OneCoinNext, OthersKnownNext
  <2>4. LinkedOK' /\ AllTold'
    BY LinkedOKNext, AllToldNext
  <2> QED
    BY <2>1, <2>2, <2>3, <2>4
<1>3. TypeOK /\ Inv => MergedBlocksLinked
  BY AreLinked
<1> HIDE DEF Inv
<1> QED
  BY <1>1, <1>2, <1>3, TypesHold, PTL DEF Spec
=============================================================================
