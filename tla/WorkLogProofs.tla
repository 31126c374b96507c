--------------------------- MODULE WorkLogProofs ---------------------------
(***************************************************************************)
(* Proofs about WorkLog, for every number of batches, crashes and changes  *)
(* of the mode.  Two inductive invariants carry them: AccountInv says why  *)
(* no batch counts twice, and holds whatever a crash leaves in the log;    *)
(* LogInv says why none is forgotten, and needs that no record is torn and *)
(* that the ids of the statistics never fall back.                         *)
(***************************************************************************)
EXTENDS WorkLog, FiniteSetLemmas, SequenceTheorems

\* The id and the batch of every record, in a file or still in the buffer.
Held == {<<log[p].id, log[p].msg>> : p \in DOMAIN log}
        \cup {<<buffer[i].id, buffer[i].msg>> : i \in DOMAIN buffer}

\* A batch has one record.
OneRecord ==
    /\ \A p, q \in DOMAIN log : log[p].msg = log[q].msg => p = q
    /\ \A i, j \in DOMAIN buffer : buffer[i].msg = buffer[j].msg => i = j
    /\ \A p \in DOMAIN log, i \in DOMAIN buffer : log[p].msg # buffer[i].msg

\* State s has a batch once, and is paid for it in one way; a batch that it has
\* will not be taken from the log again.
Sound(s, held) ==
    /\ \A m \in Messages : s.scores[m] + s.rounds[m] <= 1
    /\ \A m \in Messages : s.pending[m] + s.paid[m] = IF m \in s.meta THEN 1 ELSE 0
    /\ s.meta \subseteq Counted(s)
    /\ \A r \in held : r[2] \in Counted(s) => r[1] <= s.last

AccountInv ==
    /\ OneRecord
    /\ Sound(state, Held) /\ Sound(diskState, Held)
    /\ \A r \in Held : r[2] <= received
    /\ Counted(state) \cup Counted(diskState) \subseteq 1 .. received
    /\ state.last < nextId /\ statsAccepted < nextId
    /\ savedId = diskState.last /\ diskState.rounds = state.rounds
    /\ PaymentsAreListed

\* Ids rise along the log, files do not fall.
Ordered(l) ==
    /\ \A p \in DOMAIN l : l[p].whole
    /\ \A p, q \in DOMAIN l : p < q => l[p].id < l[q].id /\ l[p].file <= l[q].file

\* The last file has the largest name; every record is in a file, and behind
\* none that its file claims to end with.
FilesHold(l, fs) ==
    /\ \A i \in 1 .. Len(fs) - 1 : fs[i].FileId < fs[Len(fs)].FileId
    /\ \A p \in DOMAIN l : \E i \in DOMAIN fs : l[p].file = fs[i].FileId
    /\ \A p \in DOMAIN l, i \in 1 .. Len(fs) - 1 : l[p].file = fs[i].FileId => l[p].id <= fs[i].LastShareId

\* A restart finds id n, or a larger one.
Found(n, held) ==
    \/ n <= diskState.last \/ n <= diskStats
    \/ \E r \in held : n <= r[1]

InLog == {<<log[p].id, log[p].msg>> : p \in DOMAIN log}

\* The records of the buffer follow those of the log.
BufferFollows ==
    /\ \A i, j \in DOMAIN buffer : i < j => buffer[i].id < buffer[j].id
    /\ \A p \in DOMAIN log, i \in DOMAIN buffer : log[p].id < buffer[i].id

\* A state has the batch of every record up to its last id.
Applied ==
    \A r \in Held : /\ r[1] <= state.last /\ r[2] \in Counted(state)
                    /\ r[1] <= diskState.last => r[2] \in Counted(diskState)

\* Ids go on behind every id that was ever given out, and so do file names.
IdsFound ==
    /\ diskState.last <= state.last /\ diskStats <= statsAccepted /\ Back <= nextId
    /\ Found(nextId - 1, Held) /\ Found(Back - 1, InLog)

\* What was written is in the saved state or still in the log.
WrittenIsStable ==
    /\ Counted(diskState) \subseteq Counted(state) /\ Counted(diskState) \subseteq written
    /\ \A p \in DOMAIN log : log[p].msg \in written
    /\ \A m \in written : m \in Counted(diskState) \/ \E p \in DOMAIN log : log[p].msg = m

LogInv ==
    /\ Ordered(log) /\ FilesHold(log, files)
    /\ BufferFollows /\ Applied /\ IdsFound /\ WrittenIsStable

Undamaged == ~TornWrites /\ ~StatsExpire
IInv == TypeOK /\ AccountInv /\ (Undamaged => LogInv)

----------------------------------------------------------------------------
(* The operators of the model.                                             *)

\* New records go behind every record of the log.
LEMMA EndIsBehind ==
    ASSUME NEW q, IsFiniteSet(DOMAIN q), DOMAIN q \subseteq Nat
    PROVE  End(q) \in Nat \ {0} /\ \A p \in DOMAIN q : p < End(q)
<1> DEFINE S == DOMAIN q \cup {0}
<1>1. IsFiniteSet(S) /\ S # {} /\ S \subseteq Nat
  BY FS_AddElement
<1>2. Max(S) \in S /\ \A y \in S : Max(S) >= y
  BY <1>1, MaxExists
<1>3. \A y \in S : y \in Nat
  BY <1>1
<1> QED
  BY <1>2, <1>3 DEF End

\* l is the log with records of the buffer behind it, the first n of them whole.
Extended(l, n) ==
    /\ IsFiniteSet(DOMAIN l) /\ DOMAIN l \subseteq Nat \ {0} /\ l \in [DOMAIN l -> LogRecord]
    /\ DOMAIN log \subseteq DOMAIN l /\ \A p \in DOMAIN log : l[p] = log[p]
    /\ \A p \in DOMAIN log, q \in DOMAIN l \ DOMAIN log : p < q
    /\ \A p \in DOMAIN l \ DOMAIN log : \E i \in DOMAIN buffer :
          /\ p = End(log) + i - 1
          /\ l[p] = [id |-> buffer[i].id, msg |-> buffer[i].msg, file |-> Back, whole |-> i <= n]
    /\ \A i \in 1 .. n : \E p \in DOMAIN l \ DOMAIN log :
          l[p].id = buffer[i].id /\ l[p].msg = buffer[i].msg

\* What Appended returns, torn or not.
LEMMA AppendedExtends ==
    ASSUME TypeOK, NEW n \in 0 .. Len(buffer), NEW torn \in BOOLEAN, torn => n < Len(buffer)
    PROVE  /\ Extended(Appended(n, torn), n)
           /\ ~torn => \A p \in DOMAIN Appended(n, torn) \ DOMAIN log : Appended(n, torn)[p].whole
<1> DEFINE e == End(log)
           m == n + (IF torn THEN 1 ELSE 0)
           new == e .. e + m - 1
           l == Appended(n, torn)
           rec(i) == [id |-> buffer[i].id, msg |-> buffer[i].msg, file |-> Back, whole |-> i <= n]
<1>1. IsFiniteSet(DOMAIN log) /\ DOMAIN log \subseteq Nat \ {0} /\ log \in [DOMAIN log -> LogRecord]
  BY DEF TypeOK
<1>2. e \in Nat \ {0} /\ \A p \in DOMAIN log : p < e
  BY <1>1, EndIsBehind
<1>3. Len(buffer) \in Nat /\ DOMAIN buffer = 1 .. Len(buffer) /\ m \in 0 .. Len(buffer)
  BY SMTT(30) DEF TypeOK
<1>4. Back \in Nat \ {0}
  <2>1. files \in Seq(CDatFile) /\ files # <<>>
    BY DEF TypeOK
  <2>2. files[Len(files)] \in CDatFile
    BY <2>1
  <2> QED
    BY <2>2 DEF Back, Last, CDatFile
<1> HIDE DEF e, m
<1>5. \A p \in new : p - e + 1 \in 1 .. Len(buffer) /\ p = e + (p - e + 1) - 1
  BY <1>2, <1>3
<1>6. \A i \in 1 .. Len(buffer) : rec(i) \in LogRecord
  <2>1. buffer \in Seq([id : Nat \ {0}, msg : Messages])
    BY DEF TypeOK
  <2>2. \A i \in 1 .. Len(buffer) : buffer[i] \in [id : Nat \ {0}, msg : Messages]
    BY <2>1, ElementOfSeq
  <2> QED
    BY <1>3, <1>4, <2>2 DEF LogRecord
<1>7. new \subseteq Nat \ {0} /\ new \cap DOMAIN log = {} /\ IsFiniteSet(new)
  <2>1. \A p \in new : p \in Nat /\ p >= e
    BY <1>2, <1>3
  <2>2. e + m - 1 \in Int
    BY <1>2, <1>3
  <2> QED
    BY <1>2, <2>1, <2>2, FS_Interval
<1>8. l = [p \in DOMAIN log \cup new |-> IF p \in DOMAIN log THEN log[p] ELSE rec(p - e + 1)]
  BY DEF Appended, e, m
<1> HIDE DEF l, new, rec
<1>9. DOMAIN l = DOMAIN log \cup new /\ DOMAIN l \ DOMAIN log = new
  BY <1>7, <1>8
<1>10. \A p \in DOMAIN log : l[p] = log[p]
  BY <1>8
<1>11. \A p \in new : l[p] = rec(p - e + 1)
  BY <1>7, <1>8
<1>12. l \in [DOMAIN l -> LogRecord]
  <2>1. \A p \in DOMAIN l : l[p] \in LogRecord
    BY <1>1, <1>5, <1>6, <1>9, <1>10, <1>11
  <2>2. l = [p \in DOMAIN l |-> l[p]]
    BY <1>8, <1>9
  <2> QED
    BY <2>1, <2>2
<1>13. IsFiniteSet(DOMAIN l) /\ DOMAIN l \subseteq Nat \ {0}
  <2>1. IsFiniteSet(DOMAIN log \cup new)
    BY <1>1, <1>7, FS_Union
  <2> QED
    BY <1>1, <1>7, <1>9, <2>1
<1>14. \A p \in DOMAIN log, q \in DOMAIN l \ DOMAIN log : p < q
  <2>1. \A q \in new : q \in Nat /\ q >= e
    BY <1>2, <1>3 DEF new
  <2>2. \A p \in DOMAIN log : p \in Nat /\ p < e
    BY <1>1, <1>2
  <2> QED
    BY <1>2, <1>9, <2>1, <2>2
<1>15. \A p \in DOMAIN l \ DOMAIN log : \E i \in DOMAIN buffer : p = End(log) + i - 1 /\ l[p] = rec(i)
  BY <1>3, <1>5, <1>9, <1>11 DEF e
<1>16. ASSUME NEW i \in 1 .. n
       PROVE  \E p \in DOMAIN l \ DOMAIN log : l[p].id = buffer[i].id /\ l[p].msg = buffer[i].msg
  <2>1. e + i - 1 \in new /\ (e + i - 1) - e + 1 = i
    BY <1>2, <1>3 DEF new, m
  <2>2. l[e + i - 1] = rec(i)
    BY <1>11, <2>1
  <2> QED
    BY <1>9, <2>1, <2>2 DEF rec
<1>17. ASSUME ~torn, NEW p \in DOMAIN l \ DOMAIN log
       PROVE  l[p].whole
  <2>1. p - e + 1 <= n
    BY <1>2, <1>9, <1>17 DEF new, m
  <2>2. l[p].whole = (p - e + 1 <= n)
    BY <1>9, <1>11, <1>17 DEF rec
  <2> QED
    BY <2>1, <2>2
<1>18. Extended(l, n)
  BY <1>9, <1>10, <1>12, <1>13, <1>14, <1>15, <1>16 DEF Extended, rec
<1> QED
  BY <1>17, <1>18 DEF l

\* A record that is written keeps its id and its batch, and stays the only one.
LEMMA ExtendedIsHeld ==
    ASSUME TypeOK, OneRecord, NEW n \in Nat, NEW l, Extended(l, n)
    PROVE  /\ \A p \in DOMAIN l : <<l[p].id, l[p].msg>> \in Held
           /\ \A p, q \in DOMAIN l : l[p].msg = l[q].msg => p = q
<1>1. DOMAIN log \subseteq DOMAIN l /\ \A p \in DOMAIN log : l[p] = log[p]
  BY DEF Extended
<1>2. \A p \in DOMAIN l \ DOMAIN log : \E i \in DOMAIN buffer :
          p = End(log) + i - 1 /\ l[p].id = buffer[i].id /\ l[p].msg = buffer[i].msg
  BY DEF Extended
<1>3. \A p \in DOMAIN l : <<l[p].id, l[p].msg>> \in Held
  BY <1>1, <1>2 DEF Held
<1>4. ASSUME NEW p \in DOMAIN l, NEW q \in DOMAIN l, l[p].msg = l[q].msg
      PROVE  p = q
  <2>1. CASE p \in DOMAIN log /\ q \in DOMAIN log
    BY <1>1, <1>4, <2>1 DEF OneRecord
  <2>2. CASE p \in DOMAIN log /\ q \notin DOMAIN log
    BY <1>1, <1>2, <1>4, <2>2 DEF OneRecord
  <2>3. CASE p \notin DOMAIN log /\ q \in DOMAIN log
    BY <1>1, <1>2, <1>4, <2>3 DEF OneRecord
  <2>4. CASE p \notin DOMAIN log /\ q \notin DOMAIN log
    BY <1>1, <1>2, <1>4, <2>4 DEF OneRecord
  <2> QED
    BY <2>1, <2>2, <2>3, <2>4
<1> QED
  BY <1>3, <1>4

\* The records that a restart applies to the state, and their batches.
Taken(l) == Replayed(l, ReplayFrom, diskState.last)
Again(l) == {l[p].msg : p \in Taken(l)}

\* A batch is replayed at most once.
LEMMA TakenOnce ==
    ASSUME TypeOK, OneRecord, NEW n \in Nat, NEW l, Extended(l, n), NEW m \in Messages
    PROVE  Cardinality({p \in Taken(l) : l[p].msg = m}) = IF m \in Again(l) THEN 1 ELSE 0
<1> DEFINE T == {p \in Taken(l) : l[p].msg = m}
<1>1. Taken(l) \subseteq DOMAIN l
  BY DEF Taken, Replayed, Readable
<1>2. \A x, y \in T : x = y
  BY <1>1, ExtendedIsHeld
<1>3. T = {} <=> m \notin Again(l)
  BY DEF Again
<1>4. Cardinality(T) = IF T = {} THEN 0 ELSE 1
  <2> HIDE DEF T
  <2> QED
    BY <1>2, AtMostOne
<1> QED
  BY <1>3, <1>4

\* The highest id that is read, or what was known before.
LEMMA HighestId ==
    ASSUME NEW S, IsFiniteSet(S), S \subseteq Nat, NEW a \in Nat
    PROVE  /\ Max(S \cup {a}) \in S \cup {a} /\ Max(S \cup {a}) \in Nat
           /\ Max(S \cup {a}) >= a /\ \A i \in S : Max(S \cup {a}) >= i
<1>1. IsFiniteSet(S \cup {a}) /\ S \cup {a} # {} /\ S \cup {a} \subseteq Nat
  BY FS_AddElement
<1>2. Max(S \cup {a}) \in S \cup {a} /\ \A y \in S \cup {a} : Max(S \cup {a}) >= y
  BY <1>1, MaxExists
<1> QED
  BY <1>2

LEMMA IdsAreFinite ==
    ASSUME NEW l, IsFiniteSet(DOMAIN l), l \in [DOMAIN l -> LogRecord], NEW at \in SUBSET DOMAIN l
    PROVE  IsFiniteSet(Ids(l, at)) /\ Ids(l, at) \subseteq Nat /\ \A p \in at : l[p].id \in Ids(l, at)
<1>1. IsFiniteSet(at)
  BY FS_Subset
<1> DEFINE f == [p \in at |-> l[p].id]
<1>2. f \in Surjection(at, Ids(l, at))
  BY DEF Surjection, Ids
<1>3. \A p \in at : l[p].id \in Nat
  BY DEF LogRecord
<1>4. IsFiniteSet(Ids(l, at))
  BY <1>1, <1>2, FS_Surjection
<1> QED
  BY <1>3, <1>4 DEF Ids

\* What a restart leaves behind (Reload), with the log it has replayed in log'.
LEMMA ReloadReplaysLog ==
    ASSUME TypeOK, OneRecord, NEW n \in 0 .. Len(buffer), NEW torn \in BOOLEAN,
           torn => n < Len(buffer), Reload(n, torn)
    PROVE  /\ Extended(log', n) /\ buffer' = <<>>
           /\ ~torn => \A p \in DOMAIN log' \ DOMAIN log : log'[p].whole
           /\ Taken(log') \subseteq DOMAIN log'
<1>1. log' = Appended(n, torn) /\ buffer' = <<>>
  BY DEF Reload
<1> QED
  BY <1>1, AppendedExtends DEF Taken, Replayed, Readable

\* The work of some batches in a state (processWorkSummaryBatch).
LEMMA ProcessedAdds ==
    ASSUME NEW s \in AccountingState, NEW times \in [Messages -> Nat]
    PROVE  /\ Processed(s, times) \in AccountingState
           /\ Processed(s, times).rounds = s.rounds /\ Processed(s, times).paid = s.paid
           /\ \A m \in Messages : Processed(s, times).scores[m] = s.scores[m] + times[m]
           /\ \A m \in Messages : Processed(s, times).pending[m] =
                 s.pending[m] + IF pps THEN times[m] ELSE 0
           /\ Processed(s, times).meta = s.meta \cup IF pps THEN {m \in Messages : times[m] > 0} ELSE {}
           /\ Processed(s, times).last = s.last
<1> DEFINE plus(f) == [m \in Messages |-> f[m] + times[m]]
<1>1. \A f \in [Messages -> Nat] : plus(f) \in [Messages -> Nat]
  OBVIOUS
<1>2. /\ s.scores \in [Messages -> Nat] /\ s.rounds \in [Messages -> Nat] /\ s.meta \subseteq Messages
      /\ s.pending \in [Messages -> Nat] /\ s.paid \in [Messages -> Nat] /\ s.last \in Nat
  BY DEF AccountingState
<1> DEFINE busy == {m \in Messages : times[m] > 0}
           pe == IF pps THEN plus(s.pending) ELSE s.pending
           me == IF pps THEN s.meta \cup busy ELSE s.meta
<1>3. Processed(s, times) =
        [scores |-> plus(s.scores), rounds |-> s.rounds, meta |-> me, pending |-> pe,
         paid |-> s.paid, last |-> s.last]
  <2>1. Processed(s, times) = [s EXCEPT !.scores = plus(s.scores), !.pending = pe, !.meta = me]
    BY DEF Processed
  <2> HIDE DEF plus, pe, me
  <2> QED
    BY <2>1 DEF AccountingState
<1>4. CASE pps
  BY <1>1, <1>2, <1>3, <1>4 DEF AccountingState
<1>5. CASE ~pps
  BY <1>2, <1>1, <1>3, <1>5 DEF AccountingState
<1> QED
  BY <1>4, <1>5

\* The state after a restart is the saved one with the replayed batches in it.
LEMMA ReloadState ==
    ASSUME TypeOK, OneRecord, NEW n \in 0 .. Len(buffer), NEW torn \in BOOLEAN,
           torn => n < Len(buffer), Reload(n, torn)
    PROVE  /\ state' \in AccountingState /\ savedId' = diskState.last
           /\ state'.rounds = diskState.rounds /\ state'.paid = diskState.paid
           /\ \A m \in Messages : state'.scores[m] = diskState.scores[m] + IF m \in Again(log') THEN 1 ELSE 0
           /\ \A m \in Messages : state'.pending[m] =
                 diskState.pending[m] + IF pps /\ m \in Again(log') THEN 1 ELSE 0
           /\ state'.meta = diskState.meta \cup IF pps THEN Again(log') ELSE {}
           /\ state'.last >= diskState.last
           /\ state'.last \in Ids(log', Taken(log')) \cup {diskState.last}
           /\ \A p \in Taken(log') : log'[p].id <= state'.last
<1> DEFINE at == Taken(log')
           times == [m \in Messages |-> Cardinality({p \in at : log'[p].msg = m})]
           last == Max(Ids(log', at) \cup {diskState.last})
<1>1. /\ state' = [Processed(diskState, times) EXCEPT !.last = Max(Ids(log', at) \cup {@})]
      /\ savedId' = diskState.last
  BY DEF Reload, Taken
<1>2. Extended(log', n) /\ at \subseteq DOMAIN log'
  BY ReloadReplaysLog
<1>3. /\ IsFiniteSet(DOMAIN log') /\ log' \in [DOMAIN log' -> LogRecord]
  BY <1>2 DEF Extended
<1>4. diskState \in AccountingState
  BY DEF TypeOK
<1>5. Again(log') \subseteq Messages
  BY <1>2, <1>3 DEF Again, LogRecord
<1>6. n \in Nat
  OBVIOUS
<1>7. \A m \in Messages : times[m] = IF m \in Again(log') THEN 1 ELSE 0
  BY <1>2, <1>6, TakenOnce
<1> HIDE DEF at, times
<1>8. IsFiniteSet(Ids(log', at)) /\ Ids(log', at) \subseteq Nat /\ \A p \in at : log'[p].id \in Ids(log', at)
  BY <1>2, <1>3, IdsAreFinite
<1>9. diskState.last \in Nat
  BY <1>4 DEF AccountingState
<1>10. /\ last \in Ids(log', at) \cup {diskState.last} /\ last \in Nat
       /\ last >= diskState.last /\ \A p \in at : last >= log'[p].id
  BY <1>8, <1>9, HighestId
<1>11. /\ times \in [Messages -> Nat]
       /\ \A m \in Messages : times[m] > 0 <=> m \in Again(log')
  BY <1>7 DEF times
<1>12. {m \in Messages : times[m] > 0} = Again(log')
  BY <1>5, <1>11
<1> DEFINE s == Processed(diskState, times)
<1>13. /\ s \in AccountingState /\ s.rounds = diskState.rounds /\ s.paid = diskState.paid
       /\ \A m \in Messages : s.scores[m] = diskState.scores[m] + times[m]
       /\ \A m \in Messages : s.pending[m] = diskState.pending[m] + IF pps THEN times[m] ELSE 0
       /\ s.meta = diskState.meta \cup IF pps THEN Again(log') ELSE {}
       /\ s.last = diskState.last
  BY <1>4, <1>11, <1>12, ProcessedAdds
<1> HIDE DEF s
<1>14. state' = [s EXCEPT !.last = last]
  BY <1>1, <1>13 DEF s
<1>15. /\ state'.scores = s.scores /\ state'.rounds = s.rounds /\ state'.meta = s.meta
       /\ state'.pending = s.pending /\ state'.paid = s.paid /\ state'.last = last
       /\ state' \in AccountingState
  BY <1>10, <1>13, <1>14 DEF AccountingState
<1> QED
  BY <1>1, <1>7, <1>10, <1>13, <1>15 DEF at

\* Whatever a flush of the statistics leaves on disk is no higher than its id or
\* than what was there.
LEMMA StatsOnDiskIs ==
    ASSUME TypeOK, NEW id \in Nat
    PROVE  /\ StatsOnDisk(id) \subseteq Nat
           /\ ~StatsExpire => StatsOnDisk(id) = {id}
<1>1. diskStats \in Nat
  BY DEF TypeOK
<1>2. 0 .. diskStats \subseteq Nat
  BY <1>1
<1> QED
  BY <1>2 DEF StatsOnDisk

\* The ids after a restart go on behind those of the state and the statistics.
LEMMA ReloadIds ==
    ASSUME TypeOK, OneRecord, NEW n \in 0 .. Len(buffer), NEW torn \in BOOLEAN,
           torn => n < Len(buffer), Reload(n, torn)
    PROVE  /\ statsAccepted' \in Nat /\ statsSaved' = statsAccepted' /\ statsAccepted' >= diskStats
           /\ diskStats' \in Nat /\ (~StatsExpire => diskStats' = statsAccepted')
           /\ nextId' \in Nat \ {0} /\ state'.last < nextId' /\ statsAccepted' < nextId'
           /\ nextId' - 1 \in {state'.last, statsAccepted'}
<1> DEFINE S == {i \in Ids(log', Readable(log')) : i > ReplayFrom}
<1>1. Extended(log', n)
  BY ReloadReplaysLog
<1>2. /\ IsFiniteSet(DOMAIN log') /\ log' \in [DOMAIN log' -> LogRecord]
      /\ Readable(log') \in SUBSET DOMAIN log'
  BY <1>1 DEF Extended, Readable
<1>3. IsFiniteSet(Ids(log', Readable(log'))) /\ Ids(log', Readable(log')) \subseteq Nat
  BY <1>2, IdsAreFinite
<1>4. IsFiniteSet(S) /\ S \subseteq Nat
  <2>1. S \in SUBSET Ids(log', Readable(log'))
    OBVIOUS
  <2> QED
    BY <1>3, <2>1, FS_Subset
<1>5. diskStats \in Nat
  BY DEF TypeOK
<1>6. statsAccepted' = Max(S \cup {diskStats})
  <2>1. statsAccepted' = Max({diskStats} \cup S)
    BY DEF Reload
  <2>2. {diskStats} \cup S = S \cup {diskStats}
    OBVIOUS
  <2> QED
    BY <2>1, <2>2
<1> HIDE DEF S
<1>7. statsAccepted' \in Nat /\ statsAccepted' >= diskStats
  BY <1>4, <1>5, <1>6, HighestId
<1>8. statsSaved' = statsAccepted' /\ diskStats' \in StatsOnDisk(statsAccepted')
  BY DEF Reload
<1>9. diskStats' \in Nat /\ (~StatsExpire => diskStats' = statsAccepted')
  BY <1>7, <1>8, StatsOnDiskIs
<1>10. state'.last \in Nat
  BY ReloadState DEF AccountingState
<1>11. nextId' = Max({state'.last, statsAccepted'}) + 1
  BY DEF Reload, StartLogging
<1>12. /\ Max({state'.last, statsAccepted'}) \in {state'.last, statsAccepted'}
       /\ Max({state'.last, statsAccepted'}) >= state'.last
       /\ Max({state'.last, statsAccepted'}) >= statsAccepted'
  BY <1>7, <1>10, MaxOfTwo
<1> QED
  BY <1>7, <1>8, <1>9, <1>10, <1>11, <1>12

\* The log files after a restart are those before it, in the order of their
\* names, each with the last id that was read from it.
LEMMA ReloadFiles ==
    ASSUME TypeOK, OneRecord, NEW n \in 0 .. Len(buffer), NEW torn \in BOOLEAN,
           torn => n < Len(buffer), Reload(n, torn)
    PROVE  /\ files' \in Seq(CDatFile) /\ files' # <<>>
           /\ \A i, j \in DOMAIN files' : i < j => files'[i].FileId < files'[j].FileId
           /\ \A k \in DOMAIN files : \E i \in DOMAIN files' : files'[i].FileId = files[k].FileId
           /\ \A i \in DOMAIN files' : \E k \in DOMAIN files : files'[i].FileId = files[k].FileId
           /\ \A i \in DOMAIN files' : files'[i].LastShareId = LastRead(log', files'[i].FileId)
<1> DEFINE S == {files[i].FileId : i \in DOMAIN files}
           c == Cardinality(S)
           names == Ascending(S)
<1>1. files \in Seq(CDatFile) /\ files # <<>> /\ DOMAIN files = 1 .. Len(files) /\ Len(files) \in Nat \ {0}
  BY DEF TypeOK
<1>2. \A i \in DOMAIN files : files[i].FileId \in Nat \ {0}
  <2>1. \A i \in DOMAIN files : files[i] \in CDatFile
    BY <1>1, ElementOfSeq
  <2> QED
    BY <2>1 DEF CDatFile
<1>3. IsFiniteSet(S) /\ S \subseteq Nat /\ S # {}
  <2>1. [i \in DOMAIN files |-> files[i].FileId] \in Surjection(DOMAIN files, S)
    BY DEF Surjection
  <2>2. IsFiniteSet(DOMAIN files)
    BY <1>1, FS_Interval
  <2>3. IsFiniteSet(S)
    BY <2>1, <2>2, FS_Surjection
  <2> QED
    BY <1>1, <1>2, <2>3
<1>4. c \in Nat /\ c # 0
  BY <1>3, FS_CardinalityType, FS_EmptySet
<1>5. /\ names \in [1 .. c -> S]
      /\ \A i, j \in 1 .. c : i < j => names[i] < names[j]
  <2>1. \E s \in [1 .. c -> S] : \A i, j \in DOMAIN s : i < j => s[i] < s[j]
    <3>1. PICK s \in [1 .. c -> S] : \A i, j \in 1 .. c : i < j => s[i] < s[j]
      BY <1>3, AscendingExists
    <3> QED
      BY <3>1
  <2>2. /\ names \in [1 .. c -> S]
        /\ \A i, j \in DOMAIN names : i < j => names[i] < names[j]
    <3> HIDE DEF S
    <3> QED
      BY <2>1 DEF Ascending
  <2> QED
    BY <2>2
<1>6. \A x \in S : \E i \in 1 .. c : names[i] = x
  BY <1>3, <1>5, AscendingCovers
<1>7. files' = [i \in DOMAIN names |-> [FileId |-> names[i], LastShareId |-> LastRead(log', names[i])]]
  BY DEF Reload
<1>8. \A f : LastRead(log', f) \in Nat
  <2> SUFFICES ASSUME NEW f PROVE LastRead(log', f) \in Nat
    OBVIOUS
  <2> DEFINE at == {p \in DOMAIN log' : log'[p].file = f /\ Reached(log', p)}
  <2>1. Extended(log', n)
    BY ReloadReplaysLog
  <2>2. /\ IsFiniteSet(DOMAIN log') /\ log' \in [DOMAIN log' -> LogRecord]
        /\ DOMAIN log' \subseteq Nat \ {0}
    BY <2>1 DEF Extended
  <2>3. at \in SUBSET DOMAIN log' /\ at \subseteq Nat
    BY <2>2
  <2>4. at # {} => Max(at) \in at
    BY <2>2, <2>3, FS_Subset, MaxExists
  <2>5. at # {} => log'[Max(at)].id \in Nat
    BY <2>2, <2>4 DEF LogRecord
  <2> QED
    BY <2>5 DEF LastRead
<1> HIDE DEF names
<1>9. \A i \in 1 .. c : names[i] \in Nat \ {0}
  BY <1>2, <1>5
<1> HIDE DEF S, c
<1>10. /\ DOMAIN files' = 1 .. c
       /\ \A i \in 1 .. c : /\ files'[i].FileId = names[i]
                            /\ files'[i].LastShareId = LastRead(log', names[i])
                            /\ files'[i] \in CDatFile
  BY <1>5, <1>7, <1>8, <1>9 DEF CDatFile
<1>11. files' \in Seq(CDatFile) /\ files' # <<>>
  <2>1. files' \in [1 .. c -> CDatFile]
    BY <1>5, <1>7, <1>10
  <2> QED
    BY <1>4, <1>10, <2>1
<1>12. \A k \in DOMAIN files : \E i \in 1 .. c : names[i] = files[k].FileId
  BY <1>6 DEF S
<1>13. \A i \in 1 .. c : \E k \in DOMAIN files : names[i] = files[k].FileId
  BY <1>5 DEF S
<1>14. \A i, j \in DOMAIN files' : i < j => files'[i].FileId < files'[j].FileId
  BY <1>5, <1>10
<1> QED
  BY <1>10, <1>11, <1>12, <1>13, <1>14

\* cleanupOldFiles leaves the last file, and removes only files that end before
\* the last share id that both the state and the statistics have saved.
LEMMA OldIsSaved ==
    ASSUME TypeOK, NEW fs \in Seq(CDatFile), fs # <<>>
    PROVE  /\ Old(fs) \in 0 .. Len(fs) - 1
           /\ \A i \in 1 .. Old(fs) : fs[i].LastShareId < savedId
<1> DEFINE S == {k \in 0 .. Len(fs) - 1 : \A i \in 1 .. k : fs[i].LastShareId < lastAggregatedShareId}
<1>1. Len(fs) \in Nat \ {0}
  OBVIOUS
<1>2. IsFiniteSet(0 .. Len(fs) - 1)
  BY <1>1, FS_Interval
<1>3. 0 \in S
  BY <1>1
<1>4. S \in SUBSET (0 .. Len(fs) - 1) /\ S \subseteq Nat
  BY <1>1
<1>5. Max(S) \in S
  <2> HIDE DEF S
  <2> QED
    BY <1>2, <1>3, <1>4, FS_Subset, MaxExists
<1>6. lastAggregatedShareId <= savedId /\ lastAggregatedShareId \in Nat
  <2>1. savedId \in Nat /\ statsSaved \in Nat
    BY DEF TypeOK
  <2> QED
    BY <2>1, MinOfTwo DEF lastAggregatedShareId
<1>7. \A i \in 1 .. Len(fs) : fs[i].LastShareId \in Nat
  <2>1. \A i \in 1 .. Len(fs) : fs[i] \in CDatFile
    BY ElementOfSeq
  <2> QED
    BY <2>1 DEF CDatFile
<1>8. Old(fs) = Max(S)
  BY DEF Old
<1>9. savedId \in Nat
  BY DEF TypeOK
<1>10. \A i \in 1 .. Old(fs) : fs[i].LastShareId < lastAggregatedShareId /\ i \in 1 .. Len(fs)
  BY <1>1, <1>5, <1>8
<1> QED
  BY <1>5, <1>6, <1>7, <1>8, <1>9, <1>10

\* The files after the flush are fs without the first k; the log is l without
\* their records.
Cleaned(l, fs, k) ==
    /\ k \in 0 .. Len(fs) - 1 /\ \A i \in 1 .. k : fs[i].LastShareId < savedId
    /\ files' \in Seq(CDatFile) /\ files' # <<>> /\ Len(files') = Len(fs) - k
    /\ \A i \in 1 .. Len(fs) - k : files'[i] = fs[i + k]
    /\ DOMAIN log' \subseteq DOMAIN l /\ \A p \in DOMAIN log' : log'[p] = l[p]
    /\ log' = [p \in DOMAIN log' |-> log'[p]]
    /\ \A p \in DOMAIN l : p \in DOMAIN log' <=> \E i \in DOMAIN files' : l[p].file = files'[i].FileId

\* The next file, for messages from nextId on.
LEMMA RotatedIs ==
    ASSUME TypeOK
    PROVE  /\ Rotated \in Seq(CDatFile) /\ Rotated # <<>> /\ Len(Rotated) = Len(files) + 1
           /\ \A i \in 1 .. Len(files) - 1 : Rotated[i] = files[i]
           /\ Rotated[Len(files)] = [FileId |-> Back, LastShareId |-> nextId - 1]
           /\ Rotated[Len(files) + 1] = [FileId |-> nextId, LastShareId |-> 0]
<1> DEFINE n == Len(files)
           ended == [files[n] EXCEPT !.LastShareId = nextId - 1]
           fs == [files EXCEPT ![n] = ended]
<1>1. files \in Seq(CDatFile) /\ files # <<>> /\ n \in Nat \ {0} /\ nextId \in Nat \ {0}
  BY DEF TypeOK
<1>2. files[n] \in CDatFile /\ nextId - 1 \in Nat
  BY <1>1, ElementOfSeq
<1>3. ended \in CDatFile /\ ended = [FileId |-> Back, LastShareId |-> nextId - 1]
  BY <1>2 DEF CDatFile, Back, Last
<1> HIDE DEF ended
<1>4. fs \in Seq(CDatFile) /\ Len(fs) = n /\ \A j \in 1 .. n : fs[j] = IF j = n THEN ended ELSE files[j]
  BY <1>1, <1>3, ExceptSeq
<1>5. [FileId |-> nextId, LastShareId |-> 0] \in CDatFile
  BY <1>1 DEF CDatFile
<1>6. Rotated = Append(fs, [FileId |-> nextId, LastShareId |-> 0])
  BY DEF Rotated, ended
<1> HIDE DEF fs
<1> QED
  BY <1>1, <1>3, <1>4, <1>5, <1>6, AppendProperties

LEMMA FlushShareLogCleans ==
    ASSUME TypeOK, FlushShareLog
    PROVE  \E l, fs, k :
             /\ Extended(l, Len(buffer)) /\ \A p \in DOMAIN l \ DOMAIN log : l[p].whole
             /\ fs = files \/ (fs = Rotated /\ \A i \in DOMAIN files : files[i].FileId # nextId)
             /\ fs \in Seq(CDatFile) /\ fs # <<>>
             /\ Cleaned(l, fs, k)
<1> DEFINE l == Appended(Len(buffer), FALSE)
<1>1. PICK fs \in {files, Rotated} :
          /\ fs # files => \A i \in DOMAIN files : files[i].FileId # nextId
          /\ files' = SubSeq(fs, Old(fs) + 1, Len(fs))
          /\ log' = [p \in {p \in DOMAIN l : l[p].file \in {files'[i].FileId : i \in DOMAIN files'}} |-> l[p]]
  BY DEF FlushShareLog
<1>2. Len(buffer) \in 0 .. Len(buffer)
  BY DEF TypeOK
<1>3. Extended(l, Len(buffer)) /\ \A p \in DOMAIN l \ DOMAIN log : l[p].whole
  BY <1>2, AppendedExtends
<1> HIDE DEF l
<1>4. fs \in Seq(CDatFile) /\ fs # <<>> /\ Len(fs) \in Nat \ {0}
  BY <1>1, RotatedIs, SMTT(30) DEF TypeOK
<1>5. /\ Old(fs) \in 0 .. Len(fs) - 1
      /\ \A i \in 1 .. Old(fs) : fs[i].LastShareId < savedId
  BY <1>4, OldIsSaved
<1>6. /\ files' \in Seq(CDatFile) /\ Len(files') = Len(fs) - Old(fs) /\ files' # <<>>
      /\ \A i \in 1 .. Len(fs) - Old(fs) : files'[i] = fs[i + Old(fs)]
  <2>1. \A i \in Old(fs) + 1 .. Len(fs) : fs[i] \in CDatFile
    BY <1>4, <1>5, ElementOfSeq
  <2>3. /\ files' \in Seq(CDatFile) /\ Len(files') = Len(fs) - (Old(fs) + 1) + 1
        /\ \A i \in 1 .. Len(fs) - (Old(fs) + 1) + 1 : files'[i] = fs[(Old(fs) + 1) + i - 1]
    BY <1>1, <1>4, <1>5, SubSeqProperties
  <2>4. /\ Len(fs) - (Old(fs) + 1) + 1 = Len(fs) - Old(fs) /\ Len(fs) - Old(fs) > 0
        /\ \A i \in 1 .. Len(fs) - Old(fs) : (Old(fs) + 1) + i - 1 = i + Old(fs)
    BY <1>4, <1>5
  <2> QED
    BY <2>3, <2>4
<1>7. /\ DOMAIN log' \subseteq DOMAIN l /\ \A p \in DOMAIN log' : log'[p] = l[p]
      /\ log' = [p \in DOMAIN log' |-> log'[p]]
      /\ \A p \in DOMAIN l : p \in DOMAIN log' <=> \E i \in DOMAIN files' : l[p].file = files'[i].FileId
  BY <1>1
<1> QED
  BY <1>1, <1>3, <1>4, <1>5, <1>6, <1>7, ZenonT(60) DEF Cleaned

----------------------------------------------------------------------------
(* Types.                                                                  *)

\* The log and the buffer after the log was extended, and what is in the buffer.
LEMMA HeldIsTyped ==
    ASSUME TypeOK
    PROVE  /\ \A i \in DOMAIN buffer : buffer[i].id \in Nat \ {0} /\ buffer[i].msg \in Messages
           /\ \A r \in Held : r[1] \in Nat \ {0} /\ r[2] \in Messages /\ r[2] \in Nat
<1>1. buffer \in Seq([id : Nat \ {0}, msg : Messages])
  BY DEF TypeOK
<1>2. DOMAIN buffer = 1 .. Len(buffer)
  BY <1>1
<1>3. \A i \in DOMAIN buffer : buffer[i] \in [id : Nat \ {0}, msg : Messages]
  BY <1>1, <1>2, ElementOfSeq
<1>4. \A p \in DOMAIN log : log[p].id \in Nat \ {0} /\ log[p].msg \in Messages
  <2>1. log \in [DOMAIN log -> LogRecord]
    BY DEF TypeOK
  <2> QED
    BY <2>1 DEF LogRecord
<1>5. Messages \subseteq Nat
  BY WorkLogAssumptions DEF Messages
<1>6. ASSUME NEW r \in Held
      PROVE  r[1] \in Nat \ {0} /\ r[2] \in Messages
  <2>1. CASE \E p \in DOMAIN log : r = <<log[p].id, log[p].msg>>
    BY <1>4, <2>1
  <2>2. CASE \E i \in DOMAIN buffer : r = <<buffer[i].id, buffer[i].msg>>
    BY <1>3, <2>2
  <2> QED
    BY <1>6, <2>1, <2>2 DEF Held
<1> QED
  BY <1>3, <1>5, <1>6

\* The state with a batch applied.
LEMMA AppliedBatch ==
    ASSUME NEW s \in AccountingState, NEW m \in Messages, NEW id \in Nat, s.last < id
    PROVE  LET t == ApplyBatch(s, m, id)
           IN  /\ t \in AccountingState /\ t.last = id
               /\ t.rounds = s.rounds /\ t.paid = s.paid
               /\ \A x \in Messages : t.scores[x] = s.scores[x] + IF x = m THEN 1 ELSE 0
               /\ \A x \in Messages : t.pending[x] = s.pending[x] + IF x = m /\ pps THEN 1 ELSE 0
               /\ t.meta = s.meta \cup IF pps THEN {m} ELSE {}
<1> DEFINE times == [NoWork EXCEPT ![m] = 1]
           u == Processed(s, times)
<1>1. times \in [Messages -> Nat] /\ \A x \in Messages : times[x] = IF x = m THEN 1 ELSE 0
  BY DEF NoWork
<1>2. {x \in Messages : times[x] > 0} = {m}
  BY <1>1
<1> HIDE DEF times
<1>3. /\ u \in AccountingState /\ u.rounds = s.rounds /\ u.paid = s.paid
      /\ \A x \in Messages : u.scores[x] = s.scores[x] + times[x]
      /\ \A x \in Messages : u.pending[x] = s.pending[x] + IF pps THEN times[x] ELSE 0
      /\ u.meta = s.meta \cup IF pps THEN {m} ELSE {}
  BY <1>1, <1>2, ProcessedAdds
<1>4. s.last \in Nat
  BY DEF AccountingState
<1>5. ApplyBatch(s, m, id) = [u EXCEPT !.last = id]
  BY <1>4 DEF ApplyBatch, times
<1> HIDE DEF u
<1>6. LET t == ApplyBatch(s, m, id)
      IN  /\ t \in AccountingState /\ t.last = id /\ t.scores = u.scores /\ t.rounds = u.rounds
          /\ t.meta = u.meta /\ t.pending = u.pending /\ t.paid = u.paid
  BY <1>3, <1>5 DEF AccountingState
<1> QED
  BY <1>1, <1>3, <1>6

\* The state after a block was found (OnBlockFound): the same batches, in rounds.
Closed(s) == [s EXCEPT !.rounds = [m \in Messages |-> @[m] + s.scores[m]], !.scores = NoWork]

LEMMA ClosedIs ==
    ASSUME NEW s \in AccountingState
    PROVE  /\ Closed(s) \in AccountingState /\ Closed(s).last = s.last
           /\ \A m \in Messages : Closed(s).scores[m] = 0 /\ Closed(s).rounds[m] = s.rounds[m] + s.scores[m]
           /\ Closed(s).meta = s.meta /\ Closed(s).pending = s.pending /\ Closed(s).paid = s.paid
<1> DEFINE rounds == [m \in Messages |-> s.rounds[m] + s.scores[m]]
<1>1. rounds \in [Messages -> Nat] /\ NoWork \in [Messages -> Nat] /\ \A m \in Messages : NoWork[m] = 0
  BY DEF AccountingState, NoWork
<1>2. Closed(s) = [s EXCEPT !.rounds = rounds, !.scores = NoWork]
  BY DEF Closed
<1>3. \A m \in Messages : rounds[m] = s.rounds[m] + s.scores[m]
  OBVIOUS
<1> HIDE DEF rounds
<1> QED
  BY <1>1, <1>2, <1>3 DEF AccountingState

\* The state after ppsPayout: the pending money is in the balances.
LEMMA RewardedIs ==
    ASSUME NEW s \in AccountingState
    PROVE  /\ Rewarded(s) \in AccountingState /\ Rewarded(s).last = s.last
           /\ \A m \in Messages : Rewarded(s).pending[m] = 0 /\ Rewarded(s).paid[m] = s.paid[m] + s.pending[m]
           /\ Rewarded(s).meta = s.meta /\ Rewarded(s).scores = s.scores /\ Rewarded(s).rounds = s.rounds
<1> DEFINE paid == [m \in Messages |-> s.paid[m] + s.pending[m]]
<1>1. paid \in [Messages -> Nat] /\ NoWork \in [Messages -> Nat] /\ \A m \in Messages : NoWork[m] = 0
  BY DEF AccountingState, NoWork
<1>2. Rewarded(s) = [s EXCEPT !.paid = paid, !.pending = NoWork]
  BY DEF Rewarded
<1>3. \A m \in Messages : paid[m] = s.paid[m] + s.pending[m]
  OBVIOUS
<1> HIDE DEF paid
<1> QED
  BY <1>1, <1>2, <1>3 DEF AccountingState

\* What the three steps have in common that save the state: s is in memory and
\* on disk, with the batches and the last id of before.
Saves(s) ==
    /\ s \in AccountingState /\ s.last = state.last /\ Counted(s) = Counted(state) /\ s.meta = state.meta
    /\ \A m \in Messages : s.scores[m] + s.rounds[m] = state.scores[m] + state.rounds[m]
    /\ \A m \in Messages : s.pending[m] + s.paid[m] = state.pending[m] + state.paid[m]
    /\ SaveState(s)
    /\ UNCHANGED <<logVars, statsVars, pps, switches, received, crashes>>

LEMMA SavingSteps ==
    ASSUME TypeOK
    PROVE  /\ FlushState => Saves(state) /\ UNCHANGED payoutsDb
           /\ OnBlockFound => /\ Saves(Closed(state)) /\ UNCHANGED payoutsDb
                              /\ Closed(state).paid = state.paid
                              /\ \A m \in Messages : Closed(state).rounds[m] > 0 <=> m \in Counted(state)
           /\ PpsPayout => /\ Saves(Rewarded(state)) /\ payoutsDb' = payoutsDb \cup Pending
                           /\ Rewarded(state).rounds = state.rounds
                           /\ \A m \in Messages : Rewarded(state).paid[m] = state.paid[m] + state.pending[m]
<1>1. state \in AccountingState
  BY DEF TypeOK
<1>2. \A m \in Messages : /\ state.scores[m] \in Nat /\ state.rounds[m] \in Nat
                          /\ state.pending[m] \in Nat /\ state.paid[m] \in Nat
  BY <1>1 DEF AccountingState
<1>3. ASSUME FlushState PROVE Saves(state) /\ UNCHANGED payoutsDb
  BY <1>1, <1>3 DEF FlushState, Saves, ppsVars
<1>4. ASSUME OnBlockFound
      PROVE  /\ Saves(Closed(state)) /\ UNCHANGED payoutsDb
             /\ Closed(state).paid = state.paid
             /\ \A m \in Messages : Closed(state).rounds[m] > 0 <=> m \in Counted(state)
  <2>1. \A m \in Messages : Closed(state).scores[m] + Closed(state).rounds[m] = state.scores[m] + state.rounds[m]
    BY <1>1, <1>2, ClosedIs
  <2>2. \A m \in Messages : Closed(state).rounds[m] > 0 <=> m \in Counted(state)
    BY <1>1, <1>2, ClosedIs DEF Counted
  <2>3. Counted(Closed(state)) = Counted(state)
    BY <2>1 DEF Counted
  <2>4. SaveState(Closed(state)) /\ UNCHANGED <<logVars, statsVars, ppsVars, received, crashes>>
    BY <1>4 DEF OnBlockFound, Closed
  <2> QED
    BY <1>1, <2>1, <2>2, <2>3, <2>4, ClosedIs DEF Saves, ppsVars
<1>5. ASSUME PpsPayout
      PROVE  /\ Saves(Rewarded(state)) /\ payoutsDb' = payoutsDb \cup Pending
             /\ Rewarded(state).rounds = state.rounds
             /\ \A m \in Messages : Rewarded(state).paid[m] = state.paid[m] + state.pending[m]
  <2>1. \A m \in Messages : Rewarded(state).pending[m] + Rewarded(state).paid[m] = state.pending[m] + state.paid[m]
    BY <1>1, <1>2, RewardedIs
  <2>2. Counted(Rewarded(state)) = Counted(state)
    BY <1>1, RewardedIs DEF Counted
  <2>3. /\ SaveState(Rewarded(state)) /\ payoutsDb' = payoutsDb \cup Pending
        /\ UNCHANGED <<logVars, statsVars, pps, switches, received, crashes>>
    BY <1>5 DEF PpsPayout
  <2> QED
    BY <1>1, <2>1, <2>2, <2>3, RewardedIs DEF Saves
<1> QED
  BY <1>3, <1>4, <1>5

LEMMA SavesKeepsTypes ==
    ASSUME TypeOK, NEW s, Saves(s), payoutsDb' \subseteq Messages
    PROVE  TypeOK'
<1>1. Counted(s) \subseteq Messages
  BY DEF Counted
<1>2. s.last \in Nat
  BY DEF Saves, AccountingState
<1>3. state' = s /\ diskState' = s /\ savedId' = s.last /\ written' = written \cup Counted(s)
  BY DEF Saves, SaveState
<1>4. s \in AccountingState /\ UNCHANGED <<logVars, statsVars, pps, switches, received, crashes>>
  BY DEF Saves
<1> QED
  BY <1>1, <1>2, <1>3, <1>4 DEF TypeOK, logVars, statsVars

LEMMA TypeInit == Init => TypeOK
<1> SUFFICES ASSUME Init PROVE TypeOK
  OBVIOUS
<1>1. IsFiniteSet(DOMAIN log) /\ DOMAIN log = {} /\ log \in [DOMAIN log -> LogRecord]
  BY FS_EmptySet DEF Init
<1>2. files \in Seq(CDatFile) /\ files # <<>>
  BY DEF Init, CDatFile
<1>3. state \in AccountingState
  BY DEF Init, AccountingState, NoWork
<1> QED
  BY <1>1, <1>2, <1>3, WorkLogAssumptions DEF Init, TypeOK

LEMMA TypeReload ==
    ASSUME TypeOK, OneRecord, NEW n \in 0 .. Len(buffer), NEW torn \in BOOLEAN,
           torn => n < Len(buffer), Reload(n, torn),
           diskState' = diskState, payoutsDb' \subseteq Messages
    PROVE  TypeOK'
<1>1. /\ IsFiniteSet(DOMAIN log') /\ DOMAIN log' \subseteq Nat \ {0} /\ log' \in [DOMAIN log' -> LogRecord]
      /\ buffer' = <<>>
  BY ReloadReplaysLog DEF Extended
<1>2. files' \in Seq(CDatFile) /\ files' # <<>>
  BY ReloadFiles
<1>3. nextId' \in Nat \ {0} /\ statsAccepted' \in Nat /\ statsSaved' \in Nat /\ diskStats' \in Nat
  BY ReloadIds
<1>4. state' \in AccountingState /\ savedId' \in Nat
  <2>1. state' \in AccountingState /\ savedId' = diskState.last
    BY ReloadState
  <2>2. diskState.last \in Nat
    BY DEF TypeOK, AccountingState
  <2> QED
    BY <2>1, <2>2
<1>5. crashes' \in 0 .. MaxCrashes
  <2>1. crashes < MaxCrashes /\ crashes' = crashes + 1
    BY DEF Reload
  <2> QED
    BY <2>1, WorkLogAssumptions, SMTT(30) DEF TypeOK
<1>6. written' \subseteq Messages
  <2>1. \A i \in 1 .. n : i \in DOMAIN buffer
    BY DEF TypeOK
  <2>2. written' = written \cup {buffer[i].msg : i \in 1 .. n}
    BY DEF Reload
  <2> QED
    BY <2>1, <2>2, HeldIsTyped DEF TypeOK
<1>7. UNCHANGED <<pps, switches, received>>
  BY DEF Reload
<1>8. buffer' \in Seq([id : Nat \ {0}, msg : Messages])
  BY <1>1
<1> QED
  BY <1>1, <1>2, <1>3, <1>4, <1>5, <1>6, <1>7, <1>8 DEF TypeOK

\* A restart is a Reload, with or without the payout rows written before it.
LEMMA RestartIsReload ==
    ASSUME TypeOK,
           \/ RestartInPpsPayout
           \/ \E n \in 0 .. Len(buffer), torn \in {FALSE, TornWrites} :
                 (torn => n < Len(buffer)) /\ Restart(n, torn)
    PROVE  \E n \in 0 .. Len(buffer), torn \in BOOLEAN :
               /\ (torn => n < Len(buffer)) /\ (torn => TornWrites) /\ Reload(n, torn)
               /\ diskState' = diskState /\ payoutsDb \subseteq payoutsDb' /\ payoutsDb' \subseteq payoutsDb \cup Pending
<1>1. CASE RestartInPpsPayout
  <2>1. Reload(0, FALSE) /\ diskState' = diskState /\ payoutsDb' = payoutsDb \cup Pending
    BY <1>1 DEF RestartInPpsPayout
  <2>2. 0 \in 0 .. Len(buffer)
    BY DEF TypeOK
  <2> QED
    BY <2>1, <2>2
<1>2. ASSUME NEW n \in 0 .. Len(buffer), NEW torn \in {FALSE, TornWrites},
             torn => n < Len(buffer), Restart(n, torn)
      PROVE  \E m \in 0 .. Len(buffer), t \in BOOLEAN :
               /\ (t => m < Len(buffer)) /\ (t => TornWrites) /\ Reload(m, t)
               /\ diskState' = diskState /\ payoutsDb \subseteq payoutsDb' /\ payoutsDb' \subseteq payoutsDb \cup Pending
  <2>1. torn \in BOOLEAN /\ (torn => TornWrites)
    <3>1. torn = FALSE \/ torn = TornWrites
      OBVIOUS
    <3>2. TornWrites \in BOOLEAN
      BY WorkLogAssumptions
    <3>3. CASE torn = FALSE
      BY <3>3
    <3>4. CASE torn = TornWrites
      <4>1. torn \in BOOLEAN
        BY <3>2, <3>4
      <4>2. torn => TornWrites
        BY <3>4
      <4> QED
        BY <4>1, <4>2
    <3> QED
      BY <3>1, <3>3, <3>4
  <2>2. Reload(n, torn) /\ diskState' = diskState /\ payoutsDb' = payoutsDb
    BY <1>2 DEF Restart
  <2> QED
    BY <1>2, <2>1, <2>2
<1> QED
  BY <1>1, <1>2

\* Nothing leaves its type.
LEMMA TypeNext == TypeOK /\ OneRecord /\ [Next]_vars => TypeOK'
<1> SUFFICES ASSUME TypeOK, OneRecord, [Next]_vars PROVE TypeOK'
  OBVIOUS
<1>1. CASE OnUserWorkSummary
  <2> DEFINE m == received + 1
  <2>1. m \in Messages /\ m \in 0 .. MaxMessages /\ nextId \in Nat \ {0} /\ nextId + 1 \in Nat \ {0}
    BY <1>1, WorkLogAssumptions, SMTT(30) DEF OnUserWorkSummary, TypeOK, Messages
  <2>2. buffer' \in Seq([id : Nat \ {0}, msg : Messages])
    <3>1. buffer \in Seq([id : Nat \ {0}, msg : Messages]) /\ [id |-> nextId, msg |-> m] \in [id : Nat \ {0}, msg : Messages]
      BY <2>1 DEF TypeOK
    <3>2. buffer' = Append(buffer, [id |-> nextId, msg |-> m])
      BY <1>1 DEF OnUserWorkSummary
    <3> QED
      BY <3>1, <3>2, AppendProperties
  <2>3. state' \in AccountingState
    <3>1. state' = ApplyBatch(state, m, nextId) /\ state \in AccountingState
      BY <1>1 DEF OnUserWorkSummary, TypeOK
    <3>2. state.last \in Nat
      BY <3>1 DEF AccountingState
    <3>3. nextId <= state.last => state' = state
      BY <3>1 DEF ApplyBatch
    <3>4. ~(nextId <= state.last) => state.last < nextId
      BY <2>1, <3>2
    <3>5. ~(nextId <= state.last) => state' \in AccountingState
      BY <2>1, <3>1, <3>4, AppliedBatch
    <3> QED
      BY <3>1, <3>3, <3>5
  <2>4. statsAccepted' \in Nat
    <3>1. statsAccepted' = Max({statsAccepted, nextId}) /\ statsAccepted \in Nat /\ nextId \in Nat
      BY <1>1, <2>1 DEF OnUserWorkSummary, TypeOK
    <3> QED
      BY <3>1, MaxOfTwo
  <2> QED
    BY <1>1, <2>1, <2>2, <2>3, <2>4 DEF OnUserWorkSummary, TypeOK, ppsVars
<1>2. CASE FlushShareLog
  <2>1. PICK l, fs, k : Extended(l, Len(buffer)) /\ Cleaned(l, fs, k)
    BY <1>2, FlushShareLogCleans
  <2>2. /\ IsFiniteSet(DOMAIN l) /\ DOMAIN l \subseteq Nat \ {0} /\ l \in [DOMAIN l -> LogRecord]
        /\ DOMAIN log' \subseteq DOMAIN l /\ \A p \in DOMAIN log' : log'[p] = l[p]
        /\ log' = [p \in DOMAIN log' |-> log'[p]]
        /\ files' \in Seq(CDatFile) /\ files' # <<>>
    BY <2>1 DEF Extended, Cleaned
  <2>3. IsFiniteSet(DOMAIN log') /\ DOMAIN log' \subseteq Nat \ {0} /\ log' \in [DOMAIN log' -> LogRecord]
    <3>1. DOMAIN log' \in SUBSET DOMAIN l
      BY <2>2
    <3>2. IsFiniteSet(DOMAIN log')
      BY <2>2, <3>1, FS_Subset
    <3>3. \A p \in DOMAIN log' : log'[p] \in LogRecord
      BY <2>2
    <3> QED
      BY <2>2, <3>2, <3>3
  <2>4. /\ written' = written \cup {buffer[i].msg : i \in DOMAIN buffer} /\ buffer' = <<>>
        /\ UNCHANGED <<nextId, stateVars, statsVars, ppsVars, received, crashes>>
    BY <1>2 DEF FlushShareLog
  <2>5. written' \subseteq Messages
    BY <2>4, HeldIsTyped DEF TypeOK
  <2>6. buffer' \in Seq([id : Nat \ {0}, msg : Messages])
    BY <2>4
  <2> QED
    BY <2>2, <2>3, <2>4, <2>5, <2>6 DEF TypeOK, stateVars, statsVars, ppsVars
<1>3. CASE FlushState \/ OnBlockFound \/ PpsPayout
  <2>1. \E s : Saves(s) /\ payoutsDb' \subseteq payoutsDb \cup Pending
    BY <1>3, SavingSteps
  <2>2. payoutsDb \cup Pending \subseteq Messages
    BY DEF TypeOK, Pending
  <2> QED
    BY <2>1, <2>2, SavesKeepsTypes
<1>4. CASE FlushUserStats
  <2>1. statsAccepted \in Nat /\ statsSaved' = statsAccepted /\ diskStats' \in StatsOnDisk(statsAccepted)
    BY <1>4 DEF FlushUserStats, TypeOK
  <2>2. diskStats' \in Nat
    BY <2>1, StatsOnDiskIs
  <2> QED
    BY <1>4, <2>1, <2>2 DEF FlushUserStats, TypeOK, logVars, stateVars, ppsVars
<1>5. CASE OnUserSettingsUpdate
  <2>1. switches' \in 0 .. MaxSwitches /\ pps' \in BOOLEAN
    BY <1>5, WorkLogAssumptions, SMTT(30) DEF OnUserSettingsUpdate, TypeOK
  <2> QED
    BY <1>5, <2>1 DEF OnUserSettingsUpdate, TypeOK, logVars, stateVars, statsVars
<1>6. CASE \/ RestartInPpsPayout
           \/ \E n \in 0 .. Len(buffer), torn \in {FALSE, TornWrites} :
                 (torn => n < Len(buffer)) /\ Restart(n, torn)
  <2>1. payoutsDb \cup Pending \subseteq Messages
    BY DEF TypeOK, Pending
  <2> QED
    BY <1>6, <2>1, RestartIsReload, TypeReload
<1>7. CASE UNCHANGED vars
  BY <1>7 DEF vars, TypeOK, logVars, stateVars, statsVars, ppsVars
<1> QED
  BY <1>1, <1>2, <1>3, <1>4, <1>5, <1>6, <1>7 DEF Next

----------------------------------------------------------------------------
(* No batch counts twice.                                                  *)

\* A flush or a restart only moves records from the buffer to the log, or drops them.
LEMMA RecordsMove ==
    ASSUME TypeOK, OneRecord, NEW n \in Nat, NEW l, Extended(l, n),
           buffer' = <<>>, DOMAIN log' \subseteq DOMAIN l, \A p \in DOMAIN log' : log'[p] = l[p]
    PROVE  /\ OneRecord' /\ Held' \subseteq Held
           /\ Held' = {<<l[p].id, l[p].msg>> : p \in DOMAIN log'}
<1>1. /\ \A p \in DOMAIN l : <<l[p].id, l[p].msg>> \in Held
      /\ \A p, q \in DOMAIN l : l[p].msg = l[q].msg => p = q
  BY ExtendedIsHeld
<1>2. DOMAIN buffer' = {}
  OBVIOUS
<1>3. OneRecord'
  BY <1>1, <1>2 DEF OneRecord
<1>4. Held' = {<<l[p].id, l[p].msg>> : p \in DOMAIN log'}
  BY <1>2 DEF Held
<1> QED
  BY <1>1, <1>3, <1>4

\* A state that is saved stays sound, in memory and on disk.
LEMMA SavesIsSound ==
    ASSUME TypeOK, Sound(state, Held), NEW s, Saves(s)
    PROVE  Sound(s, Held)
<1>1. /\ s.last = state.last /\ Counted(s) = Counted(state) /\ s.meta = state.meta
      /\ \A m \in Messages : s.scores[m] + s.rounds[m] = state.scores[m] + state.rounds[m]
      /\ \A m \in Messages : s.pending[m] + s.paid[m] = state.pending[m] + state.paid[m]
  BY DEF Saves
<1> QED
  BY <1>1 DEF Sound

LEMMA AccountSaves ==
    ASSUME TypeOK, AccountInv, NEW s, Saves(s), payoutsDb \subseteq payoutsDb',
           \A m \in Messages : s.paid[m] > 0 => m \in payoutsDb'
    PROVE  AccountInv'
<1>1. /\ state' = s /\ diskState' = s /\ savedId' = s.last
      /\ UNCHANGED <<log, files, buffer, nextId, statsAccepted, received>>
  BY DEF Saves, SaveState, logVars, statsVars
<1>2. s.last = state.last /\ Counted(s) = Counted(state) /\ s \in AccountingState
  BY DEF Saves
<1>3. Sound(s, Held)
  BY SavesIsSound DEF AccountInv
<1>4. Held' = Held /\ (OneRecord <=> OneRecord')
  BY <1>1 DEF Held, OneRecord
<1>5. Sound(state', Held') /\ Sound(diskState', Held')
  BY <1>1, <1>3, <1>4
<1>6. PaymentsAreListed'
  <2> SUFFICES ASSUME NEW m \in Messages, s.paid[m] + s.paid[m] > 0 PROVE m \in payoutsDb'
    BY <1>1 DEF PaymentsAreListed
  <2>1. s.paid[m] \in Nat
    BY <1>2 DEF AccountingState
  <2> QED
    BY <2>1
<1>7. Counted(state') \cup Counted(diskState') \subseteq 1 .. received'
  BY <1>1, <1>2 DEF AccountInv
<1> QED
  BY <1>1, <1>2, <1>4, <1>5, <1>6, <1>7 DEF AccountInv

LEMMA AccountInit == Init => AccountInv
<1> SUFFICES ASSUME Init PROVE AccountInv
  OBVIOUS
<1>1. /\ state = diskState /\ state.meta = {} /\ state.last = 0 /\ savedId = 0
      /\ state.scores = NoWork /\ state.rounds = NoWork /\ state.pending = NoWork /\ state.paid = NoWork
  BY DEF Init
<1>2. \A m \in Messages : NoWork[m] = 0
  BY DEF NoWork
<1>3. DOMAIN log = {} /\ DOMAIN buffer = {}
  BY DEF Init
<1>4. Held = {} /\ OneRecord
  BY <1>3 DEF Held, OneRecord
<1>5. Counted(state) = {} /\ PaymentsAreListed
  BY <1>1, <1>2 DEF Counted, PaymentsAreListed
<1>6. Sound(state, Held)
  BY <1>1, <1>2, <1>4 DEF Sound
<1>7. nextId = 1 /\ statsAccepted = 0
  BY DEF Init
<1> QED
  BY <1>1, <1>4, <1>5, <1>6, <1>7 DEF AccountInv

\* A batch that arrives is new to the state, to the log and to the statistics.
LEMMA AccountReceives ==
    ASSUME TypeOK, AccountInv, OnUserWorkSummary
    PROVE  /\ AccountInv' /\ Held' = Held \cup {<<nextId, received'>>} /\ Counted(state') = Counted(state) \cup {received'}
           /\ state'.last = nextId /\ state'.rounds = state.rounds /\ received' \notin Counted(state)
<1> DEFINE m == received + 1
           r == [id |-> nextId, msg |-> m]
<1>1. /\ m \in Messages /\ received' = m /\ buffer' = Append(buffer, r) /\ nextId' = nextId + 1
      /\ state' = ApplyBatch(state, m, nextId) /\ statsAccepted' = Max({statsAccepted, nextId})
      /\ UNCHANGED <<log, files, savedId, diskState, payoutsDb, pps>>
  BY DEF OnUserWorkSummary, ppsVars
<1>2. /\ state \in AccountingState /\ diskState \in AccountingState /\ nextId \in Nat \ {0} /\ received \in Nat
      /\ statsAccepted \in Nat
  BY DEF TypeOK
<1>3. state.last < nextId /\ statsAccepted < nextId
  BY DEF AccountInv
<1>4. /\ state' \in AccountingState /\ state'.last = nextId
      /\ state'.rounds = state.rounds /\ state'.paid = state.paid
      /\ \A x \in Messages : state'.scores[x] = state.scores[x] + IF x = m THEN 1 ELSE 0
      /\ \A x \in Messages : state'.pending[x] = state.pending[x] + IF x = m /\ pps THEN 1 ELSE 0
      /\ state'.meta = state.meta \cup IF pps THEN {m} ELSE {}
  BY <1>1, <1>2, <1>3, AppliedBatch
<1>5. /\ Counted(state) \subseteq 1 .. received /\ Counted(diskState) \subseteq 1 .. received
      /\ m \notin 1 .. received /\ \A x \in 1 .. received : x \in 1 .. m
  BY <1>2 DEF AccountInv
<1>6. /\ DOMAIN buffer = 1 .. Len(buffer) /\ Len(buffer) \in Nat
      /\ DOMAIN buffer' = 1 .. Len(buffer) + 1
      /\ \A i \in DOMAIN buffer : buffer'[i] = buffer[i]
      /\ buffer'[Len(buffer) + 1] = r
  BY <1>1, AppendProperties, SMTT(30) DEF TypeOK
<1>7. Held' = Held \cup {<<nextId, m>>}
  BY <1>1, <1>6 DEF Held
<1>8. \A x \in Messages : /\ state.scores[x] \in Nat /\ state.rounds[x] \in Nat
                          /\ state.pending[x] \in Nat /\ state.paid[x] \in Nat
  BY <1>2 DEF AccountingState
<1>9. Counted(state') = Counted(state) \cup {m}
  <2>1. \A x \in Messages : state'.scores[x] + state'.rounds[x] > 0 <=>
            (x = m \/ state.scores[x] + state.rounds[x] > 0)
    BY <1>4, <1>8
  <2> QED
    BY <1>1, <2>1 DEF Counted
<1>10. OneRecord'
  <2>1. \A x \in Held : x[2] # m
    BY <1>2 DEF AccountInv
  <2>2. /\ \A p \in DOMAIN log : log[p].msg # m
        /\ \A i \in DOMAIN buffer : buffer[i].msg # m
    <3>1. \A p \in DOMAIN log : <<log[p].id, log[p].msg>> \in Held
      BY DEF Held
    <3>2. \A i \in DOMAIN buffer : <<buffer[i].id, buffer[i].msg>> \in Held
      BY DEF Held
    <3> QED
      BY <2>1, <3>1, <3>2
  <2>3. OneRecord
    BY DEF AccountInv
  <2>4. \A i \in DOMAIN buffer' : i \in DOMAIN buffer \/ i = Len(buffer) + 1
    BY <1>6
  <2> QED
    BY <1>1, <1>6, <2>2, <2>3, <2>4 DEF OneRecord
<1>11. m \notin state.meta /\ m \notin Counted(state) /\ m \notin Counted(diskState)
  BY <1>5 DEF AccountInv, Sound
<1>12. Sound(state', Held')
  <2>1. /\ \A x \in Messages : state.scores[x] + state.rounds[x] <= 1
        /\ \A x \in Messages : state.pending[x] + state.paid[x] = IF x \in state.meta THEN 1 ELSE 0
        /\ state.meta \subseteq Counted(state)
        /\ \A x \in Held : x[2] \in Counted(state) => x[1] <= state.last
    BY DEF AccountInv, Sound
  <2>2. state.scores[m] + state.rounds[m] = 0
    BY <1>1, <1>8, <1>11 DEF Counted
  <2>3. \A x \in Messages : state'.scores[x] + state'.rounds[x] <= 1
    BY <1>4, <1>8, <2>1, <2>2
  <2>4. \A x \in Messages : state'.pending[x] + state'.paid[x] = IF x \in state'.meta THEN 1 ELSE 0
    BY <1>4, <1>8, <1>11, <2>1
  <2>5. state'.meta \subseteq Counted(state')
    BY <1>4, <1>9, <2>1
  <2>6. \A x \in Held' : x[2] \in Counted(state') => x[1] <= state'.last
    <3> SUFFICES ASSUME NEW x \in Held', x[2] \in Counted(state') PROVE x[1] <= nextId
      BY <1>4
    <3>1. CASE x = <<nextId, m>>
      BY <1>2, <3>1
    <3>2. CASE x \in Held
      <4>1. x[2] # m
        BY <1>2, <3>2 DEF AccountInv
      <4>2. x[1] <= state.last
        BY <1>9, <2>1, <3>2, <4>1
      <4>3. x[1] \in Nat
        BY <3>2, HeldIsTyped
      <4>4. state.last \in Nat
        BY <1>2 DEF AccountingState
      <4> QED
        BY <1>2, <1>3, <4>2, <4>3, <4>4
    <3> QED
      BY <1>7, <3>1, <3>2
  <2> QED
    BY <2>3, <2>4, <2>5, <2>6 DEF Sound
<1>13. Sound(diskState', Held')
  <2>1. Sound(diskState, Held)
    BY DEF AccountInv
  <2> QED
    BY <1>1, <1>7, <1>11, <2>1 DEF Sound
<1>14. \A x \in Held' : x[2] <= received'
  <2>1. \A x \in Held : x[2] <= received /\ x[2] \in Nat
    BY HeldIsTyped DEF AccountInv
  <2> QED
    BY <1>1, <1>2, <1>7, <2>1
<1>15. Counted(state') \cup Counted(diskState') \subseteq 1 .. received'
  BY <1>1, <1>2, <1>5, <1>9
<1>16. state'.last < nextId' /\ statsAccepted' < nextId'
  <2>1. Max({statsAccepted, nextId}) \in {statsAccepted, nextId}
    BY <1>2, MaxOfTwo
  <2> QED
    BY <1>1, <1>2, <1>3, <1>4, <2>1
<1>17. savedId' = diskState'.last /\ diskState'.rounds = state'.rounds /\ PaymentsAreListed'
  BY <1>1, <1>4 DEF AccountInv, PaymentsAreListed
<1> QED
  BY <1>1, <1>4, <1>7, <1>9, <1>10, <1>11, <1>12, <1>13, <1>14, <1>15, <1>16, <1>17 DEF AccountInv

\* What counts after a restart: what the saved state has, and what is replayed,
\* of which the saved state has nothing.
LEMMA ReloadCounts ==
    ASSUME TypeOK, AccountInv, NEW n \in 0 .. Len(buffer), NEW torn \in BOOLEAN,
           torn => n < Len(buffer), Reload(n, torn)
    PROVE  /\ Counted(state') = Counted(diskState) \cup Again(log')
           /\ Again(log') \cap Counted(diskState) = {} /\ Again(log') \subseteq Messages
           /\ \A p \in Taken(log') : <<log'[p].id, log'[p].msg>> \in Held /\ log'[p].id > diskState.last
<1>1. OneRecord /\ Sound(diskState, Held) /\ diskState \in AccountingState
  BY DEF AccountInv, TypeOK
<1>2. Extended(log', n) /\ Taken(log') \subseteq DOMAIN log' /\ n \in Nat
  BY <1>1, ReloadReplaysLog
<1>3. \A p \in DOMAIN log' : <<log'[p].id, log'[p].msg>> \in Held
  BY <1>1, <1>2, ExtendedIsHeld
<1>4. \A p \in Taken(log') : log'[p].id > diskState.last
  BY DEF Taken, Replayed
<1>5. ASSUME NEW p \in Taken(log')
      PROVE  log'[p].msg \notin Counted(diskState) /\ log'[p].msg \in Messages
  <2> DEFINE r == <<log'[p].id, log'[p].msg>>
  <2>1. r \in Held /\ r[1] = log'[p].id /\ r[2] = log'[p].msg
    BY <1>2, <1>3
  <2>2. r[2] \in Counted(diskState) => r[1] <= diskState.last
    BY <1>1, <2>1 DEF Sound
  <2>3. r[1] \in Nat /\ r[2] \in Messages /\ diskState.last \in Nat
    BY <1>1, <2>1, HeldIsTyped DEF AccountingState
  <2> QED
    BY <1>4, <2>1, <2>2, <2>3
<1>6. Again(log') \cap Counted(diskState) = {} /\ Again(log') \subseteq Messages
  BY <1>5 DEF Again
<1>7. /\ state'.rounds = diskState.rounds
      /\ \A m \in Messages : state'.scores[m] = diskState.scores[m] + IF m \in Again(log') THEN 1 ELSE 0
  BY <1>1, ReloadState
<1>8. \A m \in Messages : diskState.scores[m] \in Nat /\ diskState.rounds[m] \in Nat
  BY <1>1 DEF AccountingState
<1>9. \A m \in Messages : state'.scores[m] + state'.rounds[m] > 0 <=>
          (m \in Again(log') \/ diskState.scores[m] + diskState.rounds[m] > 0)
  BY <1>7, <1>8
<1> QED
  BY <1>2, <1>3, <1>4, <1>6, <1>9 DEF Counted

\* However much of the buffer reached the log, and however far replay comes in
\* it, a restart counts no batch twice and pays for none twice.
LEMMA AccountReloads ==
    ASSUME TypeOK, AccountInv, NEW n \in 0 .. Len(buffer), NEW torn \in BOOLEAN,
           torn => n < Len(buffer), Reload(n, torn), diskState' = diskState, payoutsDb \subseteq payoutsDb'
    PROVE  AccountInv' /\ Held' \subseteq Held
<1>1. OneRecord /\ Sound(diskState, Held) /\ diskState \in AccountingState
  BY DEF AccountInv, TypeOK
<1>2. Extended(log', n) /\ buffer' = <<>> /\ n \in Nat /\ Taken(log') \subseteq DOMAIN log'
  BY <1>1, ReloadReplaysLog
<1>3. OneRecord' /\ Held' \subseteq Held /\ Held' = {<<log'[p].id, log'[p].msg>> : p \in DOMAIN log'}
  BY <1>1, <1>2, RecordsMove
<1>4. /\ Counted(state') = Counted(diskState) \cup Again(log')
      /\ Again(log') \cap Counted(diskState) = {} /\ Again(log') \subseteq Messages
      /\ \A p \in Taken(log') : <<log'[p].id, log'[p].msg>> \in Held
  BY ReloadCounts
<1>5. /\ state' \in AccountingState /\ savedId' = diskState.last
      /\ state'.rounds = diskState.rounds /\ state'.paid = diskState.paid
      /\ \A m \in Messages : state'.scores[m] = diskState.scores[m] + IF m \in Again(log') THEN 1 ELSE 0
      /\ \A m \in Messages : state'.pending[m] =
            diskState.pending[m] + IF pps /\ m \in Again(log') THEN 1 ELSE 0
      /\ state'.meta = diskState.meta \cup IF pps THEN Again(log') ELSE {}
      /\ state'.last >= diskState.last
      /\ \A p \in Taken(log') : log'[p].id <= state'.last
  BY <1>1, ReloadState
<1>6. \A m \in Messages : /\ diskState.scores[m] \in Nat /\ diskState.rounds[m] \in Nat
                          /\ diskState.pending[m] \in Nat /\ diskState.paid[m] \in Nat
  BY <1>1 DEF AccountingState
<1>7. /\ \A m \in Messages : diskState.scores[m] + diskState.rounds[m] <= 1
      /\ \A m \in Messages : diskState.pending[m] + diskState.paid[m] = IF m \in diskState.meta THEN 1 ELSE 0
      /\ diskState.meta \subseteq Counted(diskState)
      /\ \A r \in Held : r[2] \in Counted(diskState) => r[1] <= diskState.last
  BY <1>1 DEF Sound
<1>8. Sound(state', Held')
  <2>1. \A m \in Messages : m \in Again(log') =>
            diskState.scores[m] + diskState.rounds[m] = 0 /\ m \notin diskState.meta
    BY <1>4, <1>6, <1>7 DEF Counted
  <2>2. \A m \in Messages : state'.scores[m] + state'.rounds[m] <= 1
    BY <1>5, <1>6, <1>7, <2>1
  <2>3. \A m \in Messages : state'.pending[m] + state'.paid[m] = IF m \in state'.meta THEN 1 ELSE 0
    BY <1>5, <1>6, <1>7, <2>1
  <2>4. state'.meta \subseteq Counted(state')
    BY <1>4, <1>5, <1>7
  <2>5. ASSUME NEW r \in Held', r[2] \in Counted(state')
        PROVE  r[1] <= state'.last
    <3>1. r \in Held /\ r[1] \in Nat /\ diskState.last \in Nat /\ state'.last \in Nat
      BY <1>1, <1>3, <1>5, <2>5, HeldIsTyped DEF AccountingState
    <3>2. CASE r[2] \in Counted(diskState)
      BY <1>5, <1>7, <3>1, <3>2
    <3>3. CASE r[2] \in Again(log')
      <4>1. PICK p \in Taken(log') : log'[p].msg = r[2]
        BY <3>3 DEF Again
      <4>2. PICK q \in DOMAIN log' : r = <<log'[q].id, log'[q].msg>>
        BY <1>3, <2>5
      <4>3. p = q
        BY <1>2, <1>3, <4>1, <4>2 DEF OneRecord
      <4> QED
        BY <1>5, <4>1, <4>2, <4>3
    <3> QED
      BY <1>4, <2>5, <3>2, <3>3
  <2> QED
    BY <2>2, <2>3, <2>4, <2>5 DEF Sound
<1>9. Sound(diskState', Held')
  BY <1>3, <1>7 DEF Sound
<1>10. received' = received /\ \A r \in Held' : r[2] <= received'
  <2>1. received' = received
    BY DEF Reload
  <2> QED
    BY <1>3, <2>1 DEF AccountInv
<1>11. Counted(state') \cup Counted(diskState') \subseteq 1 .. received'
  <2>1. Again(log') \subseteq 1 .. received
    <3> SUFFICES ASSUME NEW p \in Taken(log') PROVE log'[p].msg \in 1 .. received
      BY DEF Again
    <3> DEFINE r == <<log'[p].id, log'[p].msg>>
    <3>1. r \in Held
      BY <1>4
    <3>2. r[2] \in Messages /\ r[2] <= received
      BY <3>1, HeldIsTyped DEF AccountInv
    <3> QED
      BY <3>2, WorkLogAssumptions DEF Messages, TypeOK
  <2> QED
    BY <1>4, <1>10, <2>1 DEF AccountInv
<1>12. state'.last < nextId' /\ statsAccepted' < nextId'
  BY <1>1, ReloadIds
<1>13. PaymentsAreListed'
  <2> SUFFICES ASSUME NEW m \in Messages, diskState.paid[m] + diskState.paid[m] > 0 PROVE m \in payoutsDb'
    BY <1>5 DEF PaymentsAreListed
  <2>1. state.paid[m] \in Nat /\ diskState.paid[m] \in Nat
    BY DEF TypeOK, AccountingState
  <2>2. state.paid[m] + diskState.paid[m] > 0
    BY <2>1
  <2> QED
    BY <2>2 DEF PaymentsAreListed, AccountInv
<1> QED
  BY <1>3, <1>5, <1>8, <1>9, <1>10, <1>11, <1>12, <1>13 DEF AccountInv

\* Every step keeps it that no batch counts twice.
LEMMA AccountNext == TypeOK /\ AccountInv /\ [Next]_vars => AccountInv'
<1> SUFFICES ASSUME TypeOK, AccountInv, [Next]_vars PROVE AccountInv'
  OBVIOUS
<1>1. CASE OnUserWorkSummary
  BY <1>1, AccountReceives
<1>2. CASE FlushShareLog
  <2>1. PICK l, fs, k : Extended(l, Len(buffer)) /\ Cleaned(l, fs, k)
    BY <1>2, FlushShareLogCleans
  <2>2. /\ buffer' = <<>> /\ UNCHANGED <<nextId, stateVars, statsVars, ppsVars, received>>
    BY <1>2 DEF FlushShareLog
  <2>3. DOMAIN log' \subseteq DOMAIN l /\ \A p \in DOMAIN log' : log'[p] = l[p]
    BY <2>1 DEF Cleaned
  <2>4. OneRecord /\ Len(buffer) \in Nat
    BY DEF AccountInv, TypeOK
  <2>5. OneRecord' /\ Held' \subseteq Held
    BY <2>1, <2>2, <2>3, <2>4, RecordsMove
  <2>6. Sound(state, Held) /\ Sound(diskState, Held) /\ UNCHANGED <<state, diskState>>
    BY <2>2 DEF AccountInv, stateVars
  <2>7. Sound(state', Held') /\ Sound(diskState', Held')
    BY <2>5, <2>6 DEF Sound
  <2> QED
    BY <2>2, <2>5, <2>7 DEF AccountInv, PaymentsAreListed, Counted, stateVars, statsVars, ppsVars
<1>3. CASE FlushState
  <2>1. Saves(state) /\ payoutsDb' = payoutsDb
    BY <1>3, SavingSteps
  <2>2. ASSUME NEW m \in Messages, state.paid[m] > 0 PROVE m \in payoutsDb'
    <3>1. state.paid[m] \in Nat /\ diskState.paid[m] \in Nat
      BY DEF TypeOK, AccountingState
    <3> QED
      BY <2>1, <2>2, <3>1 DEF AccountInv, PaymentsAreListed
  <2> QED
    BY <2>1, <2>2, AccountSaves
<1>4. CASE OnBlockFound
  <2>1. Saves(Closed(state)) /\ payoutsDb' = payoutsDb /\ Closed(state).paid = state.paid
    BY <1>4, SavingSteps
  <2>2. ASSUME NEW m \in Messages, state.paid[m] > 0 PROVE m \in payoutsDb'
    <3>1. state.paid[m] \in Nat /\ diskState.paid[m] \in Nat
      BY DEF TypeOK, AccountingState
    <3> QED
      BY <2>1, <2>2, <3>1 DEF AccountInv, PaymentsAreListed
  <2> QED
    BY <2>1, <2>2, AccountSaves
<1>5. CASE PpsPayout
  <2>1. /\ Saves(Rewarded(state)) /\ payoutsDb' = payoutsDb \cup Pending
        /\ \A m \in Messages : Rewarded(state).paid[m] = state.paid[m] + state.pending[m]
    BY <1>5, SavingSteps
  <2>2. ASSUME NEW m \in Messages, Rewarded(state).paid[m] > 0 PROVE m \in payoutsDb'
    <3>1. state.paid[m] \in Nat /\ state.pending[m] \in Nat /\ diskState.paid[m] \in Nat
      BY DEF TypeOK, AccountingState
    <3>2. CASE state.pending[m] > 0
      BY <2>1, <3>2 DEF Pending
    <3>3. CASE state.paid[m] > 0
      BY <2>1, <3>1, <3>3 DEF AccountInv, PaymentsAreListed
    <3> QED
      BY <2>1, <2>2, <3>1, <3>2, <3>3
  <2> QED
    BY <2>1, <2>2, AccountSaves
<1>6. CASE FlushUserStats
  BY <1>6 DEF FlushUserStats, AccountInv, Held, OneRecord, Sound, Counted, PaymentsAreListed,
              logVars, stateVars, ppsVars
<1>7. CASE OnUserSettingsUpdate
  BY <1>7 DEF OnUserSettingsUpdate, AccountInv, Held, OneRecord, Sound, Counted, PaymentsAreListed,
              logVars, stateVars, statsVars
<1>8. CASE \/ RestartInPpsPayout
           \/ \E n \in 0 .. Len(buffer), torn \in {FALSE, TornWrites} :
                 (torn => n < Len(buffer)) /\ Restart(n, torn)
  BY <1>8, RestartIsReload, AccountReloads
<1>9. CASE UNCHANGED vars
  BY <1>9 DEF vars, AccountInv, Held, OneRecord, Sound, Counted, PaymentsAreListed,
              logVars, stateVars, statsVars, ppsVars
<1> QED
  BY <1>1, <1>2, <1>3, <1>4, <1>5, <1>6, <1>7, <1>8, <1>9 DEF Next

\* The accounting's own invariant, whatever a crash leaves in the log.
THEOREM AccountInvHolds == Spec => [](TypeOK /\ AccountInv)
<1>1. TypeOK /\ AccountInv /\ [Next]_vars => TypeOK' /\ AccountInv'
  BY TypeNext, AccountNext DEF AccountInv
<1> QED
  BY <1>1, TypeInit, AccountInit, PTL DEF Spec

\* The types of the share log, of the three sets of ids and of the accounting state.
THEOREM TypeCorrect == Spec => []TypeOK
  BY AccountInvHolds, PTL

\* CountedOnce: no batch is paid for twice, however often the log is replayed
\* over a state that already holds it.
THEOREM CountedOnceHolds == Spec => []CountedOnce
<1>1. AccountInv => CountedOnce
  BY DEF AccountInv, Sound, CountedOnce
<1> QED
  BY <1>1, AccountInvHolds, PTL

\* PaidOneWay: a batch counts for its user or brings the user PPS money, never
\* both, when the mode changes between a crash and the replay, too.
THEOREM PaidOneWayHolds == Spec => []PaidOneWay
<1>1. AccountInv => PaidOneWay
  BY DEF AccountInv, Sound, PaidOneWay
<1> QED
  BY <1>1, AccountInvHolds, PTL

\* PaymentsAreListed: PPS money in a balance has a row in PPSPayoutsDb.
THEOREM PaymentsAreListedHolds == Spec => []PaymentsAreListed
<1>1. AccountInv => PaymentsAreListed
  BY DEF AccountInv
<1> QED
  BY <1>1, AccountInvHolds, PTL

\* NewWorkIsCounted: neither the accounting nor the statistics take the id of a
\* batch that arrives for one they have seen.
THEOREM NewWorkIsCountedHolds == Spec => NewWorkIsCounted
<1> DEFINE Fresh == received' # received =>
                       received' \in Counted(state') /\ statsAccepted' = nextId /\ statsAccepted' > statsAccepted
<1>1. TypeOK /\ AccountInv /\ [Next]_vars => [Fresh]_vars
  <2> SUFFICES ASSUME TypeOK, AccountInv, Next PROVE Fresh
    OBVIOUS
  <2>1. CASE OnUserWorkSummary
    <3>1. received' \in Counted(state')
      BY <2>1, AccountReceives
    <3>2. statsAccepted \in Nat /\ nextId \in Nat /\ statsAccepted < nextId
      BY DEF TypeOK, AccountInv
    <3>3. statsAccepted' = Max({statsAccepted, nextId})
      BY <2>1 DEF OnUserWorkSummary
    <3>4. /\ Max({statsAccepted, nextId}) \in {statsAccepted, nextId}
          /\ Max({statsAccepted, nextId}) >= nextId
      BY <3>2, MaxOfTwo
    <3>5. statsAccepted' = nextId
      BY <3>2, <3>3, <3>4
    <3> QED
      BY <3>1, <3>2, <3>5
  <2>2. CASE FlushShareLog \/ FlushState \/ FlushUserStats \/ OnBlockFound \/ PpsPayout \/ OnUserSettingsUpdate
    BY <2>2 DEF FlushShareLog, FlushState, FlushUserStats, OnBlockFound, PpsPayout, OnUserSettingsUpdate
  <2>3. CASE \/ RestartInPpsPayout
             \/ \E n \in 0 .. Len(buffer), torn \in {FALSE, TornWrites} :
                   (torn => n < Len(buffer)) /\ Restart(n, torn)
    BY <2>3, RestartIsReload DEF Reload
  <2> QED
    BY <2>1, <2>2, <2>3 DEF Next
<1> QED
  BY <1>1, AccountInvHolds, PTL DEF Spec, NewWorkIsCounted

----------------------------------------------------------------------------
(* No batch is forgotten.                                                  *)

\* An id that a restart finds is found after a step that forgets no record
\* except what the saved state has.
LEMMA FoundStays ==
    ASSUME TypeOK, TypeOK', NEW n \in Int, NEW held, NEW kept, Found(n, held),
           diskState.last <= diskState'.last, diskStats <= diskStats',
           \A r \in held : r[1] \in Nat /\ (r \in kept \/ r[1] <= diskState'.last)
    PROVE  n <= diskState'.last \/ n <= diskStats' \/ \E r \in kept : n <= r[1]
<1>1. /\ diskState.last \in Nat /\ diskState'.last \in Nat
      /\ diskStats \in Nat /\ diskStats' \in Nat
  BY DEF TypeOK, AccountingState
<1>2. CASE n <= diskState.last
  BY <1>1, <1>2
<1>3. CASE n <= diskStats
  BY <1>1, <1>3
<1>4. CASE \E r \in held : n <= r[1]
  BY <1>1, <1>4
<1> QED
  BY <1>2, <1>3, <1>4 DEF Found

\* The last file and its place in the deque.
LEMMA LastFile ==
    ASSUME TypeOK
    PROVE  /\ DOMAIN files = 1 .. Len(files) /\ Len(files) \in Nat \ {0}
           /\ Back = files[Len(files)].FileId /\ Back \in Nat \ {0}
           /\ \A i \in DOMAIN files : files[i].FileId \in Nat \ {0} /\ files[i].LastShareId \in Nat
<1>1. files \in Seq(CDatFile) /\ files # <<>> /\ DOMAIN files = 1 .. Len(files) /\ Len(files) \in Nat \ {0}
  BY DEF TypeOK
<1>2. \A i \in 1 .. Len(files) : files[i] \in CDatFile
  BY <1>1, ElementOfSeq
<1> QED
  BY <1>1, <1>2 DEF Back, Last, CDatFile

\* Records that are appended keep the log in order and go to the last file.
LEMMA ExtendedIsOrdered ==
    ASSUME TypeOK, Ordered(log), FilesHold(log, files), BufferFollows,
           NEW n \in Nat, NEW l, Extended(l, n), \A p \in DOMAIN l \ DOMAIN log : l[p].whole
    PROVE  Ordered(l) /\ FilesHold(l, files)
<1>1. /\ DOMAIN log \subseteq DOMAIN l /\ \A p \in DOMAIN log : l[p] = log[p]
      /\ \A p \in DOMAIN log, q \in DOMAIN l \ DOMAIN log : p < q
      /\ l \in [DOMAIN l -> LogRecord] /\ DOMAIN l \subseteq Nat \ {0}
  BY DEF Extended
<1>2. \A p \in DOMAIN l \ DOMAIN log : \E i \in DOMAIN buffer :
          p = End(log) + i - 1 /\ l[p].id = buffer[i].id /\ l[p].file = Back
  BY DEF Extended
<1>3. /\ DOMAIN files = 1 .. Len(files) /\ Len(files) \in Nat \ {0}
      /\ Back = files[Len(files)].FileId /\ Back \in Nat \ {0}
      /\ \A i \in DOMAIN files : files[i].FileId \in Nat \ {0}
  BY LastFile
<1>4. \A i \in 1 .. Len(files) - 1 : files[i].FileId < Back
  BY <1>3 DEF FilesHold
<1>5. \A p \in DOMAIN log : log[p].file <= Back
  <2> SUFFICES ASSUME NEW p \in DOMAIN log PROVE log[p].file <= Back
    OBVIOUS
  <2>1. PICK i \in DOMAIN files : log[p].file = files[i].FileId
    BY DEF FilesHold
  <2>2. i = Len(files) \/ i \in 1 .. Len(files) - 1
    BY <1>3
  <2> QED
    BY <1>3, <1>4, <2>1, <2>2
<1>6. DOMAIN buffer \subseteq Nat /\ End(log) \in Nat
  BY EndIsBehind DEF TypeOK
<1>7. ASSUME NEW p \in DOMAIN l, NEW q \in DOMAIN l, p < q
      PROVE  l[p].id < l[q].id /\ l[p].file <= l[q].file
  <2>1. CASE p \in DOMAIN log /\ q \in DOMAIN log
    BY <1>1, <1>7, <2>1 DEF Ordered
  <2>2. CASE p \in DOMAIN log /\ q \notin DOMAIN log
    BY <1>1, <1>2, <1>5, <2>2 DEF BufferFollows
  <2>3. CASE p \notin DOMAIN log /\ q \in DOMAIN log
    BY <1>1, <1>7, <2>3
  <2>4. CASE p \notin DOMAIN log /\ q \notin DOMAIN log
    <3>1. PICK i \in DOMAIN buffer : p = End(log) + i - 1 /\ l[p].id = buffer[i].id /\ l[p].file = Back
      BY <1>2, <2>4
    <3>2. PICK j \in DOMAIN buffer : q = End(log) + j - 1 /\ l[q].id = buffer[j].id /\ l[q].file = Back
      BY <1>2, <2>4
    <3>3. i < j
      BY <1>6, <1>7, <3>1, <3>2
    <3> QED
      BY <1>3, <3>1, <3>2, <3>3 DEF BufferFollows
  <2> QED
    BY <2>1, <2>2, <2>3, <2>4
<1>8. Ordered(l)
  BY <1>1, <1>7 DEF Ordered
<1>9. \A p \in DOMAIN l : \E i \in DOMAIN files : l[p].file = files[i].FileId
  <2> SUFFICES ASSUME NEW p \in DOMAIN l PROVE \E i \in DOMAIN files : l[p].file = files[i].FileId
    OBVIOUS
  <2>1. CASE p \in DOMAIN log
    BY <1>1, <2>1 DEF FilesHold
  <2>2. CASE p \notin DOMAIN log
    BY <1>2, <1>3, <2>2
  <2> QED
    BY <2>1, <2>2
<1>10. \A p \in DOMAIN l, i \in 1 .. Len(files) - 1 : l[p].file = files[i].FileId => l[p].id <= files[i].LastShareId
  <2> SUFFICES ASSUME NEW p \in DOMAIN l, NEW i \in 1 .. Len(files) - 1, l[p].file = files[i].FileId
               PROVE  l[p].id <= files[i].LastShareId
    OBVIOUS
  <2>1. CASE p \in DOMAIN log
    BY <1>1, <2>1 DEF FilesHold
  <2>2. CASE p \notin DOMAIN log
    BY <1>2, <1>3, <1>4, <2>2
  <2> QED
    BY <2>1, <2>2
<1> QED
  BY <1>3, <1>4, <1>8, <1>9, <1>10 DEF FilesHold

LEMMA LogInit == Init => LogInv
<1> SUFFICES ASSUME Init PROVE LogInv
  OBVIOUS
<1>1. /\ DOMAIN log = {} /\ DOMAIN buffer = {} /\ files = <<[FileId |-> 1, LastShareId |-> 0]>>
      /\ state = diskState /\ state.last = 0 /\ nextId = 1 /\ diskStats = 0 /\ statsAccepted = 0
      /\ written = {} /\ state.scores = NoWork /\ state.rounds = NoWork
  BY DEF Init
<1>2. Counted(state) = {}
  BY <1>1 DEF Counted, NoWork
<1>3. Held = {} /\ Len(files) = 1 /\ Back = 1
  BY <1>1 DEF Held, Back, Last
<1> QED
  BY <1>1, <1>2, <1>3 DEF LogInv, Ordered, FilesHold, BufferFollows, Applied, IdsFound, Found, WrittenIsStable

\* A batch that arrives gets an id behind all others.
LEMMA LogReceives ==
    ASSUME TypeOK, TypeOK', AccountInv, LogInv, OnUserWorkSummary
    PROVE  LogInv'
<1> DEFINE m == received + 1
           r == [id |-> nextId, msg |-> m]
<1>1. /\ received' = m /\ m \in Messages /\ buffer' = Append(buffer, r) /\ nextId' = nextId + 1
      /\ UNCHANGED <<log, files, diskState, diskStats, written>>
  BY DEF OnUserWorkSummary, statsVars
<1>2. /\ Held' = Held \cup {<<nextId, m>>} /\ Counted(state') = Counted(state) \cup {m}
      /\ state'.last = nextId
  BY <1>1, AccountReceives
<1>3. /\ nextId \in Nat \ {0} /\ state.last \in Nat /\ diskState.last \in Nat
      /\ statsAccepted \in Nat /\ diskStats \in Nat /\ statsAccepted' \in Nat
  BY DEF TypeOK, AccountingState
<1>4. state.last < nextId /\ statsAccepted < nextId /\ \A x \in Held : x[1] \in Nat /\ x[1] <= state.last
  BY HeldIsTyped DEF AccountInv, LogInv, Applied
<1>5. BufferFollows'
  <2>1. /\ DOMAIN buffer = 1 .. Len(buffer) /\ Len(buffer) \in Nat
        /\ DOMAIN buffer' = 1 .. Len(buffer) + 1
        /\ \A i \in DOMAIN buffer : buffer'[i] = buffer[i]
        /\ buffer'[Len(buffer) + 1].id = nextId
    <3>1. /\ DOMAIN buffer = 1 .. Len(buffer) /\ Len(buffer) \in Nat
          /\ DOMAIN buffer' = 1 .. Len(buffer) + 1
          /\ \A i \in DOMAIN buffer : buffer'[i] = buffer[i]
          /\ buffer'[Len(buffer) + 1] = r
      <4> DEFINE R == [id : Nat \ {0}, msg : Messages]
      <4>1. buffer \in Seq(R) /\ r \in R
        BY <1>1, <1>3 DEF TypeOK
      <4> HIDE DEF R, r
      <4> QED
        BY <1>1, <4>1, AppendProperties
    <3> QED
      BY <3>1
  <2>2. \A i \in DOMAIN buffer : <<buffer[i].id, buffer[i].msg>> \in Held
    BY DEF Held
  <2>3. \A p \in DOMAIN log : <<log[p].id, log[p].msg>> \in Held
    BY DEF Held
  <2>4. /\ \A i \in DOMAIN buffer : buffer[i].id < nextId
        /\ \A p \in DOMAIN log : log[p].id < nextId
    <3>1. \A x \in Held : x[1] < nextId
      BY <1>3, <1>4
    <3> QED
      BY <2>2, <2>3, <3>1
  <2>5. \A i \in DOMAIN buffer' : i \in DOMAIN buffer \/ i = Len(buffer) + 1
    BY <2>1
  <2>6. \A i, j \in DOMAIN buffer' : i < j => i \in DOMAIN buffer
    BY <2>1
  <2>7. \A i, j \in DOMAIN buffer' : i < j => buffer'[i].id < buffer'[j].id
    BY <2>1, <2>4, <2>5, <2>6 DEF LogInv, BufferFollows
  <2>8. \A p \in DOMAIN log, i \in DOMAIN buffer' : log[p].id < buffer'[i].id
    BY <2>1, <2>4, <2>5 DEF LogInv, BufferFollows
  <2> QED
    BY <1>1, <2>7, <2>8 DEF BufferFollows
<1>6. Applied'
  <2> SUFFICES ASSUME NEW x \in Held'
               PROVE  /\ x[1] <= nextId /\ x[2] \in Counted(state')
                      /\ x[1] <= diskState.last => x[2] \in Counted(diskState)
    BY <1>1, <1>2 DEF Applied
  <2>1. CASE x \in Held
    <3>1. x[2] \in Counted(state) /\ (x[1] <= diskState.last => x[2] \in Counted(diskState))
      BY <2>1 DEF LogInv, Applied
    <3> QED
      BY <1>2, <1>3, <1>4, <2>1, <3>1
  <2>2. CASE x = <<nextId, m>>
    <3>1. diskState.last < nextId
      BY <1>3, <1>4 DEF LogInv, IdsFound
    <3> QED
      BY <1>2, <1>3, <2>2, <3>1
  <2> QED
    BY <1>2, <2>1, <2>2
<1>7. IdsFound'
  <2>1. statsAccepted' >= nextId
    BY <1>3, MaxOfTwo DEF OnUserWorkSummary
  <2>2. Back' = Back /\ InLog' = InLog /\ Back \in Nat \ {0}
    BY <1>1, LastFile DEF Back, InLog
  <2>3. Found(nextId - 1, Held)'
    <3>1. <<nextId, m>> \in Held' /\ nextId' - 1 = nextId
      BY <1>1, <1>2, <1>3
    <3>2. \E x \in Held' : nextId' - 1 <= x[1]
      BY <1>3, <3>1
    <3> QED
      BY <3>2 DEF Found
  <2>4. diskState.last <= state.last /\ diskStats <= statsAccepted /\ Back <= nextId /\ Found(Back - 1, InLog)
    BY DEF LogInv, IdsFound
  <2>5. diskState'.last <= state'.last /\ diskStats' <= statsAccepted' /\ Back' <= nextId'
    <3>1. diskState'.last <= state'.last /\ Back' <= nextId'
      BY <1>1, <1>2, <1>3, <1>4, <2>2, <2>4
    <3>2. diskStats' <= statsAccepted'
      BY <1>1, <1>3, <1>4, <2>1, <2>4
    <3> QED
      BY <3>1, <3>2
  <2>6. Found(Back - 1, InLog)'
    BY <1>1, <2>2, <2>4 DEF Found
  <2> QED
    BY <2>3, <2>5, <2>6 DEF IdsFound
<1>8. WrittenIsStable'
  <2>1. Counted(diskState') = Counted(diskState)
    BY <1>1
  <2>2. Counted(diskState) \subseteq Counted(state) /\ Counted(diskState) \subseteq written
    BY DEF LogInv, WrittenIsStable
  <2> QED
    BY <1>1, <1>2, <2>1, <2>2 DEF WrittenIsStable, LogInv
<1>9. Ordered(log') /\ FilesHold(log', files')
  BY <1>1 DEF LogInv
<1> QED
  BY <1>5, <1>6, <1>7, <1>8, <1>9 DEF LogInv

\* Saving the state makes everything stable that counts.
LEMMA LogSaves ==
    ASSUME TypeOK, TypeOK', LogInv, NEW s, Saves(s)
    PROVE  LogInv'
<1>1. /\ state' = s /\ diskState' = s /\ written' = written \cup Counted(s)
      /\ UNCHANGED <<log, files, buffer, nextId, statsAccepted, diskStats>>
  BY DEF Saves, SaveState, logVars, statsVars
<1>2. s.last = state.last /\ Counted(s) = Counted(state)
  BY DEF Saves
<1>3. Held' = Held /\ InLog' = InLog /\ Back' = Back
  BY <1>1 DEF Held, InLog, Back
<1>4. Ordered(log') /\ FilesHold(log', files') /\ BufferFollows' /\ Applied'
  BY <1>1, <1>2, <1>3 DEF LogInv, Applied, BufferFollows
<1>5. IdsFound'
  <2>1. /\ nextId \in Nat \ {0} /\ Back \in Nat \ {0} /\ \A r \in Held : r[1] \in Nat
        /\ InLog \subseteq Held
    BY LastFile, HeldIsTyped DEF TypeOK, Held, InLog
  <2>2. diskState.last <= diskState'.last /\ diskStats <= diskStats'
    BY <1>1, <1>2 DEF LogInv, IdsFound, TypeOK
  <2>3. Found(nextId - 1, Held)'
    <3>1. Found(nextId - 1, Held) /\ nextId - 1 \in Int
      BY <2>1 DEF LogInv, IdsFound
    <3>2. \/ nextId - 1 <= diskState'.last \/ nextId - 1 <= diskStats'
          \/ \E r \in Held : nextId - 1 <= r[1]
      BY <2>1, <2>2, <3>1, FoundStays
    <3> QED
      BY <1>1, <1>3, <3>2 DEF Found
  <2>4. Found(Back - 1, InLog)'
    <3>1. Found(Back - 1, InLog) /\ Back - 1 \in Int /\ \A r \in InLog : r[1] \in Nat
      BY <2>1 DEF LogInv, IdsFound
    <3>2. \/ Back - 1 <= diskState'.last \/ Back - 1 <= diskStats'
          \/ \E r \in InLog : Back - 1 <= r[1]
      BY <2>2, <3>1, FoundStays
    <3> QED
      BY <1>1, <1>3, <3>2 DEF Found
  <2> QED
    BY <1>1, <1>2, <1>3, <2>3, <2>4 DEF IdsFound, LogInv, TypeOK, AccountingState
<1>6. WrittenIsStable'
  <2>1. Counted(state') = Counted(s) /\ Counted(diskState') = Counted(s)
    BY <1>1
  <2>2. \A p \in DOMAIN log : log[p].msg \in written
    BY DEF LogInv, WrittenIsStable
  <2>3. written \subseteq Counted(s)
    <3> SUFFICES ASSUME NEW m \in written PROVE m \in Counted(state)
      BY <1>2
    <3>1. CASE m \in Counted(diskState)
      BY <3>1 DEF LogInv, WrittenIsStable
    <3>2. CASE \E p \in DOMAIN log : log[p].msg = m
      <4>1. \A p \in DOMAIN log : <<log[p].id, log[p].msg>> \in Held
        BY DEF Held
      <4> QED
        BY <3>2, <4>1 DEF LogInv, Applied
    <3> QED
      BY <3>1, <3>2 DEF LogInv, WrittenIsStable
  <2> QED
    BY <1>1, <2>1, <2>2, <2>3 DEF WrittenIsStable
<1> QED
  BY <1>4, <1>5, <1>6 DEF LogInv

\* Every record, written or not, is in the extended log.
LEMMA HeldIsWritten ==
    ASSUME TypeOK, NEW l, Extended(l, Len(buffer))
    PROVE  /\ \A r \in Held : \E p \in DOMAIN l : r = <<l[p].id, l[p].msg>>
           /\ \A p \in DOMAIN l \ DOMAIN log : \E i \in DOMAIN buffer : l[p].msg = buffer[i].msg
           /\ \A i \in DOMAIN buffer : \E p \in DOMAIN l : l[p].msg = buffer[i].msg
<1>1. /\ DOMAIN log \subseteq DOMAIN l /\ \A p \in DOMAIN log : l[p] = log[p]
      /\ \A i \in 1 .. Len(buffer) : \E p \in DOMAIN l \ DOMAIN log :
            l[p].id = buffer[i].id /\ l[p].msg = buffer[i].msg
      /\ \A p \in DOMAIN l \ DOMAIN log : \E i \in DOMAIN buffer : l[p].msg = buffer[i].msg
  BY DEF Extended
<1>2. DOMAIN buffer = 1 .. Len(buffer)
  BY DEF TypeOK
<1>3. ASSUME NEW r \in Held PROVE \E p \in DOMAIN l : r = <<l[p].id, l[p].msg>>
  <2>1. CASE \E p \in DOMAIN log : r = <<log[p].id, log[p].msg>>
    BY <1>1, <2>1
  <2>2. CASE \E i \in DOMAIN buffer : r = <<buffer[i].id, buffer[i].msg>>
    <3>1. PICK i \in DOMAIN buffer : r = <<buffer[i].id, buffer[i].msg>>
      BY <2>2
    <3>2. PICK p \in DOMAIN l : l[p].id = buffer[i].id /\ l[p].msg = buffer[i].msg
      BY <1>1, <1>2
    <3> QED
      BY <3>1, <3>2
  <2> QED
    BY <1>3, <2>1, <2>2 DEF Held
<1>4. \A i \in DOMAIN buffer : \E p \in DOMAIN l : l[p].msg = buffer[i].msg
  BY <1>1, <1>2
<1> QED
  BY <1>1, <1>3, <1>4

\* The new file begins behind every record, so the one before it can be closed.
LEMMA RotatedHolds ==
    ASSUME TypeOK, AccountInv, LogInv, NEW n \in Nat, NEW l, Extended(l, n), FilesHold(l, files),
           \A i \in DOMAIN files : files[i].FileId # nextId
    PROVE  FilesHold(l, Rotated)
<1>1. /\ DOMAIN files = 1 .. Len(files) /\ Len(files) \in Nat \ {0}
      /\ Back = files[Len(files)].FileId /\ Back \in Nat \ {0}
      /\ \A i \in DOMAIN files : files[i].FileId \in Nat \ {0}
  BY LastFile
<1>2. /\ Rotated \in Seq(CDatFile) /\ Len(Rotated) = Len(files) + 1
      /\ \A i \in 1 .. Len(files) - 1 : Rotated[i] = files[i]
      /\ Rotated[Len(files)].FileId = Back /\ Rotated[Len(files)].LastShareId = nextId - 1
      /\ Rotated[Len(files) + 1].FileId = nextId
  BY RotatedIs
<1>3. nextId \in Nat \ {0} /\ Back < nextId
  BY <1>1, SMTT(30) DEF LogInv, IdsFound, TypeOK
<1>4. \A p \in DOMAIN l : l[p].id <= nextId - 1
  <2> SUFFICES ASSUME NEW p \in DOMAIN l PROVE l[p].id <= nextId - 1
    OBVIOUS
  <2> DEFINE r == <<l[p].id, l[p].msg>>
  <2>1. r \in Held
    BY ExtendedIsHeld DEF AccountInv
  <2>2. r[1] <= state.last /\ r[1] \in Nat /\ r[1] = l[p].id
    BY <2>1, HeldIsTyped DEF LogInv, Applied
  <2>3. state.last < nextId /\ state.last \in Nat
    BY DEF AccountInv, TypeOK, AccountingState
  <2> QED
    BY <1>3, <2>2, <2>3
<1>5. \A i \in 1 .. Len(Rotated) - 1 : (i \in 1 .. Len(files) - 1 \/ i = Len(files)) /\ i \in DOMAIN files
  <2>1. Len(Rotated) - 1 = Len(files)
    BY <1>1, <1>2
  <2>2. \A i \in 1 .. Len(files) : i \in 1 .. Len(files) - 1 \/ i = Len(files)
    <3>1. Len(files) \in Nat
      BY <1>1
    <3>2. \A a, b \in Nat : b \in 1 .. a => b \in 1 .. a - 1 \/ b = a
      OBVIOUS
    <3> QED
      BY <3>1, <3>2
  <2> QED
    BY <1>1, <2>1, <2>2
<1>6. \A i \in 1 .. Len(files) - 1 : files[i].FileId < Back /\ i \in DOMAIN files
  BY <1>1 DEF FilesHold
<1>7. \A i \in 1 .. Len(Rotated) - 1 : Rotated[i].FileId = files[i].FileId /\ Rotated[i].FileId < nextId
  <2> SUFFICES ASSUME NEW i \in 1 .. Len(Rotated) - 1
               PROVE  Rotated[i].FileId = files[i].FileId /\ Rotated[i].FileId < nextId
    OBVIOUS
  <2>1. CASE i = Len(files)
    BY <1>1, <1>2, <1>3, <2>1
  <2>2. CASE i \in 1 .. Len(files) - 1
    <3>1. Rotated[i] = files[i] /\ files[i].FileId < Back /\ files[i].FileId \in Nat
      BY <1>1, <1>2, <1>6, <2>2
    <3> QED
      BY <1>1, <1>3, <3>1
  <2> QED
    BY <1>5, <2>1, <2>2
<1>8. DOMAIN Rotated = 1 .. Len(Rotated)
  BY <1>2
<1>9. \A p \in DOMAIN l : \E i \in DOMAIN Rotated : l[p].file = Rotated[i].FileId
  <2>1. \A i \in DOMAIN files : i \in 1 .. Len(Rotated) - 1 /\ i \in DOMAIN Rotated
    BY <1>1, <1>2, <1>8
  <2> QED
    BY <1>7, <2>1 DEF FilesHold
<1>10. \A p \in DOMAIN l, i \in 1 .. Len(Rotated) - 1 :
           l[p].file = Rotated[i].FileId => l[p].id <= Rotated[i].LastShareId
  BY <1>2, <1>4, <1>5 DEF FilesHold
<1>11. \A i \in 1 .. Len(Rotated) - 1 : Rotated[i].FileId < Rotated[Len(Rotated)].FileId
  BY <1>2, <1>7
<1> QED
  BY <1>9, <1>10, <1>11 DEF FilesHold

\* The files that are removed have only batches that the saved state has.
LEMMA CleanedIsSaved ==
    ASSUME TypeOK, NEW n \in Nat, NEW l, Extended(l, n), NEW fs \in Seq(CDatFile), fs # <<>>,
           FilesHold(l, fs), NEW k, Cleaned(l, fs, k)
    PROVE  /\ FilesHold(log', files') /\ Back' = fs[Len(fs)].FileId
           /\ \A p \in DOMAIN l \ DOMAIN log' : l[p].id < savedId
<1>1. /\ k \in 0 .. Len(fs) - 1 /\ \A i \in 1 .. k : fs[i].LastShareId < savedId
      /\ files' \in Seq(CDatFile) /\ files' # <<>> /\ Len(files') = Len(fs) - k
      /\ \A i \in 1 .. Len(fs) - k : files'[i] = fs[i + k]
      /\ DOMAIN log' \subseteq DOMAIN l /\ \A p \in DOMAIN log' : log'[p] = l[p]
      /\ \A p \in DOMAIN l : p \in DOMAIN log' <=> \E i \in DOMAIN files' : l[p].file = files'[i].FileId
  BY DEF Cleaned
<1>2. /\ Len(fs) \in Nat \ {0} /\ DOMAIN fs = 1 .. Len(fs) /\ Len(files') \in Nat \ {0}
      /\ DOMAIN files' = 1 .. Len(files')
  BY <1>1
<1>3. Back' = fs[Len(fs)].FileId
  <2>1. Back' = files'[Len(files')].FileId
    BY DEF Back, Last
  <2>2. Len(files') \in 1 .. Len(fs) - k /\ Len(files') + k = Len(fs)
    BY <1>1, <1>2
  <2> QED
    BY <1>1, <2>1, <2>2
<1>4. \A i \in 1 .. Len(files') - 1 : files'[i] = fs[i + k] /\ i + k \in 1 .. Len(fs) - 1
  BY <1>1, <1>2
<1>5. files'[Len(files')] = fs[Len(fs)]
  <2>1. Len(files') \in 1 .. Len(fs) - k /\ Len(files') + k = Len(fs)
    BY <1>1, <1>2
  <2> QED
    BY <1>1, <2>1
<1>6. \A p \in DOMAIN log' : \E i \in DOMAIN files' : log'[p].file = files'[i].FileId
  BY <1>1
<1>7. FilesHold(log', files')
  BY <1>1, <1>4, <1>5, <1>6, ZenonT(60) DEF FilesHold
<1>8. ASSUME NEW p \in DOMAIN l \ DOMAIN log'
      PROVE  l[p].id < savedId
  <2>1. PICK i \in DOMAIN fs : l[p].file = fs[i].FileId
    BY DEF FilesHold
  <2>2. i \in 1 .. k
    <3> SUFFICES ASSUME ~(i \in 1 .. k) PROVE FALSE
      OBVIOUS
    <3>1. i - k \in 1 .. Len(fs) - k /\ i - k + k = i /\ i - k \in DOMAIN files'
      BY <1>1, <1>2
    <3>2. files'[i - k] = fs[i]
      BY <1>1, <3>1
    <3> QED
      BY <1>1, <2>1, <3>1, <3>2
  <2>3. i \in 1 .. Len(fs) - 1
    BY <1>1, <1>2, <2>2
  <2>4. l[p].id <= fs[i].LastShareId /\ fs[i].LastShareId < savedId
    BY <1>1, <2>1, <2>2, <2>3 DEF FilesHold
  <2>5. l[p].id \in Nat /\ savedId \in Nat
    BY DEF Extended, LogRecord, TypeOK
  <2>6. fs[i].LastShareId \in Nat
    <3>1. fs[i] \in CDatFile
      BY <1>2, ElementOfSeq
    <3> QED
      BY <3>1 DEF CDatFile
  <2> QED
    BY <2>4, <2>5, <2>6
<1> QED
  BY <1>3, <1>7, <1>8

\* A flush of the log moves the buffer to the last file, and removes only what
\* the saved state has.
LEMMA LogFlushes ==
    ASSUME TypeOK, TypeOK', AccountInv, LogInv, FlushShareLog
    PROVE  LogInv'
<1>1. PICK l, fs, k :
          /\ Extended(l, Len(buffer)) /\ \A p \in DOMAIN l \ DOMAIN log : l[p].whole
          /\ fs = files \/ (fs = Rotated /\ \A i \in DOMAIN files : files[i].FileId # nextId)
          /\ fs \in Seq(CDatFile) /\ fs # <<>>
          /\ Cleaned(l, fs, k)
  BY FlushShareLogCleans
<1>2. /\ buffer' = <<>> /\ written' = written \cup {buffer[i].msg : i \in DOMAIN buffer}
      /\ UNCHANGED <<nextId, state, diskState, savedId, diskStats, statsAccepted>>
  BY DEF FlushShareLog, stateVars, statsVars
<1>3. Len(buffer) \in Nat /\ OneRecord /\ Ordered(log) /\ FilesHold(log, files) /\ BufferFollows
  BY DEF TypeOK, AccountInv, LogInv
<1>4. Ordered(l) /\ FilesHold(l, files)
  BY <1>1, <1>3, ExtendedIsOrdered
<1>5. FilesHold(l, fs)
  BY <1>1, <1>3, <1>4, RotatedHolds
<1>6. /\ FilesHold(log', files') /\ Back' = fs[Len(fs)].FileId
      /\ \A p \in DOMAIN l \ DOMAIN log' : l[p].id < diskState.last
  <2>1. savedId = diskState.last
    BY DEF AccountInv
  <2> QED
    BY <1>1, <1>3, <1>5, <2>1, CleanedIsSaved
<1>7. DOMAIN log' \subseteq DOMAIN l /\ \A p \in DOMAIN log' : log'[p] = l[p]
  BY <1>1 DEF Cleaned
<1>8. Ordered(log')
  BY <1>4, <1>7 DEF Ordered
<1>9. Held' \subseteq Held /\ Held' = {<<l[p].id, l[p].msg>> : p \in DOMAIN log'} /\ InLog' = Held'
  <2>1. Held' \subseteq Held /\ Held' = {<<l[p].id, l[p].msg>> : p \in DOMAIN log'}
    BY <1>1, <1>2, <1>3, <1>7, RecordsMove
  <2>2. InLog' = {<<l[p].id, l[p].msg>> : p \in DOMAIN log'}
    BY <1>7 DEF InLog
  <2> QED
    BY <2>1, <2>2
<1>10. /\ \A r \in Held : \E p \in DOMAIN l : r = <<l[p].id, l[p].msg>>
       /\ \A p \in DOMAIN l \ DOMAIN log : \E i \in DOMAIN buffer : l[p].msg = buffer[i].msg
       /\ \A i \in DOMAIN buffer : \E p \in DOMAIN l : l[p].msg = buffer[i].msg
       /\ \A p \in DOMAIN log : p \in DOMAIN l /\ l[p] = log[p]
       /\ \A p \in DOMAIN l : <<l[p].id, l[p].msg>> \in Held
  BY <1>1, <1>3, HeldIsWritten, ExtendedIsHeld DEF Extended
<1>11. BufferFollows'
  <2>1. DOMAIN buffer' = {}
    BY <1>2
  <2> QED
    BY <2>1 DEF BufferFollows
<1>12. Applied'
  <2>1. Applied
    BY DEF LogInv
  <2> QED
    BY <1>2, <1>9, <2>1 DEF Applied
<1>13. /\ diskState.last \in Nat /\ diskState'.last = diskState.last /\ diskStats \in Nat /\ diskStats' = diskStats
       /\ nextId \in Nat \ {0} /\ Back \in Nat \ {0} /\ \A r \in Held : r[1] \in Nat
  BY <1>2, LastFile, HeldIsTyped DEF TypeOK, AccountingState
<1>14. \A r \in Held : r[1] \in Nat /\ (r \in Held' \/ r[1] <= diskState'.last)
  <2> SUFFICES ASSUME NEW r \in Held PROVE r \in Held' \/ r[1] <= diskState.last
    BY <1>13
  <2>1. PICK p \in DOMAIN l : r = <<l[p].id, l[p].msg>>
    BY <1>10
  <2>2. CASE p \in DOMAIN log'
    BY <1>9, <2>1, <2>2
  <2>3. CASE p \notin DOMAIN log'
    BY <1>6, <1>13, <2>1, <2>3
  <2> QED
    BY <2>2, <2>3
<1>15. IdsFound'
  <2>1. /\ diskState.last <= state.last /\ diskStats <= statsAccepted /\ Back <= nextId
        /\ Found(nextId - 1, Held) /\ Found(Back - 1, InLog) /\ InLog \subseteq Held
    BY DEF LogInv, IdsFound, Held, InLog
  <2>2. diskState.last <= diskState'.last /\ diskStats <= diskStats'
    BY <1>13
  <2>3. \/ nextId - 1 <= diskState'.last \/ nextId - 1 <= diskStats'
        \/ \E r \in Held' : nextId - 1 <= r[1]
    <3>1. nextId - 1 \in Int
      BY <1>13
    <3> QED
      BY <1>14, <2>1, <2>2, <3>1, FoundStays
  <2>4. Back' = Back \/ Back' = nextId
    <3>1. Len(files) \in Nat \ {0} /\ Back = files[Len(files)].FileId
      BY LastFile
    <3>2. Rotated[Len(Rotated)].FileId = nextId
      <4>1. Len(Rotated) = Len(files) + 1 /\ Rotated[Len(files) + 1] = [FileId |-> nextId, LastShareId |-> 0]
        BY RotatedIs
      <4> QED
        BY <4>1
    <3> QED
      BY <1>1, <1>6, <3>1, <3>2
  <2>5. \/ Back' - 1 <= diskState'.last \/ Back' - 1 <= diskStats'
        \/ \E r \in Held' : Back' - 1 <= r[1]
    <3>1. CASE Back' = nextId
      BY <2>3, <3>1
    <3>2. CASE Back' = Back
      <4>1. Back - 1 \in Int /\ \A r \in InLog : r[1] \in Nat /\ (r \in Held' \/ r[1] <= diskState'.last)
        BY <1>13, <1>14, <2>1
      <4>2. \/ Back - 1 <= diskState'.last \/ Back - 1 <= diskStats'
            \/ \E r \in Held' : Back - 1 <= r[1]
        BY <2>1, <2>2, <4>1, FoundStays
      <4> QED
        BY <3>2, <4>2
    <3> QED
      BY <2>4, <3>1, <3>2
  <2>6. Found(nextId - 1, Held)' /\ Found(Back - 1, InLog)'
    BY <1>2, <1>9, <2>3, <2>5 DEF Found
  <2>7. diskState'.last <= state'.last /\ diskStats' <= statsAccepted' /\ Back' <= nextId'
    BY <1>2, <1>13, <2>1, <2>4
  <2> QED
    BY <2>6, <2>7 DEF IdsFound
<1>16. WrittenIsStable'
  <2>1. /\ Counted(diskState) \subseteq Counted(state) /\ Counted(diskState) \subseteq written
        /\ \A p \in DOMAIN log : log[p].msg \in written
        /\ \A m \in written : m \in Counted(diskState) \/ \E p \in DOMAIN log : log[p].msg = m
    BY DEF LogInv, WrittenIsStable
  <2>2. Counted(diskState') = Counted(diskState) /\ Counted(state') = Counted(state)
    BY <1>2
  <2>3. \A p \in DOMAIN log' : log'[p].msg \in written'
    <3> SUFFICES ASSUME NEW p \in DOMAIN log' PROVE l[p].msg \in written'
      BY <1>7
    <3>1. CASE p \in DOMAIN log
      BY <1>2, <1>10, <2>1, <3>1
    <3>2. CASE p \notin DOMAIN log
      BY <1>2, <1>7, <1>10, <3>2
    <3> QED
      BY <3>1, <3>2
  <2>4. ASSUME NEW m \in written'
        PROVE  m \in Counted(diskState) \/ \E p \in DOMAIN log' : log'[p].msg = m
    <3>1. m \in Counted(diskState) \/ \E p \in DOMAIN l : l[p].msg = m
      BY <1>2, <1>10, <2>1, <2>4
    <3>2. ASSUME NEW p \in DOMAIN l, l[p].msg = m, p \notin DOMAIN log'
          PROVE  m \in Counted(diskState)
      <4> DEFINE r == <<l[p].id, l[p].msg>>
      <4>1. r \in Held /\ r[1] = l[p].id /\ r[2] = m
        BY <1>10, <3>2
      <4>2. r[1] <= diskState.last
        BY <1>6, <1>13, <3>2, <4>1
      <4> QED
        BY <4>1, <4>2 DEF LogInv, Applied
    <3> QED
      BY <1>7, <3>1, <3>2
  <2> QED
    BY <1>2, <2>1, <2>2, <2>3, <2>4 DEF WrittenIsStable
<1> QED
  BY <1>6, <1>8, <1>11, <1>12, <1>15, <1>16 DEF LogInv

\* The statistics only move their own mark.
LEMMA LogFlushesStats ==
    ASSUME TypeOK, TypeOK', LogInv, ~StatsExpire, FlushUserStats
    PROVE  LogInv'
<1>1. /\ diskStats' = statsAccepted
      /\ UNCHANGED <<log, files, buffer, nextId, state, diskState, written, statsAccepted>>
  BY StatsOnDiskIs DEF FlushUserStats, TypeOK, logVars, stateVars
<1>2. Held' = Held /\ InLog' = InLog /\ Back' = Back
  BY <1>1 DEF Held, InLog, Back
<1>3. /\ diskStats <= diskStats' /\ diskState.last <= diskState'.last /\ diskStats' <= statsAccepted'
      /\ nextId \in Nat \ {0} /\ Back \in Nat \ {0} /\ \A r \in Held : r[1] \in Nat
      /\ InLog \subseteq Held
  <2>1. diskState.last \in Nat /\ statsAccepted \in Nat /\ nextId \in Nat \ {0}
    BY DEF TypeOK, AccountingState
  <2>2. diskStats <= statsAccepted
    BY DEF LogInv, IdsFound
  <2>3. InLog \subseteq Held
    BY DEF Held, InLog
  <2> QED
    BY <1>1, <2>1, <2>2, <2>3, LastFile, HeldIsTyped
<1>4. Found(nextId - 1, Held)'
  <2>1. Found(nextId - 1, Held) /\ nextId - 1 \in Int
    BY <1>3 DEF LogInv, IdsFound
  <2>2. \/ nextId - 1 <= diskState'.last \/ nextId - 1 <= diskStats'
        \/ \E r \in Held : nextId - 1 <= r[1]
    BY <1>3, <2>1, FoundStays
  <2> QED
    BY <1>1, <1>2, <2>2 DEF Found
<1>5. Found(Back - 1, InLog)'
  <2>1. Found(Back - 1, InLog) /\ Back - 1 \in Int /\ \A r \in InLog : r[1] \in Nat
    BY <1>3 DEF LogInv, IdsFound
  <2>2. \/ Back - 1 <= diskState'.last \/ Back - 1 <= diskStats'
        \/ \E r \in InLog : Back - 1 <= r[1]
    BY <1>3, <2>1, FoundStays
  <2> QED
    BY <1>1, <1>2, <2>2 DEF Found
<1>6. IdsFound'
  BY <1>1, <1>2, <1>3, <1>4, <1>5 DEF LogInv, IdsFound
<1> QED
  BY <1>1, <1>2, <1>6 DEF LogInv, BufferFollows, Applied, WrittenIsStable

\* Nothing that was written is missed by replay: the records are in order, so
\* every one behind the saved state is applied.
LEMMA TakesTheRest ==
    ASSUME NEW l, l \in [DOMAIN l -> LogRecord], DOMAIN l \subseteq Nat, Ordered(l), diskState.last \in Nat,
           diskStats \in Nat
    PROVE  /\ Readable(l) = DOMAIN l
           /\ Taken(l) = {p \in DOMAIN l : l[p].id > diskState.last}
<1>1. Readable(l) = DOMAIN l
  BY DEF Readable, Reached, Ordered
<1>2. \A p \in DOMAIN l : l[p].id \in Nat /\ l[p].file \in Nat /\ p \in Nat
  BY DEF LogRecord
<1>3. ASSUME NEW p \in DOMAIN l, NEW q \in DOMAIN l, Before(l, q, p)
      PROVE  l[q].id < l[p].id
  <2>1. ~(p < q) /\ p # q
    BY <1>2, <1>3 DEF Before, Ordered
  <2>2. q < p
    BY <1>2, <2>1
  <2> QED
    BY <2>2 DEF Ordered
<1>4. ReplayFrom <= diskState.last /\ ReplayFrom \in Nat
  BY MinOfTwo DEF ReplayFrom
<1>5. \A p \in DOMAIN l : l[p].id > diskState.last => l[p].id > ReplayFrom
  BY <1>2, <1>4
<1> QED
  BY <1>1, <1>3, <1>5 DEF Taken, Replayed

\* The last file of a restart is the one with the largest name, and the files
\* hold the log as they are read.
LEMMA ReloadedFilesHold ==
    ASSUME TypeOK, OneRecord, FilesHold(log, files),
           NEW n \in 0 .. Len(buffer), Reload(n, FALSE), Ordered(log'), FilesHold(log', files)
    PROVE  FilesHold(log', files') /\ Back' = Back
<1>1. /\ files' \in Seq(CDatFile) /\ files' # <<>>
      /\ \A i, j \in DOMAIN files' : i < j => files'[i].FileId < files'[j].FileId
      /\ \A k \in DOMAIN files : \E i \in DOMAIN files' : files'[i].FileId = files[k].FileId
      /\ \A i \in DOMAIN files' : \E k \in DOMAIN files : files'[i].FileId = files[k].FileId
      /\ \A i \in DOMAIN files' : files'[i].LastShareId = LastRead(log', files'[i].FileId)
  BY ReloadFiles
<1>2. /\ DOMAIN files = 1 .. Len(files) /\ Len(files) \in Nat \ {0} /\ Back = files[Len(files)].FileId
      /\ \A i \in DOMAIN files : files[i].FileId \in Nat
  BY LastFile
<1>3. DOMAIN files' = 1 .. Len(files') /\ Len(files') \in Nat \ {0} /\ Back' = files'[Len(files')].FileId
  BY <1>1 DEF Back, Last
<1>4. Extended(log', n)
  BY ReloadReplaysLog
<1>5. /\ IsFiniteSet(DOMAIN log') /\ DOMAIN log' \subseteq Nat \ {0} /\ log' \in [DOMAIN log' -> LogRecord]
  BY <1>4 DEF Extended
<1>6. \A k \in DOMAIN files : files[k].FileId <= Back
  <2> SUFFICES ASSUME NEW k \in DOMAIN files PROVE files[k].FileId <= Back
    OBVIOUS
  <2>1. k = Len(files) \/ k \in 1 .. Len(files) - 1
    BY <1>2
  <2> QED
    BY <1>2, <2>1 DEF FilesHold
<1>7. \A i \in DOMAIN files' : files'[i].FileId \in Nat /\ files'[i].FileId <= Back
  BY <1>1, <1>2, <1>6
<1>8. Back' = Back
  <2>1. PICK i \in DOMAIN files' : files'[i].FileId = Back
    BY <1>1, <1>2
  <2>2. i = Len(files') \/ i < Len(files')
    BY <1>3
  <2>3. i < Len(files') => Back < Back'
    BY <1>1, <1>3, <2>1
  <2>4. Back' <= Back /\ Back' \in Nat /\ Back \in Nat
    BY <1>2, <1>3, <1>7
  <2> QED
    BY <1>3, <2>1, <2>2, <2>3, <2>4
<1>9. \A p \in DOMAIN log' : \E i \in DOMAIN files' : log'[p].file = files'[i].FileId
  BY <1>1 DEF FilesHold
<1>10. ASSUME NEW p \in DOMAIN log', NEW f, log'[p].file = f
       PROVE  log'[p].id <= LastRead(log', f)
  <2> DEFINE at == {q \in DOMAIN log' : log'[q].file = f /\ Reached(log', q)}
  <2>1. p \in at
    BY <1>10 DEF Reached, Ordered
  <2>2. IsFiniteSet(at) /\ at \subseteq Nat
    <3>1. at \in SUBSET DOMAIN log'
      OBVIOUS
    <3> QED
      BY <1>5, <3>1, FS_Subset
  <2>3. LastRead(log', f) = log'[Max(at)].id
    BY <2>1 DEF LastRead
  <2> HIDE DEF at
  <2>4. Max(at) \in at /\ Max(at) >= p
    BY <2>1, <2>2, MaxExists
  <2>5. Max(at) \in DOMAIN log'
    BY <2>4 DEF at
  <2>6. p = Max(at) \/ p < Max(at)
    BY <1>5, <2>4, <2>5
  <2>7. log'[p].id \in Nat /\ log'[Max(at)].id \in Nat
    BY <1>5, <2>5 DEF LogRecord
  <2> QED
    BY <2>3, <2>5, <2>6, <2>7 DEF Ordered
<1>11. \A i \in 1 .. Len(files') - 1 :
          i \in DOMAIN files' /\ files'[i].FileId < files'[Len(files')].FileId
  <2> SUFFICES ASSUME NEW i \in 1 .. Len(files') - 1
               PROVE  i \in DOMAIN files' /\ files'[i].FileId < files'[Len(files')].FileId
    OBVIOUS
  <2>1. i \in DOMAIN files' /\ Len(files') \in DOMAIN files' /\ i < Len(files')
    BY <1>3
  <2> QED
    BY <1>1, <2>1
<1>12. \A p \in DOMAIN log', i \in 1 .. Len(files') - 1 :
           log'[p].file = files'[i].FileId => log'[p].id <= files'[i].LastShareId
  BY <1>1, <1>10, <1>11
<1> QED
  BY <1>8, <1>9, <1>11, <1>12 DEF FilesHold

\* A restart finds every batch that was written, and every id.
LEMMA LogReloads ==
    ASSUME TypeOK, TypeOK', AccountInv, AccountInv', LogInv, ~StatsExpire,
           NEW n \in 0 .. Len(buffer), Reload(n, FALSE), diskState' = diskState
    PROVE  LogInv'
<1> USE DEF InLog
<1>1. /\ Extended(log', n) /\ buffer' = <<>> /\ OneRecord /\ n \in Nat
      /\ \A p \in DOMAIN log' \ DOMAIN log : log'[p].whole
  <2>1. FALSE \in BOOLEAN /\ (FALSE => n < Len(buffer)) /\ OneRecord /\ n \in Nat
    BY DEF AccountInv
  <2>2. Extended(log', n) /\ buffer' = <<>> /\ (~FALSE => \A p \in DOMAIN log' \ DOMAIN log : log'[p].whole)
    BY <2>1, ReloadReplaysLog
  <2> QED
    BY <2>1, <2>2
<1>2. Ordered(log') /\ FilesHold(log', files)
  BY <1>1, ExtendedIsOrdered DEF LogInv
<1>3. FilesHold(log', files') /\ Back' = Back
  BY <1>1, <1>2, ReloadedFilesHold DEF LogInv
<1>4. Held' \subseteq Held /\ Held' = {<<log'[p].id, log'[p].msg>> : p \in DOMAIN log'} /\ InLog' = Held'
  BY <1>1, RecordsMove
<1>5. /\ diskState.last \in Nat /\ diskStats \in Nat /\ diskStats' \in Nat /\ state'.last \in Nat
      /\ statsAccepted' \in Nat
  BY DEF TypeOK, AccountingState
<1>6. Taken(log') = {p \in DOMAIN log' : log'[p].id > diskState.last}
  <2>1. log' \in [DOMAIN log' -> LogRecord] /\ DOMAIN log' \subseteq Nat
    BY <1>1 DEF Extended
  <2> QED
    BY <1>2, <1>5, <2>1, TakesTheRest
<1>7. /\ Counted(state') = Counted(diskState) \cup Again(log')
      /\ state'.last >= diskState.last /\ \A p \in Taken(log') : log'[p].id <= state'.last
      /\ state'.last \in Ids(log', Taken(log')) \cup {diskState.last}
  BY <1>1, ReloadCounts, ReloadState
<1>8. /\ statsAccepted' >= diskStats /\ diskStats' = statsAccepted'
      /\ state'.last < nextId' /\ statsAccepted' < nextId' /\ nextId' \in Nat \ {0}
      /\ nextId' - 1 \in {state'.last, statsAccepted'}
  BY <1>1, ReloadIds
<1>9. \A p \in DOMAIN log' : log'[p].id \in Nat
  BY <1>1 DEF Extended, LogRecord
<1>10. BufferFollows'
  <2>1. DOMAIN buffer' = {}
    BY <1>1
  <2> QED
    BY <2>1 DEF BufferFollows
<1>11. Applied'
  <2>1. ASSUME NEW r \in Held'
        PROVE  /\ r[1] <= state'.last /\ r[2] \in Counted(state')
               /\ r[1] <= diskState.last => r[2] \in Counted(diskState)
    <3>1. PICK p \in DOMAIN log' : r = <<log'[p].id, log'[p].msg>>
      BY <1>4, <2>1
    <3>2. r[1] = log'[p].id /\ r[2] = log'[p].msg
      BY <3>1
    <3>3. r[1] <= diskState.last => r[2] \in Counted(diskState)
      BY <1>4, <2>1 DEF LogInv, Applied
    <3>4. CASE log'[p].id > diskState.last
      <4>1. p \in Taken(log')
        BY <1>6, <3>4
      <4> QED
        BY <1>7, <3>2, <3>3, <4>1 DEF Again
    <3>5. CASE log'[p].id <= diskState.last
      <4>1. r[1] <= state'.last
        BY <1>5, <1>7, <1>9, <3>2, <3>5
      <4>2. r[2] \in Counted(diskState)
        BY <3>2, <3>3, <3>5
      <4> QED
        BY <1>7, <4>1, <4>2
    <3> QED
      BY <1>5, <1>9, <3>4, <3>5
  <2>2. diskState'.last = diskState.last /\ Counted(diskState') = Counted(diskState)
    OBVIOUS
  <2> QED
    BY <2>1, <2>2 DEF Applied
<1>12. Found(nextId - 1, Held)'
  <2>1. CASE nextId' - 1 = statsAccepted'
    <3>1. nextId' - 1 <= diskStats'
      <4>1. statsAccepted' <= statsAccepted' /\ diskStats' = statsAccepted'
        BY <1>5, <1>8
      <4> QED
        BY <2>1, <4>1
    <3> QED
      BY <3>1 DEF Found
  <2>2. CASE nextId' - 1 = state'.last /\ state'.last = diskState.last
    <3>1. nextId' - 1 <= diskState'.last
      BY <1>5, <2>2
    <3> QED
      BY <3>1 DEF Found
  <2>3. CASE nextId' - 1 = state'.last /\ state'.last \in Ids(log', Taken(log'))
    <3>1. PICK p \in Taken(log') : state'.last = log'[p].id
      BY <2>3 DEF Ids
    <3> DEFINE r == <<log'[p].id, log'[p].msg>>
    <3>2. r \in Held' /\ nextId' - 1 <= r[1]
      BY <1>4, <1>5, <1>6, <2>3, <3>1
    <3> QED
      BY <3>2 DEF Found
  <2> QED
    BY <1>7, <1>8, <2>1, <2>2, <2>3
<1>13. Found(Back - 1, InLog)'
  <2>1. Found(Back - 1, InLog) /\ Back - 1 \in Int
    BY LastFile DEF LogInv, IdsFound
  <2>2. \A r \in InLog : r[1] \in Nat /\ r \in InLog'
    <3> SUFFICES ASSUME NEW p \in DOMAIN log
                 PROVE  log[p].id \in Nat /\ <<log[p].id, log[p].msg>> \in InLog'
      OBVIOUS
    <3>1. p \in DOMAIN log' /\ log'[p] = log[p]
      BY <1>1 DEF Extended
    <3> QED
      BY <1>9, <3>1
  <2>3. diskState.last <= diskState'.last /\ diskStats <= diskStats'
    BY <1>5, <1>8
  <2> HIDE DEF InLog
  <2>4. \/ Back - 1 <= diskState'.last \/ Back - 1 <= diskStats'
        \/ \E r \in InLog' : Back - 1 <= r[1]
    BY <2>1, <2>2, <2>3, FoundStays
  <2> QED
    BY <1>3, <2>4 DEF Found
<1>14. Back' <= nextId'
  <2> DEFINE b == Back'
             i == nextId'
             s == state'.last
             u == statsAccepted'
  <2>1. b - 1 <= diskState.last \/ b - 1 <= u \/ \E r \in Held' : b - 1 <= r[1]
    BY <1>4, <1>8, <1>13 DEF Found
  <2>2. \A r \in Held' : r[1] <= s /\ r[1] \in Nat
    BY <1>4, <1>11, HeldIsTyped DEF Applied
  <2>3. b \in Nat /\ i \in Nat /\ s \in Nat /\ u \in Nat
    BY <1>3, <1>5, <1>8, LastFile
  <2>4. s < i /\ u < i /\ diskState.last <= s
    BY <1>5, <1>7, <1>8
  <2> HIDE DEF b, i, s, u
  <2>5. b <= i
    BY <1>5, <2>1, <2>2, <2>3, <2>4
  <2> QED
    BY <2>5 DEF b, i
<1>15. IdsFound'
  <2>1. diskState'.last <= state'.last /\ diskStats' <= statsAccepted'
    BY <1>5, <1>7, <1>8
  <2> QED
    BY <1>12, <1>13, <1>14, <2>1 DEF IdsFound
<1>16. WrittenIsStable'
  <2>1. /\ Counted(diskState) \subseteq written
        /\ \A p \in DOMAIN log : log[p].msg \in written
        /\ \A m \in written : m \in Counted(diskState) \/ \E p \in DOMAIN log : log[p].msg = m
    BY DEF LogInv, WrittenIsStable
  <2>2. written' = written \cup {buffer[i].msg : i \in 1 .. n}
    BY DEF Reload
  <2>3. /\ \A p \in DOMAIN log : p \in DOMAIN log' /\ log'[p] = log[p]
        /\ \A p \in DOMAIN log' \ DOMAIN log : \E i \in DOMAIN buffer :
              log'[p].msg = buffer[i].msg /\ log'[p].whole = (i <= n)
        /\ \A i \in 1 .. n : \E p \in DOMAIN log' : log'[p].msg = buffer[i].msg
    BY <1>1 DEF Extended
  <2>4. \A p \in DOMAIN log' : log'[p].msg \in written'
    <3> SUFFICES ASSUME NEW p \in DOMAIN log' PROVE log'[p].msg \in written'
      OBVIOUS
    <3>1. CASE p \in DOMAIN log
      BY <2>1, <2>2, <2>3, <3>1
    <3>2. CASE p \notin DOMAIN log
      <4>1. PICK i \in DOMAIN buffer : log'[p].msg = buffer[i].msg /\ log'[p].whole = (i <= n)
        BY <2>3, <3>2
      <4>2. log'[p].whole
        BY <1>1, <3>2
      <4>3. i <= n
        BY <4>1, <4>2
      <4>4. i \in 1 .. n
        <5>1. DOMAIN buffer = 1 .. Len(buffer) /\ Len(buffer) \in Nat
          BY DEF TypeOK
        <5> QED
          BY <4>3, <5>1
      <4> QED
        BY <2>2, <4>1, <4>4
    <3> QED
      BY <3>1, <3>2
  <2>5. \A m \in written' : m \in Counted(diskState) \/ \E p \in DOMAIN log' : log'[p].msg = m
    BY <2>1, <2>2, <2>3
  <2>6. Counted(diskState') = Counted(diskState) /\ Counted(diskState) \subseteq Counted(state')
    BY <1>7
  <2> QED
    BY <2>1, <2>2, <2>4, <2>5, <2>6 DEF WrittenIsStable
<1> QED
  BY <1>2, <1>3, <1>10, <1>11, <1>15, <1>16 DEF LogInv

\* Every step keeps the log good enough to replay, if no record can be torn and
\* the ids of the statistics cannot fall back.
LEMMA LogNext == TypeOK /\ AccountInv /\ LogInv /\ Undamaged /\ [Next]_vars => LogInv'
<1> SUFFICES ASSUME TypeOK, AccountInv, LogInv, Undamaged, [Next]_vars PROVE LogInv'
  OBVIOUS
<1>1. TypeOK' /\ AccountInv'
  BY TypeNext, AccountNext DEF AccountInv
<1>2. CASE OnUserWorkSummary
  BY <1>1, <1>2, LogReceives
<1>3. CASE FlushShareLog
  BY <1>1, <1>3, LogFlushes
<1>4. CASE FlushState \/ OnBlockFound \/ PpsPayout
  <2>1. \E s : Saves(s)
    BY <1>4, SavingSteps
  <2> QED
    BY <1>1, <2>1, LogSaves
<1>5. CASE FlushUserStats
  BY <1>1, <1>5, LogFlushesStats DEF Undamaged
<1>6. CASE OnUserSettingsUpdate
  <2>1. UNCHANGED <<log, files, buffer, nextId, state, diskState, diskStats, statsAccepted, written>>
    BY <1>6 DEF OnUserSettingsUpdate, logVars, stateVars, statsVars
  <2> QED
    BY <2>1 DEF LogInv, Ordered, FilesHold, BufferFollows, Applied, IdsFound, Found, WrittenIsStable,
                Held, InLog, Back
<1>7. CASE \/ RestartInPpsPayout
           \/ \E n \in 0 .. Len(buffer), torn \in {FALSE, TornWrites} :
                 (torn => n < Len(buffer)) /\ Restart(n, torn)
  <2>1. PICK n \in 0 .. Len(buffer), torn \in BOOLEAN :
            (torn => TornWrites) /\ Reload(n, torn) /\ diskState' = diskState
    BY <1>7, RestartIsReload
  <2>2. torn = FALSE
    BY <2>1 DEF Undamaged
  <2>3. Reload(n, FALSE)
    BY <2>1, <2>2
  <2> QED
    BY <1>1, <2>1, <2>3, LogReloads DEF Undamaged
<1>8. CASE UNCHANGED vars
  <2>1. UNCHANGED <<log, files, buffer, nextId, state, diskState, diskStats, statsAccepted, written>>
    BY <1>8 DEF vars, logVars, stateVars, statsVars
  <2> QED
    BY <2>1 DEF LogInv, Ordered, FilesHold, BufferFollows, Applied, IdsFound, Found, WrittenIsStable,
                Held, InLog, Back
<1> QED
  BY <1>2, <1>3, <1>4, <1>5, <1>6, <1>7, <1>8 DEF Next

\* IInv is inductive: the log's part of it where nothing is torn or expires.
THEOREM IInvHolds == Spec => []IInv
<1>1. Init => IInv
  BY TypeInit, AccountInit, LogInit DEF IInv
<1>2. IInv /\ [Next]_vars => IInv'
  <2> SUFFICES ASSUME IInv, [Next]_vars PROVE IInv'
    OBVIOUS
  <2>1. TypeOK' /\ AccountInv'
    BY TypeNext, AccountNext DEF IInv, AccountInv
  <2>2. Undamaged => LogInv'
    BY LogNext DEF IInv
  <2>3. Undamaged' <=> Undamaged
    BY DEF Undamaged
  <2> QED
    BY <2>1, <2>2, <2>3 DEF IInv
<1> QED
  BY <1>1, <1>2, PTL DEF Spec

\* What the log's invariant is for: what was written counts.
LEMMA WrittenCounts == LogInv => WrittenIsCounted
<1> SUFFICES ASSUME LogInv, NEW m \in written PROVE m \in Counted(state)
  BY DEF WrittenIsCounted
<1>1. CASE m \in Counted(diskState)
  BY <1>1 DEF LogInv, WrittenIsStable
<1>2. CASE \E p \in DOMAIN log : log[p].msg = m
  <2>1. \A p \in DOMAIN log : <<log[p].id, log[p].msg>> \in Held
    BY DEF Held
  <2> QED
    BY <1>2, <2>1 DEF LogInv, Applied
<1> QED
  BY <1>1, <1>2 DEF LogInv, WrittenIsStable

\* WrittenIsCounted: a batch that reached the log or accounting.state is counted
\* ever after, over any number of crashes, if no crash tears a record of the
\* log and the pool is never idle until the statistics' files expire.
THEOREM WrittenIsCountedHolds ==
    ASSUME Undamaged
    PROVE  Spec => []WrittenIsCounted
<1>1. IInv => WrittenIsCounted
  BY WrittenCounts DEF IInv
<1> QED
  BY <1>1, IInvHolds, PTL

----------------------------------------------------------------------------
(* The accounting backend implements WorkAccount.                          *)

settled == {m \in Messages : state.rounds[m] > 0}
lost == (1 .. received) \ Counted(state)

\* A batch that arrives was neither counted nor lost.
LEMMA ReceiveStep ==
    ASSUME TypeOK, AccountInv, OnUserWorkSummary
    PROVE  Account!Next
<1>1. /\ Counted(state') = Counted(state) \cup {received'} /\ state'.rounds = state.rounds
      /\ received' \notin Counted(state)
  BY AccountReceives
<1>2. received' = received + 1 /\ received' \in Messages /\ written' = written /\ received \in Nat
  BY DEF OnUserWorkSummary, TypeOK
<1>3. 1 .. received' = (1 .. received) \cup {received'} /\ received' \notin 1 .. received
  BY <1>2
<1>4. lost' = lost /\ received' \notin lost /\ settled' = settled
  BY <1>1, <1>3 DEF lost, settled
<1>5. Account!Receive(received')
  BY <1>1, <1>2, <1>4 DEF Account!Receive, lost, settled
<1> QED
  BY <1>2, <1>5 DEF Account!Next

\* Writing makes counted batches durable and changes nothing else.
LEMMA PersistStep ==
    ASSUME Counted(state') = Counted(state), settled' = settled, received' = received,
           written \subseteq written', written' \subseteq Counted(state)
    PROVE  Account!Next
<1>1. lost' = lost
  BY DEF lost
<1>2. Account!Persist
  BY <1>1 DEF Account!Persist, lost, settled
<1> QED
  BY <1>2 DEF Account!Next

LEMMA BlockFoundStep ==
    ASSUME TypeOK, LogInv, OnBlockFound
    PROVE  Account!Next
<1>1. /\ Saves(Closed(state))
      /\ \A m \in Messages : Closed(state).rounds[m] > 0 <=> m \in Counted(state)
  BY SavingSteps
<1>2. /\ state' = Closed(state) /\ Counted(Closed(state)) = Counted(state)
      /\ written' = written \cup Counted(state) /\ received' = received
  BY <1>1 DEF Saves, SaveState
<1>3. written \subseteq Counted(state)
  BY WrittenCounts DEF WrittenIsCounted
<1>4. settled' = Counted(state)
  BY <1>1, <1>2 DEF settled, Counted
<1>5. lost' = lost /\ Counted(state') = Counted(state) /\ written' = Counted(state)
  BY <1>2, <1>3 DEF lost
<1>6. Account!BlockFound
  BY <1>4, <1>5 DEF Account!BlockFound, lost, settled
<1> QED
  BY <1>6 DEF Account!Next

LEMMA WrittenCountsNext == LogInv' => WrittenIsCounted'
  BY WrittenCounts, PTL

\* A crash loses what was neither saved nor in the log, and nothing else.
LEMMA CrashStep ==
    ASSUME TypeOK, AccountInv, LogInv, LogInv',
           NEW n \in 0 .. Len(buffer), Reload(n, FALSE), diskState' = diskState
    PROVE  Account!Next
<1>1. FALSE \in BOOLEAN /\ (FALSE => n < Len(buffer)) /\ OneRecord
  BY DEF AccountInv
<1>2. /\ Counted(state') = Counted(diskState) \cup Again(log')
      /\ \A p \in Taken(log') : <<log'[p].id, log'[p].msg>> \in Held
      /\ state'.rounds = diskState.rounds /\ Taken(log') \subseteq DOMAIN log'
  BY <1>1, ReloadCounts, ReloadState, ReloadReplaysLog
<1>3. written \subseteq written' /\ received' = received
  BY DEF Reload
<1>4. Counted(state') \subseteq Counted(state)
  <2>1. Counted(diskState) \subseteq Counted(state)
    BY DEF LogInv, WrittenIsStable
  <2>2. Again(log') \subseteq Counted(state)
    <3> SUFFICES ASSUME NEW p \in Taken(log') PROVE log'[p].msg \in Counted(state)
      BY DEF Again
    <3> DEFINE r == <<log'[p].id, log'[p].msg>>
    <3>1. r \in Held /\ r[2] = log'[p].msg
      BY <1>2
    <3> QED
      BY <3>1 DEF LogInv, Applied
  <2> QED
    BY <1>2, <2>1, <2>2
<1>5. written' \subseteq Counted(state')
  BY WrittenCountsNext DEF WrittenIsCounted
<1>6. Counted(state') \subseteq written'
  <2>1. Counted(diskState') \subseteq written' /\ \A p \in DOMAIN log' : log'[p].msg \in written'
    BY DEF LogInv, WrittenIsStable
  <2> QED
    BY <1>2, <2>1 DEF Again
<1>7. settled' = settled
  BY <1>2 DEF settled, AccountInv
<1>8. Counted(state) \subseteq 1 .. received
  BY DEF AccountInv
<1>9. lost' = lost \cup (Counted(state) \ Counted(state'))
  BY <1>3, <1>4, <1>8 DEF lost
<1>10. Account!Crash
  BY <1>3, <1>4, <1>5, <1>6, <1>7, <1>9 DEF Account!Crash, lost, settled
<1> QED
  BY <1>10 DEF Account!Next

\* Every step is a step of WorkAccount or leaves what it sees alone.
LEMMA AccountStep ==
    ASSUME Undamaged, TypeOK, AccountInv, LogInv, LogInv', [Next]_vars
    PROVE  [Account!Next]_<<Counted(state), settled, written, lost>>
<1>1. CASE OnUserWorkSummary
  BY <1>1, ReceiveStep
<1>2. CASE FlushShareLog
  <2>1. /\ written' = written \cup {buffer[i].msg : i \in DOMAIN buffer}
        /\ state' = state /\ received' = received
    BY <1>2 DEF FlushShareLog, stateVars
  <2>2. written' \subseteq Counted(state)
    <3>1. \A i \in DOMAIN buffer : <<buffer[i].id, buffer[i].msg>> \in Held
      BY DEF Held
    <3>2. \A i \in DOMAIN buffer : buffer[i].msg \in Counted(state)
      BY <3>1 DEF LogInv, Applied
    <3> QED
      BY <2>1, <3>2, WrittenCounts DEF WrittenIsCounted
  <2>3. settled' = settled /\ Counted(state') = Counted(state) /\ written \subseteq written'
    BY <2>1 DEF settled
  <2> QED
    BY <2>1, <2>2, <2>3, PersistStep
<1>3. CASE FlushState
  <2>1. Saves(state)
    BY <1>3, SavingSteps
  <2>2. state' = state /\ written' = written \cup Counted(state) /\ received' = received
    BY <2>1 DEF Saves, SaveState
  <2>3. written' \subseteq Counted(state)
    BY <2>2, WrittenCounts DEF WrittenIsCounted
  <2>4. settled' = settled /\ Counted(state') = Counted(state) /\ written \subseteq written'
    BY <2>2 DEF settled
  <2> QED
    BY <2>2, <2>3, <2>4, PersistStep
<1>4. CASE OnBlockFound
  BY <1>4, BlockFoundStep
<1>5. CASE PpsPayout
  <2>1. Saves(Rewarded(state)) /\ Rewarded(state).rounds = state.rounds
    BY <1>5, SavingSteps
  <2>2. /\ state' = Rewarded(state) /\ Counted(Rewarded(state)) = Counted(state)
        /\ written' = written \cup Counted(state) /\ received' = received
    BY <2>1 DEF Saves, SaveState
  <2>3. written' \subseteq Counted(state)
    BY <2>2, WrittenCounts DEF WrittenIsCounted
  <2>4. settled' = settled /\ Counted(state') = Counted(state) /\ written \subseteq written'
    BY <2>1, <2>2 DEF settled
  <2> QED
    BY <2>2, <2>3, <2>4, PersistStep
<1>6. CASE FlushUserStats \/ OnUserSettingsUpdate \/ UNCHANGED vars
  <2>1. UNCHANGED <<state, received, written>>
    BY <1>6 DEF FlushUserStats, OnUserSettingsUpdate, vars, stateVars
  <2>2. settled' = settled /\ lost' = lost /\ Counted(state') = Counted(state) /\ written' = written
    BY <2>1 DEF settled, lost
  <2> QED
    BY <2>2
<1>7. CASE \/ RestartInPpsPayout
           \/ \E n \in 0 .. Len(buffer), torn \in {FALSE, TornWrites} :
                 (torn => n < Len(buffer)) /\ Restart(n, torn)
  <2>1. PICK n \in 0 .. Len(buffer), torn \in BOOLEAN :
            (torn => TornWrites) /\ Reload(n, torn) /\ diskState' = diskState
    BY <1>7, RestartIsReload
  <2>2. torn = FALSE
    BY <2>1 DEF Undamaged
  <2>3. Reload(n, FALSE)
    BY <2>1, <2>2
  <2> QED
    BY <2>1, <2>3, CrashStep
<1> QED
  BY <1>1, <1>2, <1>3, <1>4, <1>5, <1>6, <1>7 DEF Next

\* ImplementsAccount: the log, the saved state and replay keep the promise of
\* WorkAccount, under the same two assumptions as WrittenIsCounted: a crash
\* loses only work that no write had reached, and no more is ever lost.
THEOREM ImplementsAccountHolds ==
    ASSUME Undamaged
    PROVE  Spec => ImplementsAccount
<1>1. Init => Account!Init
  <2> SUFFICES ASSUME Init PROVE Account!Init
    OBVIOUS
  <2>1. state.scores = NoWork /\ state.rounds = NoWork /\ written = {} /\ received = 0
    BY DEF Init
  <2> QED
    BY <2>1 DEF Account!Init, Counted, NoWork
<1>2. IInv /\ IInv' /\ [Next]_vars => [Account!Next]_(Account!vars)
  <2> SUFFICES ASSUME IInv, IInv', [Next]_vars PROVE [Account!Next]_(Account!vars)
    OBVIOUS
  <2>1. TypeOK /\ AccountInv /\ LogInv /\ LogInv'
    BY DEF IInv, Undamaged
  <2>2. [Account!Next]_<<Counted(state), settled, written, lost>>
    BY <2>1, AccountStep
  <2> QED
    BY <2>2 DEF Account!vars, settled, lost
<1> QED
  BY <1>1, <1>2, IInvHolds, PTL DEF Spec, ImplementsAccount, Account!Spec
=============================================================================
