--------------------------- MODULE PayoutsProofs ---------------------------
(* Proofs about Payouts, for every set of users, rewards and settings.     *)
EXTENDS Payouts, FiniteSetLemmas

\* push_back uses a position behind every record.
LEMMA EndOfList ==
    ASSUME NEW q, IsFiniteSet(DOMAIN q), DOMAIN q \subseteq Nat \ {0}
    PROVE  EndOf(q) \in Nat \ {0} /\ \A p \in DOMAIN q : p < EndOf(q)
<1>1. CASE DOMAIN q = {}
  BY <1>1 DEF EndOf
<1>2. CASE DOMAIN q # {}
  <2>1. Max(DOMAIN q) \in DOMAIN q /\ \A p \in DOMAIN q : Max(DOMAIN q) >= p
    BY <1>2, MaxExists
  <2> QED
    BY <1>2, <2>1 DEF EndOf
<1> QED
  BY <1>1, <1>2

\* What push_back does: the old records stay as they are, and the new ones
\* have no transaction.
LEMMA PushBackKeeps ==
    ASSUME NEW q, IsQueue(q), NEW who, who \subseteq Users, NEW value,
           \A u \in who : value[u] \in Nat
    PROVE  LET n == PushBack(q, who, value)
           IN  /\ IsQueue(n)
               /\ DOMAIN q \subseteq DOMAIN n
               /\ \A p \in DOMAIN q : n[p] = q[p]
               /\ \A p \in DOMAIN n \ DOMAIN q : /\ n[p].tx = NoTx
                                               /\ n[p].status = "EInitialized"
<1> DEFINE e == EndOf(q)
           new == {e + u : u \in who}
           n == PushBack(q, who, value)
<1>1. e \in Nat \ {0}
  BY EndOfList DEF IsQueue
<1>2. new \subseteq Nat \ {0} /\ who \subseteq Nat
  BY <1>1, PayoutAssumptions
<1>3. \A p \in new : p - e \in who
  BY <1>1, <1>2
<1>4. IsFiniteSet(new)
  <2>1. IsFiniteSet(who)
    BY FS_Subset, PayoutAssumptions
  <2>2. [u \in who |-> e + u] \in Surjection(who, new)
    BY DEF Surjection
  <2> QED
    BY <2>1, <2>2, FS_Surjection
<1>5. DOMAIN n = DOMAIN q \cup new
  BY DEF PushBack
<1>6. \A p \in DOMAIN q : n[p] = q[p]
  BY DEF PushBack
<1>7. \A p \in DOMAIN n \ DOMAIN q : n[p] = NewPayout(p - e, value[p - e]) /\ p - e \in who
  BY <1>3, <1>5 DEF PushBack
<1>8. \A p \in DOMAIN n \ DOMAIN q : n[p] \in PayoutDbRecord
  BY <1>7 DEF NewPayout, PayoutDbRecord, Statuses
<1>9. n \in [DOMAIN n -> PayoutDbRecord]
  BY <1>6, <1>8 DEF PushBack, IsQueue
<1>10. IsFiniteSet(DOMAIN n) /\ DOMAIN n \subseteq Nat \ {0}
  BY <1>2, <1>4, <1>5, FS_Union DEF IsQueue
<1>11. \A p \in DOMAIN n \ DOMAIN q : n[p].tx = NoTx /\ n[p].status = "EInitialized"
  BY <1>7 DEF NewPayout
<1> QED
  BY <1>5, <1>6, <1>9, <1>10, <1>11 DEF IsQueue

LEMMA EraseKeeps ==
    ASSUME NEW q, IsQueue(q), NEW gone
    PROVE  /\ IsQueue(Erase(q, gone))
           /\ DOMAIN Erase(q, gone) = DOMAIN q \ gone
           /\ \A p \in DOMAIN q \ gone : Erase(q, gone)[p] = q[p]
<1>1. IsFiniteSet(DOMAIN q \ gone)
  BY FS_Subset DEF IsQueue
<1> QED
  BY <1>1 DEF Erase, IsQueue

\* A write to the record at one position.
LEMMA UpdateKeeps ==
    ASSUME NEW q, IsQueue(q), NEW c \in DOMAIN q, NEW r \in PayoutDbRecord,
           r.tx = NoTx <=> r.status = "EInitialized"
    PROVE  /\ IsQueue([q EXCEPT ![c] = r])
           /\ DOMAIN [q EXCEPT ![c] = r] = DOMAIN q
           /\ [q EXCEPT ![c] = r][c] = r
           /\ \A p \in DOMAIN q \ {c} : [q EXCEPT ![c] = r][p] = q[p]
  BY DEF IsQueue

\* The loop goes on to a record in the status its io call is made for, or ends.
LEMMA AdvanceStops ==
    ASSUME NEW q, IsQueue(q), NEW from, Advance(q, from)
    PROVE  /\ cur' \in Nat
           /\ pc' \in {"build", "send", "check", "finish"}
           /\ pc' = "build" => cur' \in DOMAIN q /\ q[cur'].status = "EInitialized"
           /\ pc' = "send" => cur' \in DOMAIN q /\ q[cur'].status = "ETxCreated"
           /\ pc' = "check" => cur' \in DOMAIN q /\ q[cur'].status = "ETxSent"
<1>1. \A p \in DOMAIN q : IoCall(q[p]) # "none" =>
         \/ IoCall(q[p]) = "build" /\ q[p].status = "EInitialized"
         \/ IoCall(q[p]) = "send" /\ q[p].status = "ETxCreated"
         \/ IoCall(q[p]) = "check" /\ q[p].status = "ETxSent"
  BY DEF IoCall
<1>2. DOMAIN q \subseteq Nat
  BY DEF IsQueue
<1> QED
  BY <1>1, <1>2 DEF Advance

----------------------------------------------------------------------------
(* Type correctness. *)

LEMMA InitTypeOK == Init => TypeOK
<1> SUFFICES ASSUME Init PROVE TypeOK
  OBVIOUS
<1>1. IsQueue(EmptyQueue)
  <2>1. DOMAIN EmptyQueue = {}
    BY DEF EmptyQueue
  <2>2. EmptyQueue \in [{} -> PayoutDbRecord]
    BY DEF EmptyQueue
  <2> QED
    BY <2>1, <2>2, FS_EmptySet DEF IsQueue
<1>2. NoBalance \in UserBalanceRecord
  BY DEF NoBalance, UserBalanceRecord
<1> QED
  BY <1>1, <1>2, PayoutAssumptions DEF Init, TypeOK, CursorOK, EmptyBatch, Statuses

\* A flush writes a queue and balance rows.
LEMMA FlushType ==
    ASSUME TypeOK, FlushState, IsQueue(queue')
    PROVE  IsQueue(diskQueue') /\ diskBalance' \in [Users -> UserBalanceRecord]
  BY DEF FlushState, TypeOK

LEMMA BuildType ==
    ASSUME TypeOK, NEW t \in TxIds, NEW total \in Int,
           pc = "build", 0 < total, total <= queue[cur].value,
           NodeBuilds(t, [user |-> queue[cur].user, value |-> total]),
           CorrectRequested(queue[cur].user, queue[cur].value - total)
    PROVE  /\ cur \in DOMAIN queue /\ queue[cur] \in PayoutDbRecord /\ total \in Nat
           /\ txs' \in [TxIds -> [user : Users, value : Nat] \cup {NoTx}]
           /\ node' \in [TxIds -> {"none", "built", "accepted", "confirmed"}]
           /\ balance' \in [Users -> UserBalanceRecord]
           /\ batch' \in [Users -> UserBalanceRecord \cup {NoWrite}]
<1> DEFINE u == queue[cur].user
           delta == queue[cur].value - total
<1>1. cur \in DOMAIN queue /\ queue[cur] \in PayoutDbRecord
  BY DEF TypeOK, CursorOK, IsQueue
<1>2. u \in Users /\ total \in Nat /\ delta \in Int
  BY <1>1 DEF PayoutDbRecord
<1>3. txs' \in [TxIds -> [user : Users, value : Nat] \cup {NoTx}]
  BY <1>2 DEF NodeBuilds, TypeOK
<1>4. node' \in [TxIds -> {"none", "built", "accepted", "confirmed"}]
  BY DEF NodeBuilds, TypeOK
<1>5. CASE delta = 0
  BY <1>1, <1>2, <1>3, <1>4, <1>5 DEF CorrectRequested, TypeOK
<1>6. CASE delta # 0
  <2>1. balance' = [balance EXCEPT ![u].requested = @ - delta] /\ PutBalance(u)
    BY <1>6 DEF CorrectRequested
  <2>2. [balance[u] EXCEPT !.requested = @ - delta] \in UserBalanceRecord
    <3>1. balance[u] \in UserBalanceRecord
      BY <1>2 DEF TypeOK
    <3> HIDE DEF u, delta
    <3> QED
      BY <1>2, <3>1 DEF UserBalanceRecord
  <2>3. balance' \in [Users -> UserBalanceRecord]
    BY <1>2, <2>1, <2>2 DEF TypeOK
  <2>4. batch' \in [Users -> UserBalanceRecord \cup {NoWrite}]
    BY <1>2, <2>1, <2>3 DEF PutBalance, TypeOK
  <2> QED
    BY <1>1, <1>2, <1>3, <1>4, <2>3, <2>4
<1> QED
  BY <1>5, <1>6

\* The record at the cursor while makePayout waits for the network.
LEMMA CursorRecord ==
    ASSUME TypeOK, pc \in {"persist", "send", "check"}
    PROVE  /\ cur \in DOMAIN queue /\ queue[cur] \in PayoutDbRecord
           /\ tx \in TxIds
           /\ Accepted \in [TxIds -> {"none", "built", "accepted", "confirmed"}]
<1>1. cur \in DOMAIN queue /\ queue[cur] \in PayoutDbRecord
  BY DEF TypeOK, CursorOK, IsQueue
<1>2. queue[cur].tx # NoTx
  BY <1>1 DEF TypeOK, CursorOK, IsQueue
<1>3. tx \in TxIds
  BY <1>1, <1>2 DEF tx, PayoutDbRecord
<1> QED
  BY <1>1, <1>3 DEF Accepted, TypeOK

\* A change of status of a payout that has, and keeps, a transaction.
LEMMA StatusType ==
    ASSUME TypeOK, pc \in {"send", "check"},
           NEW s \in {"ETxCreated", "ETxSent", "ETxConfirmed"},
           queue' = [queue EXCEPT ![cur].status = s]
    PROVE  /\ IsQueue(queue') /\ DOMAIN queue' = DOMAIN queue
           /\ queue'[cur] = [queue[cur] EXCEPT !.status = s]
           /\ queue'[cur].status = s
           /\ queue'[cur].tx = tx
           /\ \A p \in DOMAIN queue \ {cur} : queue'[p] = queue[p]
<1>1. cur \in DOMAIN queue /\ queue[cur] \in PayoutDbRecord /\ tx \in TxIds
  BY CursorRecord
<1> DEFINE r == [queue[cur] EXCEPT !.status = s]
<1>2. r \in PayoutDbRecord /\ r.tx = tx /\ r.status = s
  BY <1>1 DEF PayoutDbRecord, Statuses, tx
<1>3. r.tx = NoTx <=> r.status = "EInitialized"
  BY <1>1, <1>2, PayoutAssumptions
<1>4. queue' = [queue EXCEPT ![cur] = r]
  OBVIOUS
<1>5. IsQueue(queue)
  BY DEF TypeOK
<1> DEFINE n == [queue EXCEPT ![cur] = r]
<1>6. /\ IsQueue(n) /\ DOMAIN n = DOMAIN queue /\ n[cur] = r
      /\ \A p \in DOMAIN queue \ {cur} : n[p] = queue[p]
  <2> HIDE DEF r
  <2> QED
    BY <1>1, <1>2, <1>3, <1>5, UpdateKeeps
<1>7. queue' = n
  BY <1>4
<1>8. n[cur] = [queue[cur] EXCEPT !.status = s]
  BY <1>6
<1> HIDE DEF n, r
<1> QED
  BY <1>2, <1>6, <1>7, <1>8

\* A rejected payout is back in the state it was queued in.
LEMMA RejectedType ==
    ASSUME TypeOK, pc \in {"send", "check"}, Rejected
    PROVE  /\ IsQueue(queue') /\ DOMAIN queue' = DOMAIN queue
           /\ queue'[cur].tx = NoTx /\ queue'[cur].status = "EInitialized"
           /\ \A p \in DOMAIN queue \ {cur} : queue'[p] = queue[p]
<1>1. cur \in DOMAIN queue /\ queue[cur] \in PayoutDbRecord /\ tx \in TxIds
  BY CursorRecord
<1> DEFINE r == [queue[cur] EXCEPT !.tx = NoTx, !.status = "EInitialized"]
<1>2. r \in PayoutDbRecord /\ r.tx = NoTx /\ r.status = "EInitialized"
  BY <1>1 DEF PayoutDbRecord, Statuses
<1>3. queue' = [queue EXCEPT ![cur] = r]
  BY DEF Rejected
<1> HIDE DEF r
<1> QED
  BY <1>1, <1>2, <1>3, UpdateKeeps DEF TypeOK

LEMMA NextTypeOK == TypeOK /\ [Next]_vars => TypeOK'
<1> SUFFICES ASSUME TypeOK, [Next]_vars PROVE TypeOK'
  OBVIOUS
<1> USE DEF memory, disk, outside, network
<1>1. CASE StartPayout
  <2>1. PICK acc \in [Users -> Money] :
          queue' = PushBack(Erase(queue, Small(queue)), {queue[p].user : p \in Small(queue)}, acc)
    BY <1>1 DEF StartPayout
  <2>2. {queue[p].user : p \in Small(queue)} \subseteq Users
    BY DEF Small, TypeOK, IsQueue, PayoutDbRecord
  <2>3. IsQueue(Erase(queue, Small(queue)))
    BY EraseKeeps DEF TypeOK
  <2>4. \A u \in Users : acc[u] \in Nat
    BY PayoutAssumptions DEF Money
  <2>5. IsQueue(queue')
    BY <2>1, <2>2, <2>3, <2>4, PushBackKeeps
  <2>6. CursorOK' /\ cur' \in Nat /\ pc' \in {"build", "send", "check", "finish"}
    BY <1>1, <2>5, AdvanceStops DEF StartPayout, CursorOK
  <2>7. batch' \in [Users -> UserBalanceRecord \cup {NoWrite}]
    BY <1>1 DEF StartPayout, EmptyBatch
  <2> QED
    BY <1>1, <2>5, <2>6, <2>7 DEF StartPayout, TypeOK
<1>2. CASE PersistTx
  <2>1. queue' = queue /\ IsQueue(queue')
    BY <1>2 DEF PersistTx, TypeOK
  <2>2. IsQueue(diskQueue') /\ diskBalance' \in [Users -> UserBalanceRecord]
    BY <1>2, <2>1, FlushType DEF PersistTx
  <2>3. batch' \in [Users -> UserBalanceRecord \cup {NoWrite}]
    BY <1>2 DEF PersistTx, EmptyBatch
  <2> QED
    BY <1>2, <2>1, <2>2, <2>3 DEF PersistTx, TypeOK, CursorOK
<1>3. CASE FinishPayout
  <2>1. IsQueue(queue')
    BY <1>3, EraseKeeps DEF FinishPayout, TypeOK
  <2>2. IsQueue(diskQueue') /\ diskBalance' \in [Users -> UserBalanceRecord]
    BY <1>3, <2>1, FlushType DEF FinishPayout
  <2>3. batch' \in [Users -> UserBalanceRecord \cup {NoWrite}]
    BY <1>3 DEF FinishPayout, EmptyBatch
  <2> QED
    BY <1>3, <2>1, <2>2, <2>3 DEF FinishPayout, TypeOK, CursorOK
<1>4. CASE BuildFailed
  BY <1>4 DEF BuildFailed, TypeOK, CursorOK
<1>5. ASSUME NEW t \in TxIds, NEW total \in Int, BuildDuplicate(t, total)
      PROVE  TypeOK'
  <2>1. /\ cur \in DOMAIN queue /\ queue[cur] \in PayoutDbRecord /\ total \in Nat
        /\ txs' \in [TxIds -> [user : Users, value : Nat] \cup {NoTx}]
        /\ node' \in [TxIds -> {"none", "built", "accepted", "confirmed"}]
        /\ balance' \in [Users -> UserBalanceRecord]
        /\ batch' \in [Users -> UserBalanceRecord \cup {NoWrite}]
    BY <1>5, BuildType DEF BuildDuplicate
  <2> DEFINE r == [queue[cur] EXCEPT !.value = total]
  <2>2. r \in PayoutDbRecord /\ r.tx = queue[cur].tx /\ r.status = queue[cur].status
    BY <2>1 DEF PayoutDbRecord
  <2>3. queue' = [queue EXCEPT ![cur] = r]
    BY <1>5 DEF BuildDuplicate
  <2>4. r.tx = NoTx <=> r.status = "EInitialized"
    BY <2>1, <2>2 DEF TypeOK, IsQueue
  <2> HIDE DEF r
  <2>5. IsQueue(queue')
    BY <2>1, <2>2, <2>3, <2>4, UpdateKeeps DEF TypeOK
  <2> QED
    BY <1>5, <2>1, <2>5 DEF BuildDuplicate, TypeOK, CursorOK
<1>6. ASSUME NEW t \in TxIds, NEW total \in Int, BuildCreated(t, total)
      PROVE  TypeOK'
  <2>1. /\ cur \in DOMAIN queue /\ queue[cur] \in PayoutDbRecord /\ total \in Nat
        /\ txs' \in [TxIds -> [user : Users, value : Nat] \cup {NoTx}]
        /\ node' \in [TxIds -> {"none", "built", "accepted", "confirmed"}]
        /\ balance' \in [Users -> UserBalanceRecord]
        /\ batch' \in [Users -> UserBalanceRecord \cup {NoWrite}]
    BY <1>6, BuildType DEF BuildCreated
  <2> DEFINE r == [queue[cur] EXCEPT !.value = total, !.tx = t, !.status = "ETxCreated"]
  <2>2. r \in PayoutDbRecord /\ r.tx = t /\ r.status = "ETxCreated"
    BY <2>1 DEF PayoutDbRecord, Statuses
  <2>3. queue' = [queue EXCEPT ![cur] = r]
    BY <1>6 DEF BuildCreated
  <2>4. r.tx = NoTx <=> r.status = "EInitialized"
    BY <2>2, PayoutAssumptions
  <2> HIDE DEF r
  <2>5. IsQueue(queue') /\ DOMAIN queue' = DOMAIN queue /\ queue'[cur] = r
    BY <2>1, <2>2, <2>3, <2>4, UpdateKeeps DEF TypeOK
  <2>6. CursorOK'
    BY <1>6, <2>1, <2>2, <2>5 DEF BuildCreated, CursorOK
  <2>7. payoutDb' \in [TxIds -> Statuses \cup {"none", "ETxRejected"}]
    BY <1>6 DEF BuildCreated, TypeOK, Statuses
  <2> QED
    BY <1>6, <2>1, <2>5, <2>6, <2>7 DEF BuildCreated, TypeOK
<1>7. CASE SendOk
  <2>1. IsQueue(queue') /\ tx \in TxIds
    BY <1>7, StatusType, CursorRecord DEF SendOk
  <2>2. node' \in [TxIds -> {"none", "built", "accepted", "confirmed"}]
    BY <1>7, CursorRecord DEF SendOk
  <2>3. payoutDb' \in [TxIds -> Statuses \cup {"none", "ETxRejected"}]
    BY <1>7 DEF SendOk, TypeOK, Statuses
  <2>4. CursorOK' /\ cur' \in Nat /\ pc' \in {"build", "send", "check", "finish"}
    BY <1>7, <2>1, AdvanceStops DEF SendOk, CursorOK
  <2> QED
    BY <1>7, <2>1, <2>2, <2>3, <2>4 DEF SendOk, TypeOK
<1>8. CASE SendError
  <2>1. IsQueue(queue) /\ queue' = queue
    BY <1>8 DEF SendError, TypeOK
  <2>2. node' \in [TxIds -> {"none", "built", "accepted", "confirmed"}]
    BY <1>8, CursorRecord DEF SendError, TypeOK
  <2>3. CursorOK' /\ cur' \in Nat /\ pc' \in {"build", "send", "check", "finish"}
    BY <1>8, <2>1, AdvanceStops DEF SendError, CursorOK
  <2> QED
    BY <1>8, <2>1, <2>2, <2>3 DEF SendError, TypeOK
<1>9. ASSUME pc \in {"send", "check"}, Rejected PROVE TypeOK'
  <2>1. IsQueue(queue')
    BY <1>9, RejectedType
  <2>2. payoutDb' \in [TxIds -> Statuses \cup {"none", "ETxRejected"}]
    BY <1>9 DEF Rejected, TypeOK, Statuses
  <2>3. CursorOK' /\ cur' \in Nat /\ pc' \in {"build", "send", "check", "finish"}
    BY <1>9, <2>1, AdvanceStops DEF Rejected, CursorOK
  <2> QED
    BY <1>9, <2>1, <2>2, <2>3 DEF Rejected, TypeOK
<1>10. ASSUME NEW f \in TxFees, CheckConfirmed(f) PROVE TypeOK'
  <2> DEFINE p == queue[cur]
             b == [balance |-> balance[p.user].balance - (p.value + f),
                   requested |-> balance[p.user].requested - p.value,
                   paid |-> balance[p.user].paid + p.value]
  <2>1. IsQueue(queue')
    BY <1>10, StatusType DEF CheckConfirmed
  <2>2. p \in PayoutDbRecord /\ p.user \in Users /\ p.value \in Nat
    BY <1>10, CursorRecord DEF CheckConfirmed, PayoutDbRecord
  <2>3. balance[p.user] \in UserBalanceRecord /\ f \in Nat
    BY <2>2, PayoutAssumptions DEF TypeOK
  <2>4. b \in UserBalanceRecord
    <3> HIDE DEF p
    <3> QED
      BY <2>2, <2>3 DEF UserBalanceRecord
  <2>5. balance' = [balance EXCEPT ![p.user] = b] /\ PutBalance(p.user)
    BY <1>10 DEF CheckConfirmed
  <2>6. balance' \in [Users -> UserBalanceRecord]
    <3> HIDE DEF b, p
    <3> QED
      BY <2>4, <2>5 DEF TypeOK
  <2>7. batch' \in [Users -> UserBalanceRecord \cup {NoWrite}]
    BY <2>2, <2>5, <2>6 DEF PutBalance, TypeOK
  <2>8. payoutDb' \in [TxIds -> Statuses \cup {"none", "ETxRejected"}]
    BY <1>10 DEF CheckConfirmed, TypeOK, Statuses
  <2>9. CursorOK' /\ cur' \in Nat /\ pc' \in {"build", "send", "check", "finish"}
    BY <1>10, <2>1, AdvanceStops DEF CheckConfirmed, CursorOK
  <2> QED
    BY <1>10, <2>1, <2>6, <2>7, <2>8, <2>9 DEF CheckConfirmed, TypeOK
<1>11. CASE CheckLater
  <2>1. IsQueue(queue) /\ queue' = queue
    BY <1>11 DEF CheckLater, TypeOK
  <2>2. CursorOK' /\ cur' \in Nat /\ pc' \in {"build", "send", "check", "finish"}
    BY <1>11, <2>1, AdvanceStops DEF CheckLater, CursorOK
  <2> QED
    BY <1>11, <2>1, <2>2 DEF CheckLater, TypeOK
<1>12. CASE CheckUnknown
  <2>1. IsQueue(queue')
    BY <1>12, StatusType DEF CheckUnknown
  <2>2. CursorOK' /\ cur' \in Nat /\ pc' \in {"build", "send", "check", "finish"}
    BY <1>12, <2>1, AdvanceStops DEF CheckUnknown, CursorOK
  <2> QED
    BY <1>12, <2>1, <2>2 DEF CheckUnknown, TypeOK
<1>13. ASSUME NEW r \in Rewards, ProcessReward(r) PROVE TypeOK'
  <2> DEFINE paid == {u \in Users : r.pay[u] > 0}
             earned(u) == [balance[u] EXCEPT !.balance = @ + r.pay[u]]
             queued == {u \in paid : QueuesReward(u, earned(u))}
             value == [u \in Users |-> NonQueued(earned(u))]
  <2>1. \A u \in Users : r.pay[u] \in Nat
    BY PayoutAssumptions
  <2>2. \A u \in Users : earned(u) \in UserBalanceRecord
    <3> SUFFICES ASSUME NEW u \in Users PROVE earned(u) \in UserBalanceRecord
      OBVIOUS
    <3>1. balance[u] \in UserBalanceRecord
      BY DEF TypeOK
    <3> QED
      BY <2>1, <3>1 DEF UserBalanceRecord
  <2>3. \A u \in queued : value[u] \in Nat
    <3> SUFFICES ASSUME NEW u \in queued PROVE NonQueued(earned(u)) \in Nat
      OBVIOUS
    <3>1. u \in Users /\ NonQueued(earned(u)) >= 0
      BY DEF QueuesReward
    <3>2. earned(u).balance \in Int /\ earned(u).requested \in Int
      BY <2>2, <3>1 DEF UserBalanceRecord
    <3> HIDE DEF earned
    <3> QED
      BY <3>1, <3>2 DEF NonQueued
  <2>4. queued \subseteq Users
    OBVIOUS
  <2>5. /\ Yielded /\ pending' = pending \ {r}
        /\ credited' = [u \in Users |-> credited[u] + r.pay[u]]
        /\ queue' = PushBack(queue, queued, value)
        /\ balance' = [u \in Users |->
              IF u \in queued THEN [earned(u) EXCEPT !.requested = @ + NonQueued(earned(u))]
                              ELSE earned(u)]
        /\ diskBalance' = [u \in Users |-> IF u \in paid THEN balance'[u] ELSE diskBalance[u]]
        /\ diskQueue' \in {queue', diskQueue}
        /\ UNCHANGED <<known, pc, cur, batch, payoutDb, settings, userSettings, network, restarts>>
    BY <1>13 DEF ProcessReward
  <2>6. \A u \in Users : [earned(u) EXCEPT !.requested = @ + NonQueued(earned(u))] \in UserBalanceRecord
    <3> HIDE DEF earned
    <3> QED
      BY <2>2 DEF UserBalanceRecord, NonQueued
  <2> HIDE DEF earned, queued, value, paid
  <2>7. /\ IsQueue(queue') /\ DOMAIN queue \subseteq DOMAIN queue'
        /\ \A p \in DOMAIN queue : queue'[p] = queue[p]
    <3>1. IsQueue(queue)
      BY DEF TypeOK
    <3>2. queue' = PushBack(queue, queued, value)
      BY <2>5
    <3> QED
      BY <2>3, <2>4, <3>1, <3>2, PushBackKeeps
  <2>8. balance' \in [Users -> UserBalanceRecord]
    BY <2>2, <2>5, <2>6
  <2>9. diskBalance' \in [Users -> UserBalanceRecord]
    BY <2>5, <2>8 DEF TypeOK
  <2>10. credited' \in [Users -> Nat] /\ pending' \subseteq Rewards
    BY <2>1, <2>5 DEF TypeOK
  <2>11. CursorOK'
    BY <2>5, <2>7 DEF TypeOK, CursorOK
  <2> QED
    BY <2>5, <2>7, <2>8, <2>9, <2>10, <2>11 DEF TypeOK
<1>14. ASSUME NEW u \in Users, ManualPayout(u) PROVE TypeOK'
  <2> DEFINE value == NonQueued(balance[u])
             b == [balance[u] EXCEPT !.requested = @ + value]
  <2>1. balance[u] \in UserBalanceRecord
    BY DEF TypeOK
  <2>2. value \in Nat
    BY <1>14, <2>1 DEF ManualPayout, RequestManualPayout, NonQueued, UserBalanceRecord
  <2>3. b \in UserBalanceRecord
    <3> HIDE DEF value
    <3> QED
      BY <2>1, <2>2 DEF UserBalanceRecord
  <2>4. /\ Yielded /\ queue' = PushBack(queue, {u}, [v \in Users |-> value])
        /\ balance' = [balance EXCEPT ![u] = b]
        /\ diskQueue' = queue' /\ diskBalance' = [diskBalance EXCEPT ![u] = balance'[u]]
        /\ UNCHANGED <<known, pc, cur, batch, payoutDb, outside, network, restarts>>
    BY <1>14 DEF ManualPayout, RequestManualPayout
  <2> HIDE DEF value, b
  <2>5. /\ IsQueue(queue') /\ DOMAIN queue \subseteq DOMAIN queue'
        /\ \A p \in DOMAIN queue : queue'[p] = queue[p]
    <3> DEFINE all == [v \in Users |-> value]
    <3>1. IsQueue(queue) /\ {u} \subseteq Users /\ \A v \in {u} : all[v] \in Nat
      BY <2>2 DEF TypeOK
    <3>2. queue' = PushBack(queue, {u}, all)
      BY <2>4
    <3> HIDE DEF all
    <3> QED
      BY <3>1, <3>2, PushBackKeeps
  <2>6. balance' \in [Users -> UserBalanceRecord]
    BY <2>3, <2>4 DEF TypeOK
  <2>7. diskBalance' \in [Users -> UserBalanceRecord]
    BY <2>4, <2>6 DEF TypeOK
  <2>8. CursorOK'
    BY <2>4, <2>5 DEF TypeOK, CursorOK
  <2> QED
    BY <2>4, <2>5, <2>6, <2>7, <2>8 DEF TypeOK
<1>15. ASSUME NEW s \in BackendSettings, UpdateBackendSettings(s) PROVE TypeOK'
  BY <1>15 DEF UpdateBackendSettings, TypeOK, CursorOK
<1>16. ASSUME NEW u \in Users, NEW s \in UserSettings, OnUserSettingsUpdate(u, s) PROVE TypeOK'
  BY <1>16 DEF OnUserSettingsUpdate, TypeOK, CursorOK
<1>17. ASSUME NEW t \in TxIds, NodeMines(t) \/ NodeEvicts(t) PROVE TypeOK'
  BY <1>17 DEF NodeMines, NodeEvicts, TypeOK, CursorOK
<1>18. CASE Restart
  <2>1. node' \in [TxIds -> {"none", "built", "accepted", "confirmed"}]
    BY <1>18, CursorRecord DEF Restart, TypeOK
  <2>2. known' \subseteq TxIds \cup {NoTx}
    BY <1>18 DEF Restart, TypeOK, IsQueue, PayoutDbRecord
  <2>3. batch' \in [Users -> UserBalanceRecord \cup {NoWrite}]
    BY <1>18 DEF Restart, EmptyBatch
  <2>4. restarts' \in 0 .. MaxRestarts
    BY <1>18, PayoutAssumptions DEF Restart, TypeOK
  <2> QED
    BY <1>18, <2>1, <2>2, <2>3, <2>4 DEF Restart, TypeOK, CursorOK
<1>19. CASE UNCHANGED vars
  BY <1>19 DEF vars, TypeOK, CursorOK
<1>20. \A c \in Corrections : pc = "build" => queue[cur].value - c \in Int
  BY PayoutAssumptions DEF TypeOK, CursorOK, IsQueue, PayoutDbRecord
<1>21. CASE MakePayoutStep
  <2>1. ASSUME NEW t \in TxIds, NEW c \in Corrections,
               \/ BuildDuplicate(t, queue[cur].value - c)
               \/ BuildCreated(t, queue[cur].value - c)
        PROVE  TypeOK'
    <3>1. pc = "build"
      BY <2>1 DEF BuildDuplicate, BuildCreated
    <3> QED
      BY <1>5, <1>6, <1>20, <2>1, <3>1
  <2> QED
    BY <1>1, <1>2, <1>3, <1>4, <1>7, <1>8, <1>9, <1>10, <1>11, <1>12, <1>21, <2>1
       DEF MakePayoutStep, SendRejected, CheckRejected
<1> QED
  BY <1>13, <1>14, <1>15, <1>16, <1>17, <1>18, <1>19, <1>21 DEF Next

\* Type correctness of the payout backend for every set of users, rewards,
\* settings and transactions, with any number of restarts.
THEOREM TypeCorrect == Spec => []TypeOK
  BY InitTypeOK, NextTypeOK, PTL DEF Spec

----------------------------------------------------------------------------
(* What a step does to the transactions of the queue.  Most steps leave    *)
(* every payout that has one alone; six kinds of step remain.              *)

SameTxs(q, n) ==
    /\ \A p \in DOMAIN q : q[p].tx # NoTx => p \in DOMAIN n /\ n[p] = q[p]
    /\ \A p \in DOMAIN n : n[p].tx # NoTx => p \in DOMAIN q /\ n[p] = q[p]

\* The other records stay, and nothing is written.
OnlyCur ==
    /\ cur \in DOMAIN queue /\ DOMAIN queue' = DOMAIN queue
    /\ \A p \in DOMAIN queue \ {cur} : queue'[p] = queue[p]
    /\ diskQueue' = diskQueue

Quiet ==
    /\ SameTxs(queue, queue')
    /\ known' = known /\ payoutDb' = payoutDb
    /\ diskQueue' \in {diskQueue, queue'}
    /\ pc' = "persist" => pc = "persist" /\ cur' = cur
    /\ pc = "persist" => \/ pc' = "persist" /\ queue' = queue /\ diskQueue' = diskQueue
                         \/ diskQueue' = queue'

Creates(t) ==
    /\ t \in TxIds /\ t \notin known /\ known' = known \cup {t}
    /\ OnlyCur /\ pc = "build" /\ pc' = "persist" /\ cur' = cur
    /\ queue[cur].tx = NoTx
    /\ queue'[cur].tx = t /\ queue'[cur].status = "ETxCreated"
    /\ node'[t] = "built"
    /\ txs'[t] = [user |-> queue'[cur].user, value |-> queue'[cur].value]
    /\ payoutDb' = [payoutDb EXCEPT ![t] = "ETxCreated"]

Marks(s) ==
    /\ pc \in {"send", "check"} /\ pc' # "persist"
    /\ s \in {"ETxCreated", "ETxSent", "ETxConfirmed"}
    /\ OnlyCur /\ tx \in TxIds /\ queue[cur].status # "ETxConfirmed"
    /\ queue'[cur] = [queue[cur] EXCEPT !.status = s]
    /\ known' = known
    /\ \/ s = "ETxCreated" /\ payoutDb' = payoutDb
       \/ s # "ETxCreated" /\ payoutDb' = [payoutDb EXCEPT ![tx] = s]

Rejects ==
    /\ pc \in {"send", "check"} /\ pc' # "persist"
    /\ OnlyCur /\ tx \in TxIds /\ ~OnNetwork(tx) /\ node' = node
    /\ queue[cur].status # "ETxConfirmed"
    /\ queue'[cur].tx = NoTx /\ queue'[cur].status = "EInitialized"
    /\ known' = known
    /\ payoutDb' = [payoutDb EXCEPT ![tx] = "ETxRejected"]

\* What the node may do in any step: it never forgets what it built, and only
\* the transaction being sent can newly reach the network.
NodeStep ==
    \A t \in TxIds :
        /\ node[t] # "none" => node'[t] # "none" /\ txs'[t] = txs[t]
        /\ OnNetwork(t)' => OnNetwork(t) \/ (pc = "send" /\ t = tx)

StepKind ==
    \/ Quiet
    \/ \E t \in TxIds : Creates(t)
    \/ \E s \in Statuses : Marks(s)
    \/ Rejects
    \/ FinishPayout
    \/ Restart

LEMMA QuietPushes ==
    ASSUME TypeOK, NEW who, who \subseteq Users, NEW value,
           \A u \in who : value[u] \in Nat,
           queue' = PushBack(queue, who, value)
    PROVE  SameTxs(queue, queue')
<1>1. IsQueue(queue)
  BY DEF TypeOK
<1>2. /\ DOMAIN queue \subseteq DOMAIN queue'
      /\ \A p \in DOMAIN queue : queue'[p] = queue[p]
      /\ \A p \in DOMAIN queue' \ DOMAIN queue : queue'[p].tx = NoTx
  BY <1>1, PushBackKeeps
<1> QED
  BY <1>2 DEF SameTxs

LEMMA StepKinds ==
    ASSUME TypeOK, [Next]_vars
    PROVE  NodeStep /\ StepKind
<1> USE DEF memory, disk, outside, network
<1> DEFINE Goal == NodeStep /\ StepKind
<1>0. network' = network => NodeStep
  BY DEF NodeStep, OnNetwork
<1> USE DEF StepKind
<1>1. CASE StartPayout
  <2>1. PICK acc \in [Users -> Money] :
          queue' = PushBack(Erase(queue, Small(queue)), {queue[p].user : p \in Small(queue)}, acc)
    BY <1>1 DEF StartPayout
  <2> DEFINE e == Erase(queue, Small(queue))
             who == {queue[p].user : p \in Small(queue)}
  <2>2. who \subseteq Users
    BY DEF Small, TypeOK, IsQueue, PayoutDbRecord
  <2>3. /\ IsQueue(e) /\ DOMAIN e = DOMAIN queue \ Small(queue)
        /\ \A p \in DOMAIN e : e[p] = queue[p]
    <3>1. IsQueue(queue)
      BY DEF TypeOK
    <3> QED
      BY <3>1, EraseKeeps, ZenonT(60)
  <2>4. \A u \in who : acc[u] \in Nat
    <3>1. \A u \in Users : acc[u] \in Nat
      BY PayoutAssumptions DEF Money
    <3> HIDE DEF who
    <3> QED
      BY <2>2, <3>1
  <2>5. \A p \in Small(queue) : queue[p].tx = NoTx
    BY DEF Small, TypeOK, IsQueue
  <2>6. queue' = PushBack(e, who, acc)
    BY <2>1
  <2> HIDE DEF e, who
  <2>7. /\ DOMAIN e \subseteq DOMAIN queue'
        /\ \A p \in DOMAIN e : queue'[p] = e[p]
        /\ \A p \in DOMAIN queue' \ DOMAIN e : queue'[p].tx = NoTx
    BY <2>2, <2>3, <2>4, <2>6, PushBackKeeps
  <2>8. SameTxs(queue, queue')
    BY <2>3, <2>5, <2>7 DEF SameTxs
  <2>9. pc' # "persist" /\ pc = "idle"
    BY <1>1 DEF StartPayout, Advance, IoCall
  <2> QED
    BY <1>0, <1>1, <2>8, <2>9 DEF StartPayout, Quiet
<1>2. CASE PersistTx
  BY <1>0, <1>2 DEF PersistTx, FlushState, Quiet, SameTxs
<1>3. CASE FinishPayout
  BY <1>0, <1>3 DEF FinishPayout
<1>4. CASE BuildFailed
  BY <1>0, <1>4 DEF BuildFailed, Quiet, SameTxs
<1>5. ASSUME NEW t \in TxIds, NEW content, NodeBuilds(t, content) PROVE NodeStep
  BY <1>5 DEF NodeBuilds, NodeStep, OnNetwork, TypeOK
<1>6. ASSUME NEW t \in TxIds, NEW total, BuildDuplicate(t, total) PROVE Goal
  <2>1. NodeStep
    BY <1>5, <1>6 DEF BuildDuplicate
  <2>2. cur \in DOMAIN queue /\ queue[cur].tx = NoTx /\ queue[cur] \in PayoutDbRecord
    BY <1>6 DEF BuildDuplicate, TypeOK, CursorOK, IsQueue
  <2> DEFINE r == [queue[cur] EXCEPT !.value = total]
  <2>3. r.tx = NoTx
    BY <2>2 DEF PayoutDbRecord
  <2>4. queue' = [queue EXCEPT ![cur] = r]
    BY <1>6 DEF BuildDuplicate
  <2>5. SameTxs(queue, queue')
    <3> HIDE DEF r
    <3> QED
      BY <2>2, <2>3, <2>4 DEF SameTxs
  <2> QED
    BY <1>6, <2>1, <2>5 DEF BuildDuplicate, Quiet
<1>7. ASSUME NEW t \in TxIds, NEW total, BuildCreated(t, total) PROVE Goal
  <2>1. NodeStep
    BY <1>5, <1>7 DEF BuildCreated
  <2>2. cur \in DOMAIN queue /\ queue[cur].tx = NoTx /\ queue[cur] \in PayoutDbRecord
    BY <1>7 DEF BuildCreated, TypeOK, CursorOK, IsQueue
  <2> DEFINE r == [queue[cur] EXCEPT !.value = total, !.tx = t, !.status = "ETxCreated"]
  <2>3. /\ r.tx = t /\ r.status = "ETxCreated" /\ r.value = total
        /\ r.user = queue[cur].user
    BY <2>2 DEF PayoutDbRecord
  <2>4. queue' = [queue EXCEPT ![cur] = r]
    BY <1>7 DEF BuildCreated
  <2>5. OnlyCur /\ queue'[cur] = r
    <3> HIDE DEF r
    <3> QED
      BY <1>7, <2>2, <2>4 DEF OnlyCur, BuildCreated
  <2>6. /\ node'[t] = "built"
        /\ txs'[t] = [user |-> queue[cur].user, value |-> total]
    BY <1>7 DEF BuildCreated, NodeBuilds, TypeOK
  <2>7. Creates(t)
    <3> HIDE DEF r
    <3> QED
      BY <1>7, <2>2, <2>3, <2>5, <2>6 DEF BuildCreated, Creates
  <2> QED
    BY <2>1, <2>7
<1>8. ASSUME pc = "send", node' \in {node, Accepted}, txs' = txs PROVE NodeStep
  <2>1. tx \in TxIds
    BY <1>8, CursorRecord
  <2> QED
    BY <1>8, <2>1 DEF NodeStep, Accepted, OnNetwork, TypeOK
<1>9. ASSUME pc \in {"send", "check"}, pc' # "persist", diskQueue' = diskQueue, known' = known,
             NEW s \in {"ETxCreated", "ETxSent", "ETxConfirmed"},
             queue' = [queue EXCEPT ![cur].status = s],
             \/ s = "ETxCreated" /\ payoutDb' = payoutDb
             \/ s # "ETxCreated" /\ payoutDb' = [payoutDb EXCEPT ![tx] = s]
      PROVE  \E m \in Statuses : Marks(m)
  <2>1. /\ DOMAIN queue' = DOMAIN queue
        /\ queue'[cur] = [queue[cur] EXCEPT !.status = s]
        /\ \A p \in DOMAIN queue \ {cur} : queue'[p] = queue[p]
    BY <1>9, StatusType
  <2>2. cur \in DOMAIN queue /\ tx \in TxIds /\ queue[cur].status # "ETxConfirmed"
    BY <1>9, CursorRecord DEF TypeOK, CursorOK
  <2>3. Marks(s)
    BY <1>9, <2>1, <2>2 DEF Marks, OnlyCur
  <2> QED
    BY <2>3 DEF Statuses
<1>10. \A q, from : Advance(q, from) => pc' # "persist"
  BY DEF Advance, IoCall
<1>11. CASE SendOk
  <2>1. NodeStep
    BY <1>8, <1>11 DEF SendOk
  <2>2. \E m \in Statuses : Marks(m)
    BY <1>9, <1>10, <1>11 DEF SendOk
  <2> QED
    BY <2>1, <2>2
<1>12. CASE SendError
  BY <1>8, <1>10, <1>12 DEF SendError, Quiet, SameTxs
<1>13. ASSUME pc \in {"send", "check"}, Rejected PROVE Goal
  <2>1. cur \in DOMAIN queue /\ tx \in TxIds /\ queue[cur].status # "ETxConfirmed"
    BY <1>13, CursorRecord DEF TypeOK, CursorOK
  <2>2. Rejects
    BY <1>10, <1>13, <2>1, RejectedType DEF Rejected, Rejects, OnlyCur
  <2>3. NodeStep
    BY <1>0, <1>13 DEF Rejected
  <2> QED
    BY <2>2, <2>3
<1>14. ASSUME NEW f, CheckConfirmed(f) PROVE Goal
  <2>1. \E m \in Statuses : Marks(m)
    BY <1>9, <1>10, <1>14 DEF CheckConfirmed
  <2>2. NodeStep
    BY <1>0, <1>14 DEF CheckConfirmed
  <2> QED
    BY <2>1, <2>2
<1>15. CASE CheckLater
  BY <1>0, <1>10, <1>15 DEF CheckLater, Quiet, SameTxs
<1>16. CASE CheckUnknown
  <2>1. \E m \in Statuses : Marks(m)
    BY <1>9, <1>10, <1>16 DEF CheckUnknown
  <2> QED
    BY <1>0, <1>16, <2>1 DEF CheckUnknown
<1>17. ASSUME NEW r \in Rewards, ProcessReward(r) PROVE Goal
  <2> DEFINE earned(u) == [balance[u] EXCEPT !.balance = @ + r.pay[u]]
             queued == {u \in {v \in Users : r.pay[v] > 0} : QueuesReward(u, earned(u))}
             value == [u \in Users |-> NonQueued(earned(u))]
  <2>1. \A u \in queued : value[u] \in Nat
    <3> SUFFICES ASSUME NEW u \in queued PROVE NonQueued(earned(u)) \in Nat
      OBVIOUS
    <3>1. u \in Users /\ NonQueued(earned(u)) >= 0
      BY DEF QueuesReward
    <3>2. balance[u] \in UserBalanceRecord /\ r.pay[u] \in Nat
      BY <3>1, PayoutAssumptions DEF TypeOK
    <3>3. earned(u).balance \in Int /\ earned(u).requested \in Int
      BY <3>2 DEF UserBalanceRecord
    <3> HIDE DEF earned
    <3> QED
      BY <3>1, <3>3 DEF NonQueued
  <2>2. queued \subseteq Users
    OBVIOUS
  <2>3. queue' = PushBack(queue, queued, value)
    BY <1>17 DEF ProcessReward
  <2>4. SameTxs(queue, queue')
    <3> HIDE DEF queued, value
    <3> QED
      BY <2>1, <2>2, <2>3, QuietPushes
  <2> QED
    BY <1>0, <1>17, <2>4 DEF ProcessReward, Yielded, Quiet
<1>18. ASSUME NEW u \in Users, ManualPayout(u) PROVE Goal
  <2> DEFINE all == [v \in Users |-> NonQueued(balance[u])]
  <2>1. \A v \in {u} : all[v] \in Nat
    <3>1. balance[u] \in UserBalanceRecord
      BY DEF TypeOK
    <3> QED
      BY <1>18, <3>1 DEF ManualPayout, RequestManualPayout, NonQueued, UserBalanceRecord
  <2>2. queue' = PushBack(queue, {u}, all) /\ {u} \subseteq Users
    BY <1>18 DEF ManualPayout, RequestManualPayout
  <2>3. SameTxs(queue, queue')
    <3> HIDE DEF all
    <3> QED
      BY <2>1, <2>2, QuietPushes
  <2> QED
    BY <1>0, <1>18, <2>3 DEF ManualPayout, RequestManualPayout, Yielded, Quiet
<1>19. ASSUME NEW t \in TxIds, NodeMines(t) \/ NodeEvicts(t) PROVE Goal
  <2>1. NodeStep
    BY <1>19 DEF NodeMines, NodeEvicts, NodeStep, OnNetwork, TypeOK
  <2> QED
    BY <1>19, <2>1 DEF NodeMines, NodeEvicts, Quiet, SameTxs
<1>20. CASE Restart
  <2>1. pc # "send" => NodeStep
    BY <1>0, <1>20 DEF Restart
  <2>2. pc = "send" => NodeStep
    BY <1>8, <1>20 DEF Restart
  <2> QED
    BY <1>20, <2>1, <2>2
<1>21. CASE UNCHANGED <<memory, disk, payoutDb, network>>
  BY <1>0, <1>21 DEF Quiet, SameTxs
<1>22. CASE MakePayoutStep
  BY <1>1, <1>2, <1>3, <1>4, <1>6, <1>7, <1>11, <1>12, <1>13, <1>14, <1>15, <1>16, <1>22
     DEF MakePayoutStep, SendRejected, CheckRejected
<1>23. CASE \/ \E s \in BackendSettings : UpdateBackendSettings(s)
            \/ \E u \in Users, s \in UserSettings : OnUserSettingsUpdate(u, s)
            \/ UNCHANGED vars
  BY <1>21, <1>23 DEF UpdateBackendSettings, OnUserSettingsUpdate, vars
<1> QED
  BY <1>17, <1>18, <1>19, <1>20, <1>22, <1>23 DEF Next

----------------------------------------------------------------------------
(* One payout per transaction, and each transaction pays its payout.       *)

\* A transaction in a list was built by the node, for that payout; n and x stand
\* for the node's record of states and contents.
BuiltFor(q, n, x) ==
    \A p \in DOMAIN q : q[p].tx # NoTx =>
        n[q[p].tx] # "none" /\ x[q[p].tx] = [user |-> q[p].user, value |-> q[p].value]

OwnershipInv ==
    /\ \A p \in DOMAIN queue : queue[p].tx # NoTx => queue[p].tx \in known
    /\ OwnedOnce(queue) /\ OwnedOnce(diskQueue)
    /\ BuiltFor(queue, node, txs) /\ BuiltFor(diskQueue, node, txs)

LEMMA InitOwnership == Init => OwnershipInv
  BY DEF Init, EmptyQueue, OwnershipInv, OwnedOnce, BuiltFor

\* Whatever the node does in a step, what it built for a list stays built.
LEMMA BuiltForKept ==
    ASSUME NodeStep, NEW q, IsQueue(q), BuiltFor(q, node, txs)
    PROVE  BuiltFor(q, node', txs')
<1>1. \A p \in DOMAIN q : q[p].tx # NoTx => q[p].tx \in TxIds
  BY DEF IsQueue, PayoutDbRecord
<1> QED
  BY <1>1 DEF BuiltFor, NodeStep

LEMMA NextOwnership ==
    ASSUME TypeOK, OwnershipInv, [Next]_vars
    PROVE  OwnershipInv'
<1>1. NodeStep /\ StepKind
  BY StepKinds
<1>2. IsQueue(queue) /\ IsQueue(diskQueue)
  BY DEF TypeOK
<1>3. BuiltFor(queue, node', txs') /\ BuiltFor(diskQueue, node', txs')
  BY <1>1, <1>2, BuiltForKept DEF OwnershipInv
<1>4. SUFFICES /\ \A p \in DOMAIN queue' : queue'[p].tx # NoTx => queue'[p].tx \in known'
               /\ OwnedOnce(queue') /\ BuiltFor(queue', node', txs')
               /\ OwnedOnce(diskQueue') /\ BuiltFor(diskQueue', node', txs')
  BY DEF OwnershipInv
<1> USE DEF OwnedOnce, BuiltFor
<1>5. CASE Quiet
  <2>1. /\ \A p \in DOMAIN queue' : queue'[p].tx # NoTx => queue'[p].tx \in known'
        /\ OwnedOnce(queue') /\ BuiltFor(queue', node', txs')
    BY <1>3, <1>5 DEF Quiet, SameTxs, OwnershipInv
  <2> QED
    BY <1>3, <1>5, <2>1 DEF Quiet, OwnershipInv
<1>6. ASSUME NEW t \in TxIds, Creates(t) PROVE OwnershipInv'
  <2>1. \A p \in DOMAIN queue \ {cur} : queue'[p] = queue[p] /\ queue[p].tx # t
    BY <1>6, PayoutAssumptions DEF Creates, OnlyCur, OwnershipInv
  <2>2. /\ \A p \in DOMAIN queue' : queue'[p].tx # NoTx => queue'[p].tx \in known'
        /\ OwnedOnce(queue')
    BY <1>6, <2>1 DEF Creates, OnlyCur, OwnershipInv
  <2>3. BuiltFor(queue', node', txs')
    BY <1>3, <1>6, <2>1 DEF Creates, OnlyCur
  <2> QED
    BY <1>3, <1>6, <2>2, <2>3 DEF Creates, OnlyCur, OwnershipInv
<1>7. ASSUME NEW s \in Statuses, Marks(s) PROVE OwnershipInv'
  <2>1. queue[cur] \in PayoutDbRecord
    BY <1>2, <1>7 DEF Marks, OnlyCur, IsQueue
  <2>2. /\ queue'[cur].tx = queue[cur].tx
        /\ queue'[cur].user = queue[cur].user
        /\ queue'[cur].value = queue[cur].value
    BY <1>7, <2>1 DEF Marks, PayoutDbRecord
  <2>3. /\ DOMAIN queue' = DOMAIN queue
        /\ \A p \in DOMAIN queue : /\ queue'[p].tx = queue[p].tx
                                   /\ queue'[p].user = queue[p].user
                                   /\ queue'[p].value = queue[p].value
    BY <1>7, <2>2 DEF Marks, OnlyCur
  <2> QED
    BY <1>3, <1>7, <2>3 DEF Marks, OnlyCur, OwnershipInv
<1>8. CASE Rejects
  BY <1>3, <1>8 DEF Rejects, OnlyCur, OwnershipInv
<1>9. CASE FinishPayout
  <2>1. /\ DOMAIN queue' = DOMAIN queue \ Confirmed(queue)
        /\ \A p \in DOMAIN queue' : queue'[p] = queue[p]
    <3> DEFINE e == Erase(queue, Confirmed(queue))
    <3>1. DOMAIN e = DOMAIN queue \ Confirmed(queue) /\ \A p \in DOMAIN e : e[p] = queue[p]
      BY <1>2, EraseKeeps
    <3>2. queue' = e
      BY <1>9 DEF FinishPayout
    <3> HIDE DEF e
    <3> QED
      BY <3>1, <3>2
  <2>2. diskQueue' = queue' /\ known' = known \ {queue[p].tx : p \in Confirmed(queue)}
    BY <1>9 DEF FinishPayout, FlushState
  <2>3. \A p \in DOMAIN queue' : queue'[p].tx # NoTx => queue'[p].tx \in known'
    <3> SUFFICES ASSUME NEW p \in DOMAIN queue', queue'[p].tx # NoTx
                 PROVE  queue'[p].tx \in known'
      OBVIOUS
    <3>1. \A o \in Confirmed(queue) : o \in DOMAIN queue /\ queue[o].tx # queue[p].tx
      BY <2>1 DEF Confirmed, OwnershipInv
    <3> QED
      BY <2>1, <2>2, <3>1 DEF OwnershipInv
  <2> QED
    BY <1>3, <2>1, <2>2, <2>3 DEF OwnershipInv
<1>10. CASE Restart
  BY <1>3, <1>10 DEF Restart, disk, OwnershipInv
<1> QED
  BY <1>1, <1>5, <1>6, <1>7, <1>8, <1>9, <1>10 DEF StepKind, OwnershipInv

\* No transaction is shared by two payouts, in memory or on disk, for every
\* set of transactions and any number of restarts.
THEOREM TxOwnedOnceHolds == Spec => []TxOwnedOnce
<1>1. Init => TypeOK /\ OwnershipInv
  BY InitTypeOK, InitOwnership
<1>2. TypeOK /\ OwnershipInv /\ [Next]_vars => (TypeOK /\ OwnershipInv)'
  BY NextTypeOK, NextOwnership
<1>3. OwnershipInv => TxOwnedOnce
  BY DEF OwnershipInv, TxOwnedOnce
<1> QED
  BY <1>1, <1>2, <1>3, PTL DEF Spec

\* Every payout that has a transaction asks for exactly what that transaction
\* pays, in memory and on disk.
THEOREM TxMatchesPayoutHolds == Spec => []TxMatchesPayout
<1>1. Init => TypeOK /\ OwnershipInv
  BY InitTypeOK, InitOwnership
<1>2. TypeOK /\ OwnershipInv /\ [Next]_vars => (TypeOK /\ OwnershipInv)'
  BY NextTypeOK, NextOwnership
<1>3. OwnershipInv => TxMatchesPayout
  BY DEF OwnershipInv, BuiltFor, TxMatchesPayout, PaidBy
<1> QED
  BY <1>1, <1>2, <1>3, PTL DEF Spec

----------------------------------------------------------------------------
(* Nothing that reached the network is ever forgotten.                     *)

HasTx(q, t) == \E p \in DOMAIN q : q[p].tx = t

DurabilityInv ==
    \* A transaction in the queue is on disk, but for the one about to be saved,
    \* which is not on the network yet.
    /\ \A p \in DOMAIN queue :
          queue[p].tx # NoTx /\ ~(pc = "persist" /\ p = cur) => HasTx(diskQueue, queue[p].tx)
    /\ pc = "persist" => ~OnNetwork(tx)
    \* A transaction leaves the queue only when it is confirmed.
    /\ \A t \in TxIds : OnNetwork(t) => HasTx(queue, t) \/ payoutDb[t] = "ETxConfirmed"
    /\ \A p \in DOMAIN queue :
          queue[p].status = "ETxConfirmed" => payoutDb[queue[p].tx] = "ETxConfirmed"
    \* What the disk calls confirmed, the queue calls confirmed.
    /\ \A o \in DOMAIN diskQueue : diskQueue[o].status = "ETxConfirmed" =>
          \E p \in DOMAIN queue : /\ queue[p].tx = diskQueue[o].tx
                                 /\ queue[p].status = "ETxConfirmed"

\* The property follows: what is on the network is in the queue, and what is in
\* the queue was saved first.
LEMMA DurabilityImplies ==
    ASSUME TypeOK, DurabilityInv
    PROVE  BroadcastIsDurable
<1> SUFFICES ASSUME NEW t \in TxIds, OnNetwork(t), payoutDb[t] # "ETxConfirmed"
             PROVE  t \in TxsOf(diskQueue)
  BY DEF BroadcastIsDurable
<1>1. PICK p \in DOMAIN queue : queue[p].tx = t
  BY DEF DurabilityInv, HasTx
<1>2. ~(pc = "persist" /\ p = cur)
  BY <1>1 DEF DurabilityInv, tx
<1>3. HasTx(diskQueue, t)
  BY <1>1, <1>2, PayoutAssumptions DEF DurabilityInv
<1> QED
  BY <1>3, PayoutAssumptions DEF HasTx, TxsOf

LEMMA InitDurability == Init => DurabilityInv
  BY DEF Init, EmptyQueue, DurabilityInv, OnNetwork

LEMMA NextDurability ==
    ASSUME TypeOK, OwnershipInv, DurabilityInv, [Next]_vars
    PROVE  DurabilityInv'
<1>1. NodeStep /\ StepKind
  BY StepKinds
<1>2. IsQueue(queue) /\ IsQueue(diskQueue)
  BY DEF TypeOK
<1>3. \A p \in DOMAIN queue : queue[p].status = "ETxConfirmed" =>
         queue[p].tx # NoTx /\ queue[p].tx \in TxIds
  BY <1>2 DEF IsQueue, PayoutDbRecord
<1>4. \A p \in DOMAIN diskQueue : diskQueue[p].status = "ETxConfirmed" =>
         diskQueue[p].tx # NoTx /\ diskQueue[p].tx \in TxIds
  BY <1>2 DEF IsQueue, PayoutDbRecord
<1>5. pc = "send" => cur \in DOMAIN queue /\ tx \in TxIds /\ HasTx(queue, tx) /\ HasTx(diskQueue, tx)
  <2> SUFFICES ASSUME pc = "send" PROVE cur \in DOMAIN queue /\ tx \in TxIds /\ HasTx(queue, tx) /\ HasTx(diskQueue, tx)
    OBVIOUS
  <2>1. cur \in DOMAIN queue /\ tx \in TxIds
    BY CursorRecord
  <2> QED
    BY <2>1, PayoutAssumptions DEF HasTx, DurabilityInv, tx
<1>6. \A t \in TxIds : OnNetwork(t)' => HasTx(queue, t) \/ payoutDb[t] = "ETxConfirmed"
  BY <1>1, <1>5 DEF NodeStep, DurabilityInv
<1>7. CASE Quiet
  <2>1. \A t \in TxIds : OnNetwork(t)' => HasTx(queue', t) \/ payoutDb'[t] = "ETxConfirmed"
    BY <1>6, <1>7, PayoutAssumptions DEF HasTx, Quiet, SameTxs
  <2>2. \A p \in DOMAIN queue' :
          queue'[p].status = "ETxConfirmed" => payoutDb'[queue'[p].tx] = "ETxConfirmed"
    <3>1. IsQueue(queue')
      BY NextTypeOK DEF TypeOK
    <3>2. \A p \in DOMAIN queue' : queue'[p].status = "ETxConfirmed" => queue'[p].tx # NoTx
      BY <3>1 DEF IsQueue
    <3> QED
      BY <1>7, <3>2 DEF Quiet, SameTxs, DurabilityInv
  <2>3. pc' = "persist" => ~OnNetwork(tx)'
    <3> SUFFICES ASSUME pc' = "persist" PROVE ~OnNetwork(tx)'
      OBVIOUS
    <3>1. pc = "persist" /\ cur' = cur /\ cur \in DOMAIN queue /\ tx \in TxIds
      BY <1>7, CursorRecord DEF Quiet
    <3>2. tx' = tx
      BY <1>7, <3>1, PayoutAssumptions DEF Quiet, SameTxs, tx
    <3> QED
      BY <1>1, <3>1, <3>2 DEF NodeStep, DurabilityInv, OnNetwork
  <2>4. CASE diskQueue' = queue'
    BY <2>1, <2>2, <2>3, <2>4 DEF DurabilityInv, HasTx
  <2>5. CASE diskQueue' = diskQueue /\ diskQueue' # queue'
    <3>1. \A p \in DOMAIN queue' :
            queue'[p].tx # NoTx /\ ~(pc' = "persist" /\ p = cur') => HasTx(diskQueue', queue'[p].tx)
      BY <1>7, <2>5 DEF Quiet, SameTxs, DurabilityInv, HasTx
    <3>2. \A o \in DOMAIN diskQueue' : diskQueue'[o].status = "ETxConfirmed" =>
            \E p \in DOMAIN queue' : /\ queue'[p].tx = diskQueue'[o].tx
                                    /\ queue'[p].status = "ETxConfirmed"
      BY <1>4, <1>7, <2>5 DEF Quiet, SameTxs, DurabilityInv
    <3> QED
      BY <2>1, <2>2, <2>3, <3>1, <3>2 DEF DurabilityInv
  <2> QED
    BY <1>7, <2>4, <2>5 DEF Quiet
<1>8. SUFFICES ASSUME ~Quiet
               PROVE /\ \A p \in DOMAIN queue' : queue'[p].tx # NoTx /\ ~(pc' = "persist" /\ p = cur')
                           => HasTx(diskQueue', queue'[p].tx)
                     /\ pc' = "persist" => ~OnNetwork(tx)'
                     /\ \A t \in TxIds : OnNetwork(t)' =>
                           HasTx(queue', t) \/ payoutDb'[t] = "ETxConfirmed"
                     /\ \A p \in DOMAIN queue' : queue'[p].status = "ETxConfirmed"
                           => payoutDb'[queue'[p].tx] = "ETxConfirmed"
                     /\ \A o \in DOMAIN diskQueue' : diskQueue'[o].status = "ETxConfirmed" =>
                           \E p \in DOMAIN queue' : /\ queue'[p].tx = diskQueue'[o].tx
                                                   /\ queue'[p].status = "ETxConfirmed"
  BY <1>7 DEF DurabilityInv
<1> DEFINE Saved == \A p \in DOMAIN queue' : queue'[p].tx # NoTx /\ ~(pc' = "persist" /\ p = cur')
                       => HasTx(diskQueue', queue'[p].tx)
           Kept == \A t \in TxIds : OnNetwork(t)' =>
                       HasTx(queue', t) \/ payoutDb'[t] = "ETxConfirmed"
           Recorded == \A p \in DOMAIN queue' : queue'[p].status = "ETxConfirmed"
                       => payoutDb'[queue'[p].tx] = "ETxConfirmed"
           Agree == \A o \in DOMAIN diskQueue' : diskQueue'[o].status = "ETxConfirmed" =>
                       \E p \in DOMAIN queue' : /\ queue'[p].tx = diskQueue'[o].tx
                                               /\ queue'[p].status = "ETxConfirmed"
           Goal == Saved /\ (pc' = "persist" => ~OnNetwork(tx)') /\ Kept /\ Recorded /\ Agree
<1>9. payoutDb \in [TxIds -> Statuses \cup {"none", "ETxRejected"}]
  BY DEF TypeOK
<1>10. ASSUME NEW t \in TxIds, Creates(t) PROVE Goal
  <2>1. \A p \in DOMAIN queue \ {cur} : queue'[p] = queue[p] /\ queue[p].tx # t
    BY <1>10, PayoutAssumptions DEF Creates, OnlyCur, OwnershipInv
  <2>2. Saved
    BY <1>10, <2>1 DEF Creates, OnlyCur, DurabilityInv
  <2>3. tx' = t /\ ~OnNetwork(tx)'
    BY <1>10 DEF Creates, tx, OnNetwork
  <2>4. Kept
    <3> SUFFICES ASSUME NEW x \in TxIds, OnNetwork(x)'
                 PROVE  HasTx(queue', x) \/ payoutDb'[x] = "ETxConfirmed"
      OBVIOUS
    <3>1. x # t
      BY <1>10 DEF Creates, OnNetwork
    <3>2. HasTx(queue, x) \/ payoutDb[x] = "ETxConfirmed"
      BY <1>6
    <3>3. HasTx(queue, x) => HasTx(queue', x)
      BY <1>10, <2>1, PayoutAssumptions DEF Creates, OnlyCur, HasTx
    <3>4. payoutDb'[x] = payoutDb[x]
      BY <1>9, <1>10, <3>1 DEF Creates
    <3> QED
      BY <3>2, <3>3, <3>4
  <2>5. Recorded
    BY <1>3, <1>9, <1>10, <2>1 DEF Creates, OnlyCur, DurabilityInv
  <2>6. Agree
    BY <1>4, <1>10, <2>1 DEF Creates, OnlyCur, DurabilityInv
  <2> QED
    BY <2>2, <2>3, <2>4, <2>5, <2>6
<1>11. ASSUME NEW s \in Statuses, Marks(s) PROVE Goal
  <2>1. queue[cur] \in PayoutDbRecord
    BY <1>2, <1>11 DEF Marks, OnlyCur, IsQueue
  <2>2. queue'[cur].tx = queue[cur].tx /\ queue'[cur].status = s
    BY <1>11, <2>1 DEF Marks, PayoutDbRecord
  <2>3. /\ DOMAIN queue' = DOMAIN queue /\ cur \in DOMAIN queue
        /\ \A p \in DOMAIN queue : queue'[p].tx = queue[p].tx
        /\ \A p \in DOMAIN queue \ {cur} : queue'[p].status = queue[p].status
        /\ diskQueue' = diskQueue
        /\ pc # "persist" /\ pc' # "persist"
    BY <1>11, <2>2 DEF Marks, OnlyCur
  <2>4. Saved
    BY <2>3 DEF DurabilityInv
  <2>5. \A x \in TxIds : x # tx => payoutDb'[x] = payoutDb[x]
    BY <1>9, <1>11 DEF Marks
  <2>6. HasTx(queue', tx)
    BY <2>3 DEF HasTx, tx
  <2>7. \A x : HasTx(queue, x) => HasTx(queue', x)
    BY <2>3 DEF HasTx
  <2>8. Kept
    BY <1>6, <2>5, <2>6, <2>7
  <2>9. \A p \in DOMAIN queue \ {cur} :
          queue[p].status = "ETxConfirmed" => queue[p].tx # tx /\ queue[p].tx \in TxIds
    BY <1>3, <2>3 DEF OwnershipInv, OwnedOnce, tx
  <2>10. Recorded
    <3>1. s = "ETxConfirmed" => payoutDb'[tx] = "ETxConfirmed"
      BY <1>9, <1>11 DEF Marks
    <3> QED
      BY <2>2, <2>3, <2>5, <2>9, <3>1 DEF DurabilityInv, tx
  <2>11. Agree
    BY <1>11, <2>3 DEF Marks, DurabilityInv
  <2> QED
    BY <2>3, <2>4, <2>8, <2>10, <2>11
<1>12. CASE Rejects
  <2>1. Saved
    BY <1>12 DEF Rejects, OnlyCur, DurabilityInv
  <2>2. \A x \in TxIds : x # tx => payoutDb'[x] = payoutDb[x]
    BY <1>9, <1>12 DEF Rejects
  <2>3. \A x \in TxIds : x # tx /\ HasTx(queue, x) => HasTx(queue', x)
    BY <1>12 DEF Rejects, OnlyCur, HasTx, tx
  <2>4. \A x \in TxIds : OnNetwork(x)' => x # tx
    BY <1>12 DEF Rejects, OnNetwork
  <2>5. Kept
    BY <1>6, <2>2, <2>3, <2>4
  <2>6. \A p \in DOMAIN queue \ {cur} :
          queue[p].status = "ETxConfirmed" => queue[p].tx # tx /\ queue[p].tx \in TxIds
    BY <1>3, <1>12 DEF Rejects, OnlyCur, OwnershipInv, OwnedOnce, tx
  <2>7. Recorded
    BY <1>12, <2>2, <2>6 DEF Rejects, OnlyCur, DurabilityInv
  <2>8. Agree
    BY <1>12 DEF Rejects, OnlyCur, DurabilityInv
  <2> QED
    BY <1>12, <2>1, <2>5, <2>7, <2>8 DEF Rejects
<1>13. CASE FinishPayout
  <2>1. /\ DOMAIN queue' = DOMAIN queue \ Confirmed(queue)
        /\ \A p \in DOMAIN queue' : queue'[p] = queue[p]
    <3> DEFINE e == Erase(queue, Confirmed(queue))
    <3>1. DOMAIN e = DOMAIN queue \ Confirmed(queue) /\ \A p \in DOMAIN e : e[p] = queue[p]
      BY <1>2, EraseKeeps
    <3>2. queue' = e
      BY <1>13 DEF FinishPayout
    <3> HIDE DEF e
    <3> QED
      BY <3>1, <3>2
  <2>2. diskQueue' = queue' /\ payoutDb' = payoutDb /\ pc' = "idle"
    BY <1>13 DEF FinishPayout, FlushState
  <2>3. \A x \in TxIds : HasTx(queue, x) => HasTx(queue', x) \/ payoutDb[x] = "ETxConfirmed"
    BY <2>1 DEF HasTx, Confirmed, DurabilityInv
  <2>4. Kept
    BY <1>6, <2>2, <2>3
  <2>5. Recorded /\ Saved /\ Agree
    BY <2>1, <2>2 DEF HasTx, DurabilityInv
  <2> QED
    BY <2>2, <2>4, <2>5
<1>14. CASE Restart
  <2>1. queue' = diskQueue /\ diskQueue' = diskQueue /\ payoutDb' = payoutDb /\ pc' = "idle"
    BY <1>14 DEF Restart, disk
  <2>2. BroadcastIsDurable
    BY DurabilityImplies
  <2>3. \A t \in TxIds : OnNetwork(t)' => HasTx(diskQueue, t) \/ payoutDb[t] = "ETxConfirmed"
    BY <1>1, <1>5, <2>2 DEF NodeStep, BroadcastIsDurable, TxsOf, HasTx
  <2>4. Recorded
    BY <2>1 DEF DurabilityInv
  <2>5. Saved /\ Agree
    BY <2>1 DEF HasTx
  <2> QED
    BY <2>1, <2>3, <2>4, <2>5
<1> QED
  BY <1>1, <1>8, <1>10, <1>11, <1>12, <1>13, <1>14 DEF StepKind

\* "Persist TransactionId before sending to prevent duplicate transactions on
\* crash" (makePayout): a transaction that reached the network is in the saved
\* queue or confirmed, whenever the process dies and however often.
THEOREM BroadcastIsDurableHolds == Spec => []BroadcastIsDurable
<1> DEFINE IInv == TypeOK /\ OwnershipInv /\ DurabilityInv
<1>1. Init => IInv
  BY InitTypeOK, InitOwnership, InitDurability
<1>2. IInv /\ [Next]_vars => IInv'
  BY NextTypeOK, NextOwnership, NextDurability
<1>3. IInv => BroadcastIsDurable
  BY DurabilityImplies
<1> QED
  BY <1>1, <1>2, <1>3, PTL DEF Spec

----------------------------------------------------------------------------
(* Money.  Until the process has restarted, the control sum of makePayout  *)
(* holds and nobody is sent more than was credited.                        *)

\* What the record at each position asks for user u, until it is confirmed.
Due(q, u) ==
    [p \in DOMAIN q |-> IF q[p].user = u /\ q[p].status # "ETxConfirmed" THEN q[p].value ELSE 0]

Owed(q, u) == Total(Due(q, u), DOMAIN q)

\* What the transactions recorded as confirmed have paid to u; db and x stand for
\* the payouts database and the contents of transactions.
PaidTo(db, x, u) ==
    [t \in TxIds |-> IF db[t] = "ETxConfirmed" /\ x[t].user = u THEN x[t].value ELSE 0]

Content == [user : Users, value : Nat]

\* The balances agree with the queue and with what was credited.  Fees are taken
\* from the balance alone, so it may fall below what is queued.
LedgerInv ==
    /\ \A u \in Users : balance[u].requested = Owed(queue, u)
    /\ \A u \in Users : balance[u].balance + balance[u].paid <= credited[u]
    /\ \A u \in Users : balance[u].requested + balance[u].paid <= credited[u]

\* The balances have what the confirmed transactions paid.
SettledInv ==
    /\ \A t \in TxIds : node[t] # "none" => txs[t] \in Content
    /\ \A t \in TxIds : payoutDb[t] = "ETxConfirmed" => node[t] # "none"
    /\ \A u \in Users : Total(PaidTo(payoutDb, txs, u), TxIds) <= balance[u].paid

LEMMA DueIs ==
    ASSUME NEW q, IsQueue(q), NEW u
    PROVE  /\ IsFiniteSet(DOMAIN q) /\ \A p \in DOMAIN q : Due(q, u)[p] \in Nat
           /\ Owed(q, u) \in Nat
<1>1. IsFiniteSet(DOMAIN q) /\ \A p \in DOMAIN q : q[p] \in PayoutDbRecord /\ q[p].value \in Nat
  BY DEF IsQueue, PayoutDbRecord
<1>2. \A p \in DOMAIN q : Due(q, u)[p] \in Nat
  BY <1>1 DEF Due
<1>3. Total(Due(q, u), DOMAIN q) \in Nat
  <2> DEFINE f == Due(q, u)
             S == DOMAIN q
  <2>1. IsFiniteSet(S) /\ \A p \in S : f[p] \in Nat
    BY <1>1, <1>2
  <2> HIDE DEF f, S
  <2>2. Total(f, S) \in Nat
    BY <2>1, SumNat
  <2> QED
    BY <2>2 DEF f, S
<1> QED
  BY <1>1, <1>2, <1>3 DEF Owed

\* The sum of the payouts at positions that are not confirmed.
LEMMA EnqueuedIs ==
    ASSUME NEW q, IsQueue(q), NEW u, NEW at, at \subseteq DOMAIN q \ Confirmed(q)
    PROVE  Enqueued(q, at, u) = Total(Due(q, u), at) /\ Enqueued(q, at, u) \in Nat
<1> DEFINE f == Due(q, u)
           g == [p \in at |-> q[p].value]
           R == {p \in at : q[p].user = u}
           A == at
<1>1. IsFiniteSet(A) /\ (\A p \in A : f[p] \in Int /\ f[p] \in Nat) /\ R \in SUBSET A
  BY DueIs, FS_Subset
<1>2. \A p \in A \ R : f[p] = 0
  BY DEF Due
<1>3. \A p \in R : f[p] \in Int /\ f[p] = g[p]
  BY <1>1 DEF Due, Confirmed
<1>4. IsFiniteSet(R) /\ \A p \in R : f[p] \in Nat
  BY <1>1, FS_Subset
<1> HIDE DEF f, g, R, A
<1>5. Total(f, A) = Total(f, R)
  BY <1>1, <1>2, SumSupport
<1>6. Total(f, R) = Total(g, R) /\ Total(f, R) \in Nat
  BY <1>3, <1>4, SumEqual, SumNat
<1> QED
  BY <1>5, <1>6 DEF f, g, R, A, Enqueued

LEMMA OwedIs ==
    ASSUME NEW q, IsQueue(q), NEW u
    PROVE  Enqueued(q, DOMAIN q \ Confirmed(q), u) = Owed(q, u)
<1> DEFINE f == Due(q, u)
           S == DOMAIN q
           A == DOMAIN q \ Confirmed(q)
<1>1. Enqueued(q, A, u) = Total(f, A)
  BY EnqueuedIs
<1>2. IsFiniteSet(S) /\ A \in SUBSET S /\ \A p \in S : f[p] \in Int
  BY DueIs
<1>3. \A p \in S \ A : f[p] = 0
  BY DEF Due, Confirmed
<1> HIDE DEF f, S, A
<1>4. Total(f, S) = Total(f, A)
  BY <1>2, <1>3, SumSupport
<1> QED
  BY <1>1, <1>4 DEF f, S, A, Owed

\* Erasing takes away what the erased records asked for.
LEMMA OwedErase ==
    ASSUME NEW q, IsQueue(q), NEW u, NEW gone, gone \subseteq DOMAIN q
    PROVE  Owed(q, u) = Owed(Erase(q, gone), u) + Total(Due(q, u), gone)
<1> DEFINE f == Due(q, u)
           n == Erase(q, gone)
           g == Due(n, u)
           S == DOMAIN q
           G == gone
           R == S \ G
<1>1. DOMAIN n = R /\ \A p \in R : n[p] = q[p]
  BY EraseKeeps
<1>2. IsFiniteSet(S) /\ \A p \in S : f[p] \in Int
  BY DueIs
<1>3. IsFiniteSet(R) /\ IsFiniteSet(G) /\ R \cap G = {} /\ R \cup G = S /\ \A p \in R \cup G : f[p] \in Int
  BY <1>2, FS_Subset
<1>4. \A p \in R : f[p] \in Int /\ f[p] = g[p]
  BY <1>1, <1>2 DEF Due
<1> HIDE DEF f, g, n, S, G, R
<1>5. Total(f, R \cup G) = Total(f, R) + Total(f, G)
  BY <1>3, SumUnion
<1>6. Total(f, R) = Total(g, R)
  BY <1>3, <1>4, SumEqual
<1>7. Total(f, S) = Total(g, R) + Total(f, G)
  BY <1>3, <1>5, <1>6, Zenon
<1>8. Owed(q, u) = Total(f, S) /\ Owed(n, u) = Total(g, R)
  BY <1>1 DEF Owed, f, g, S
<1> QED
  BY <1>7, <1>8 DEF n, f, G

\* push_back adds the value of the new record of u, if there is one.
LEMMA OwedPush ==
    ASSUME NEW q, IsQueue(q), NEW who, who \subseteq Users, NEW value,
           \A v \in who : value[v] \in Nat, NEW u \in Users
    PROVE  Owed(PushBack(q, who, value), u) = Owed(q, u) + IF u \in who THEN value[u] ELSE 0
<1> DEFINE e == EndOf(q)
           new == {e + v : v \in who}
           n == PushBack(q, who, value)
           f == Due(q, u)
           g == Due(n, u)
           S == DOMAIN q
           z == e + u
<1>1. e \in Nat \ {0} /\ \A p \in S : p \in Nat /\ p < e
  BY EndOfList DEF IsQueue
<1>2. who \subseteq Nat /\ u \in Nat
  BY PayoutAssumptions
<1>3. IsQueue(n) /\ \A p \in DOMAIN q : n[p] = q[p]
  <2>1. n = PushBack(q, who, value)
    OBVIOUS
  <2> HIDE DEF n
  <2> QED
    BY <2>1, PushBackKeeps
<1>4. DOMAIN n = S \cup new /\ S \cap new = {}
  <2>1. DOMAIN n = S \cup new
    BY DEF PushBack
  <2>2. \A p \in new : p \in Nat /\ ~(p < e)
    BY <1>1, <1>2
  <2> QED
    BY <1>1, <2>1, <2>2
<1>5. \A p \in new : p - e \in who /\ p = e + (p - e) /\ n[p] = NewPayout(p - e, value[p - e])
  BY <1>1, <1>2, <1>4 DEF PushBack
<1>6. IsFiniteSet(S) /\ \A p \in S : f[p] \in Int /\ f[p] = g[p]
  BY <1>3, <1>4, DueIs DEF Due
<1>7. IsFiniteSet(new) /\ \A p \in S \cup new : g[p] \in Int
  <2> HIDE DEF n, new
  <2>1. IsFiniteSet(DOMAIN n) /\ \A p \in DOMAIN n : g[p] \in Nat
    BY <1>3, DueIs
  <2> QED
    BY <1>4, <2>1, FS_Subset
<1>8. \A p \in new : g[p] = IF p = z THEN value[u] ELSE 0
  <2> SUFFICES ASSUME NEW p \in new PROVE g[p] = IF p = z THEN value[u] ELSE 0
    OBVIOUS
  <2>1. n[p].user = p - e /\ n[p].value = value[p - e] /\ n[p].status = "EInitialized" /\ p \in DOMAIN n
    <3> HIDE DEF n, new, e
    <3>1. n[p] = NewPayout(p - e, value[p - e]) /\ p \in DOMAIN n
      BY <1>4, <1>5
    <3> QED
      BY <3>1 DEF NewPayout
  <2>2. (p - e = u) <=> (p = z)
    <3> DEFINE k == p - e
    <3>1. k \in Nat /\ u \in Nat /\ e \in Nat /\ p = e + k /\ z = e + u
      BY <1>1, <1>2, <1>5
    <3>2. p - e = k
      OBVIOUS
    <3> HIDE DEF k, e, z, new
    <3> QED
      BY <3>1, <3>2
  <2> QED
    BY <2>1, <2>2 DEF Due
<1>9. z \in new <=> u \in who
  BY <1>1, <1>2
<1> HIDE DEF f, g, n, S, e, new, z
<1>10. Total(g, S \cup new) = Total(g, S) + Total(g, new)
  BY <1>4, <1>6, <1>7, SumUnion
<1>11. Total(f, S) = Total(g, S)
  BY <1>6, SumEqual
<1>12. Total(g, new) = IF u \in who THEN value[u] ELSE 0
  <2>1. CASE u \notin who
    <3>1. \A p \in new : g[p] = 0
      BY <1>8, <1>9, <2>1
    <3>2. Total(g, new) = 0
      BY <1>7, <3>1, SumZero
    <3> QED
      BY <2>1, <3>2
  <2>2. CASE u \in who
    <3> DEFINE W == new \ {z}
    <3>1. z \in new /\ g[z] = value[u] /\ value[u] \in Nat
      BY <1>8, <1>9, <2>2
    <3>2. IsFiniteSet(W) /\ \A p \in W : g[p] = 0
      BY <1>7, <1>8, FS_Subset
    <3>3. \A p \in new : g[p] \in Int
      BY <1>7
    <3>4. Total(g, new) = g[z] + Total(g, new \ {z})
      BY <1>7, <3>1, <3>3, SumRemove
    <3> HIDE DEF W
    <3>5. Total(g, W) = 0
      BY <3>2, SumZero
    <3> QED
      BY <2>2, <3>1, <3>4, <3>5 DEF W
  <2> QED
    BY <2>1, <2>2
<1>13. Owed(q, u) = Total(f, S) /\ Owed(n, u) = Total(g, S \cup new)
  BY <1>4 DEF Owed, f, g, S
<1> QED
  BY <1>10, <1>11, <1>12, <1>13 DEF n

\* A change of one record.
LEMMA OwedUpdate ==
    ASSUME NEW q, IsQueue(q), NEW n, IsQueue(n), DOMAIN n = DOMAIN q, NEW c \in DOMAIN q,
           \A p \in DOMAIN q \ {c} : n[p] = q[p], NEW u
    PROVE  Owed(n, u) = Owed(q, u) - Due(q, u)[c] + Due(n, u)[c]
<1> DEFINE f == Due(q, u)
           g == Due(n, u)
           S == DOMAIN q
           y == c
<1>1. IsFiniteSet(S) /\ \A p \in S : f[p] \in Int /\ g[p] \in Int
  BY DueIs
<1>2. y \in S /\ \A p \in S \ {y} : f[p] = g[p]
  BY DEF Due
<1> HIDE DEF f, g, S, y
<1>3. Total(g, S) = Total(f, S) - f[y] + g[y]
  BY <1>1, <1>2, SumChange
<1> QED
  BY <1>3 DEF Owed, f, g, S, y

LEMMA PaidToIs ==
    ASSUME NEW db, NEW x, \A t \in TxIds : db[t] = "ETxConfirmed" => x[t] \in Content, NEW u
    PROVE  (\A t \in TxIds : PaidTo(db, x, u)[t] \in Nat) /\ Total(PaidTo(db, x, u), TxIds) \in Nat
<1> DEFINE f == PaidTo(db, x, u)
<1>1. IsFiniteSet(TxIds) /\ \A t \in TxIds : f[t] \in Nat
  BY PayoutAssumptions DEF PaidTo, Content
<1> HIDE DEF f
<1>2. Total(f, TxIds) \in Nat
  BY <1>1, SumNat
<1> QED
  BY <1>1, <1>2 DEF f

\* Nothing new is confirmed.
LEMMA PaidToKept ==
    ASSUME NEW db, NEW x, \A t \in TxIds : db[t] = "ETxConfirmed" => x[t] \in Content, NEW u,
           NEW db2, NEW x2,
           \A t \in TxIds : db2[t] = "ETxConfirmed" => db[t] = "ETxConfirmed" /\ x2[t] = x[t]
    PROVE  Total(PaidTo(db2, x2, u), TxIds) <= Total(PaidTo(db, x, u), TxIds)
<1> DEFINE f == PaidTo(db, x, u)
           g == PaidTo(db2, x2, u)
<1>1. IsFiniteSet(TxIds) /\ \A t \in TxIds : f[t] \in Nat
  BY PaidToIs, PayoutAssumptions
<1>2. \A t \in TxIds : g[t] = f[t] \/ g[t] = 0
  BY DEF PaidTo
<1>3. \A t \in TxIds : g[t] \in Int /\ f[t] \in Int /\ g[t] <= f[t]
  <2> HIDE DEF f, g
  <2> QED
    BY <1>1, <1>2
<1> HIDE DEF f, g
<1> QED
  BY <1>1, <1>3, SumAtMost DEF f, g

\* One transaction is confirmed.
LEMMA PaidToGrows ==
    ASSUME NEW db, NEW x, \A t \in TxIds : db[t] = "ETxConfirmed" => x[t] \in Content, NEW u,
           NEW y \in TxIds, x[y] \in Content, NEW db2,
           \A t \in TxIds \ {y} : db2[t] = db[t]
    PROVE  Total(PaidTo(db2, x, u), TxIds)
             <= Total(PaidTo(db, x, u), TxIds) + (IF x[y].user = u THEN x[y].value ELSE 0)
<1> DEFINE f == PaidTo(db, x, u)
           g == PaidTo(db2, x, u)
           S == TxIds
           z == y
           most == IF x[y].user = u THEN x[y].value ELSE 0
<1>1. IsFiniteSet(S) /\ \A t \in S : f[t] \in Nat
  BY PaidToIs, PayoutAssumptions
<1>2. z \in S /\ most \in Nat /\ (g[z] = most \/ g[z] = 0) /\ \A t \in S \ {z} : f[t] = g[t]
  BY DEF PaidTo, Content
<1> HIDE DEF f, g, S, z, most
<1>3. \A t \in S : f[t] \in Int /\ g[t] \in Int
  BY <1>1, <1>2
<1>4. Total(g, S) = Total(f, S) - f[z] + g[z]
  BY <1>1, <1>2, <1>3, SumChange
<1>5. Total(f, S) \in Int /\ f[z] \in Nat
  BY <1>1, <1>2, <1>3, SumInt
<1>6. Total(g, S) <= Total(f, S) + most
  BY <1>2, <1>4, <1>5
<1> QED
  BY <1>6 DEF f, g, S, most

\* A step that gives nobody anything new.
LEMMA SettledKept ==
    ASSUME SettledInv, NodeStep,
           \A t \in TxIds : node'[t] # "none" => node[t] # "none" \/ txs'[t] \in Content,
           \A t \in TxIds : payoutDb'[t] = "ETxConfirmed" => payoutDb[t] = "ETxConfirmed",
           \A u \in Users : balance'[u].paid = balance[u].paid,
           \A u \in Users : balance[u].paid \in Int
    PROVE  SettledInv'
<1>1. \A t \in TxIds : node'[t] # "none" => txs'[t] \in Content
  BY DEF SettledInv, NodeStep
<1>2. \A t \in TxIds : payoutDb'[t] = "ETxConfirmed" => node'[t] # "none"
  BY DEF SettledInv, NodeStep
<1>3. ASSUME NEW u \in Users
      PROVE  Total(PaidTo(payoutDb', txs', u), TxIds) <= balance'[u].paid
  <2> DEFINE db == payoutDb
             db2 == payoutDb'
             x == txs
             x2 == txs'
  <2>1. \A t \in TxIds : db[t] = "ETxConfirmed" => x[t] \in Content
    BY DEF SettledInv
  <2>2. \A t \in TxIds : db2[t] = "ETxConfirmed" => db[t] = "ETxConfirmed" /\ x2[t] = x[t]
    BY DEF SettledInv, NodeStep
  <2>3. Total(PaidTo(db, x, u), TxIds) <= balance[u].paid
    BY DEF SettledInv
  <2> HIDE DEF db, db2, x, x2
  <2>4. Total(PaidTo(db2, x2, u), TxIds) <= Total(PaidTo(db, x, u), TxIds)
    BY <2>1, <2>2, PaidToKept
  <2>5. Total(PaidTo(db2, x2, u), TxIds) \in Int /\ Total(PaidTo(db, x, u), TxIds) \in Int
    <3>1. \A t \in TxIds : db2[t] = "ETxConfirmed" => x2[t] \in Content
      BY <2>1, <2>2
    <3>2. Total(PaidTo(db2, x2, u), TxIds) \in Nat
      BY <3>1, PaidToIs
    <3>3. Total(PaidTo(db, x, u), TxIds) \in Nat
      BY <2>1, PaidToIs
    <3> QED
      BY <3>2, <3>3
  <2>6. balance'[u].paid = balance[u].paid /\ balance[u].paid \in Int
    OBVIOUS
  <2>7. Total(PaidTo(db2, x2, u), TxIds) <= balance'[u].paid
    BY <2>3, <2>4, <2>5, <2>6
  <2> QED
    BY <2>7 DEF db2, x2
<1> QED
  BY <1>1, <1>2, <1>3 DEF SettledInv

LEMMA LedgerKept ==
    ASSUME LedgerInv, balance' = balance, credited' = credited,
           \A u \in Users : Owed(queue', u) = Owed(queue, u)
    PROVE  LedgerInv'
  BY DEF LedgerInv

\* A change of one record that leaves what it asks for alone.
LEMMA OwedSame ==
    ASSUME IsQueue(queue), IsQueue(queue'), cur \in DOMAIN queue, DOMAIN queue' = DOMAIN queue,
           \A p \in DOMAIN queue \ {cur} : queue'[p] = queue[p],
           queue'[cur].user = queue[cur].user, queue'[cur].value = queue[cur].value,
           queue[cur].status # "ETxConfirmed", queue'[cur].status # "ETxConfirmed", NEW u
    PROVE  Owed(queue', u) = Owed(queue, u)
<1>1. \A p \in DOMAIN queue : Due(queue', u)[p] = Due(queue, u)[p]
  BY DEF Due
<1>2. Due(queue', u) = Due(queue, u)
  BY <1>1 DEF Due
<1> QED
  BY <1>2 DEF Owed

\* The merge of small payouts: every user's payouts are replaced by their sum.
LEMMA OwedStart ==
    ASSUME TypeOK, StartPayout, NEW u \in Users
    PROVE  Owed(queue', u) = Owed(queue, u)
<1> DEFINE s == Small(queue)
           e == Erase(queue, s)
           who == {queue[p].user : p \in s}
<1>1. PICK acc \in [Users -> Money] :
          /\ \A v \in Users : acc[v] = Enqueued(queue, s, v)
          /\ queue' = PushBack(e, who, acc)
  BY DEF StartPayout
<1>2. IsQueue(queue) /\ IsQueue(e)
  BY EraseKeeps DEF TypeOK
<1>3. who \subseteq Users /\ s \subseteq DOMAIN queue /\ s \subseteq DOMAIN queue \ Confirmed(queue)
  BY DEF Small, TypeOK, IsQueue, PayoutDbRecord, Confirmed
<1>4. \A v \in Users : acc[v] \in Nat
  BY PayoutAssumptions DEF Money
<1>5. \A v \in who : acc[v] \in Nat
  <2> HIDE DEF who
  <2> QED
    BY <1>3, <1>4
<1>6. u \notin who => acc[u] = 0
  <2> SUFFICES ASSUME u \notin who PROVE acc[u] = 0
    OBVIOUS
  <2>1. {p \in s : queue[p].user = u} = {}
    OBVIOUS
  <2>2. Enqueued(queue, s, u) = 0
    BY <2>1, SumEmpty DEF Enqueued
  <2> QED
    BY <1>1, <2>2
<1> HIDE DEF s, e, who
<1>7. Owed(PushBack(e, who, acc), u) = Owed(e, u) + IF u \in who THEN acc[u] ELSE 0
  BY <1>2, <1>3, <1>5, OwedPush
<1>8. acc[u] = Total(Due(queue, u), s)
  BY <1>1, <1>2, <1>3, EnqueuedIs
<1>9. Owed(queue, u) = Owed(e, u) + Total(Due(queue, u), s)
  BY <1>2, <1>3, OwedErase DEF e
<1>10. Owed(e, u) \in Nat
  BY <1>2, DueIs
<1> QED
  BY <1>1, <1>4, <1>6, <1>7, <1>8, <1>9, <1>10

LEMMA OwedFinish ==
    ASSUME TypeOK, FinishPayout, NEW u \in Users
    PROVE  Owed(queue', u) = Owed(queue, u)
<1> DEFINE s == Confirmed(queue)
           f == Due(queue, u)
<1>1. IsQueue(queue) /\ s \subseteq DOMAIN queue /\ queue' = Erase(queue, s)
  BY DEF TypeOK, FinishPayout, Confirmed
<1>2. IsFiniteSet(s) /\ \A p \in s : f[p] = 0
  BY <1>1, DueIs, FS_Subset DEF Due, Confirmed
<1> HIDE DEF s, f
<1>3. Total(f, s) = 0
  BY <1>2, SumZero
<1>4. Owed(queue, u) = Owed(queue', u) + Total(f, s)
  BY <1>1, OwedErase DEF f
<1>5. IsQueue(queue')
  BY <1>1, EraseKeeps
<1>6. Owed(queue', u) \in Nat
  BY <1>5, DueIs
<1> QED
  BY <1>3, <1>4, <1>6

\* A transaction below the payout's value: the payout and what the user has
\* requested are corrected by the same amount.
LEMMA LedgerCorrected ==
    ASSUME TypeOK, LedgerInv, pc = "build", NEW total \in Nat, total <= queue[cur].value,
           CorrectRequested(queue[cur].user, queue[cur].value - total), credited' = credited,
           IsQueue(queue'), DOMAIN queue' = DOMAIN queue,
           \A p \in DOMAIN queue \ {cur} : queue'[p] = queue[p],
           queue'[cur].user = queue[cur].user, queue'[cur].value = total,
           queue'[cur].status # "ETxConfirmed"
    PROVE  LedgerInv' /\ \A u \in Users : balance'[u].paid = balance[u].paid
<1> DEFINE v == queue[cur].user
           d == queue[cur].value - total
<1>1. /\ IsQueue(queue) /\ cur \in DOMAIN queue /\ queue[cur] \in PayoutDbRecord
      /\ queue[cur].status # "ETxConfirmed"
  BY DEF TypeOK, CursorOK, IsQueue
<1>2. v \in Users /\ queue[cur].value \in Nat /\ d \in Nat
  BY <1>1 DEF PayoutDbRecord
<1>3. ASSUME NEW u \in Users
      PROVE  /\ balance'[u].requested = balance[u].requested - (IF u = v THEN d ELSE 0)
             /\ balance'[u].balance = balance[u].balance /\ balance'[u].paid = balance[u].paid
             /\ balance[u].requested \in Int /\ balance[u].balance \in Int /\ balance[u].paid \in Int
  <2>1. balance \in [Users -> UserBalanceRecord] /\ balance[u] \in UserBalanceRecord
    BY DEF TypeOK
  <2>2. balance[u].requested \in Int /\ balance[u].balance \in Int /\ balance[u].paid \in Int
    BY <2>1 DEF UserBalanceRecord
  <2>3. CASE d = 0
    BY <2>2, <2>3 DEF CorrectRequested
  <2>4. CASE d # 0
    <3>1. balance' = [balance EXCEPT ![v] = [balance[v] EXCEPT !.requested = balance[v].requested - d]]
      BY <2>4 DEF CorrectRequested
    <3> HIDE DEF v, d
    <3>2. CASE u = v
      <4>1. balance'[u] = [balance[u] EXCEPT !.requested = balance[u].requested - d]
        BY <2>1, <3>1, <3>2
      <4> QED
        BY <1>2, <2>1, <2>2, <3>2, <4>1 DEF UserBalanceRecord
    <3>3. CASE u # v
      BY <2>1, <2>2, <3>1, <3>3
    <3> QED
      BY <3>2, <3>3
  <2> QED
    BY <2>3, <2>4
<1>4. ASSUME NEW u \in Users
      PROVE  Owed(queue', u) = Owed(queue, u) - (IF u = v THEN d ELSE 0)
  <2>1. Owed(queue', u) = Owed(queue, u) - Due(queue, u)[cur] + Due(queue', u)[cur]
    BY <1>1, OwedUpdate
  <2>2. /\ Due(queue, u)[cur] = IF u = v THEN queue[cur].value ELSE 0
        /\ Due(queue', u)[cur] = IF u = v THEN total ELSE 0
    BY <1>1 DEF Due
  <2>3. Owed(queue, u) \in Nat
    BY <1>1, DueIs
  <2> QED
    BY <1>2, <2>1, <2>2, <2>3
<1>5. ASSUME NEW u \in Users
      PROVE  /\ balance'[u].requested = Owed(queue', u)
             /\ balance'[u].balance + balance'[u].paid <= credited'[u]
             /\ balance'[u].requested + balance'[u].paid <= credited'[u]
  <2>1. /\ balance[u].requested = Owed(queue, u)
        /\ balance[u].balance + balance[u].paid <= credited[u]
        /\ balance[u].requested + balance[u].paid <= credited[u] /\ credited[u] \in Int
    BY DEF LedgerInv, TypeOK
  <2> HIDE DEF v, d
  <2>2. credited'[u] = credited[u]
    OBVIOUS
  <2> QED
    BY <1>2, <1>3, <1>4, <2>1, <2>2
<1> QED
  BY <1>3, <1>5 DEF LedgerInv

LEMMA LedgerBuild ==
    ASSUME TypeOK, LedgerInv, SettledInv, NodeStep, NEW t \in TxIds, NEW total \in Int,
           BuildDuplicate(t, total) \/ BuildCreated(t, total)
    PROVE  LedgerInv' /\ SettledInv'
<1> USE DEF outside
<1>1. /\ pc = "build" /\ 0 < total /\ total <= queue[cur].value
      /\ NodeBuilds(t, [user |-> queue[cur].user, value |-> total])
      /\ CorrectRequested(queue[cur].user, queue[cur].value - total)
      /\ credited' = credited
  BY DEF BuildDuplicate, BuildCreated
<1>2. /\ cur \in DOMAIN queue /\ queue[cur] \in PayoutDbRecord /\ total \in Nat
      /\ balance' \in [Users -> UserBalanceRecord]
  BY <1>1, BuildType
<1>3. queue[cur].status = "EInitialized" /\ queue[cur].tx = NoTx /\ IsQueue(queue)
  BY <1>1 DEF TypeOK, CursorOK, IsQueue
<1>4. /\ IsQueue(queue') /\ DOMAIN queue' = DOMAIN queue
      /\ \A p \in DOMAIN queue \ {cur} : queue'[p] = queue[p]
      /\ queue'[cur].user = queue[cur].user /\ queue'[cur].value = total
      /\ queue'[cur].status # "ETxConfirmed"
  <2>1. CASE BuildDuplicate(t, total)
    <3> DEFINE r == [queue[cur] EXCEPT !.value = total]
    <3>1. /\ r \in PayoutDbRecord /\ r.tx = NoTx /\ r.status = "EInitialized" /\ r.value = total
          /\ r.user = queue[cur].user
      BY <1>2, <1>3 DEF PayoutDbRecord
    <3>2. queue' = [queue EXCEPT ![cur] = r]
      BY <2>1 DEF BuildDuplicate
    <3> HIDE DEF r
    <3> QED
      BY <1>2, <1>3, <3>1, <3>2, UpdateKeeps
  <2>2. CASE BuildCreated(t, total)
    <3> DEFINE r == [queue[cur] EXCEPT !.value = total, !.tx = t, !.status = "ETxCreated"]
    <3>1. /\ r \in PayoutDbRecord /\ r.tx = t /\ r.status = "ETxCreated" /\ r.value = total
          /\ r.user = queue[cur].user
      BY <1>2, <1>3 DEF PayoutDbRecord, Statuses
    <3>2. queue' = [queue EXCEPT ![cur] = r]
      BY <2>2 DEF BuildCreated
    <3>3. r.tx = NoTx <=> r.status = "EInitialized"
      BY <3>1, PayoutAssumptions
    <3> HIDE DEF r
    <3> QED
      BY <1>2, <1>3, <3>1, <3>2, <3>3, UpdateKeeps
  <2> QED
    BY <2>1, <2>2
<1>5. LedgerInv' /\ \A u \in Users : balance'[u].paid = balance[u].paid
  BY <1>1, <1>2, <1>4, LedgerCorrected
<1>6. \A s \in TxIds : payoutDb'[s] = "ETxConfirmed" => payoutDb[s] = "ETxConfirmed"
  <2>1. payoutDb' = payoutDb \/ payoutDb' = [payoutDb EXCEPT ![t] = "ETxCreated"]
    BY DEF BuildDuplicate, BuildCreated
  <2> QED
    BY <2>1 DEF TypeOK
<1>7. \A s \in TxIds : node'[s] # "none" => node[s] # "none" \/ txs'[s] \in Content
  <2>1. [user |-> queue[cur].user, value |-> total] \in Content
    BY <1>2 DEF Content, PayoutDbRecord
  <2> QED
    BY <1>1, <2>1 DEF NodeBuilds, TypeOK
<1>8. \A u \in Users : balance[u].paid \in Int
  BY DEF TypeOK, UserBalanceRecord
<1>9. SettledInv'
  BY <1>5, <1>6, <1>7, <1>8, SettledKept
<1> QED
  BY <1>5, <1>9

\* A confirmation: the payout leaves what is requested and enters what is paid,
\* once, with the amount its transaction paid.
LEMMA LedgerConfirm ==
    ASSUME TypeOK, OwnershipInv, LedgerInv, SettledInv, NEW fee \in TxFees, CheckConfirmed(fee)
    PROVE  LedgerInv' /\ SettledInv'
<1> USE DEF outside, network
<1> DEFINE v == queue[cur].user
           a == queue[cur].value
<1>1. /\ pc = "check" /\ queue' = [queue EXCEPT ![cur].status = "ETxConfirmed"]
      /\ payoutDb' = [payoutDb EXCEPT ![tx] = "ETxConfirmed"]
      /\ credited' = credited /\ txs' = txs /\ node' = node
      /\ balance' = [balance EXCEPT ![v] = [balance |-> balance[v].balance - (a + fee),
                                            requested |-> balance[v].requested - a,
                                            paid |-> balance[v].paid + a]]
  BY DEF CheckConfirmed
<1>2. /\ cur \in DOMAIN queue /\ queue[cur] \in PayoutDbRecord /\ tx \in TxIds /\ IsQueue(queue)
      /\ queue[cur].status # "ETxConfirmed"
  BY <1>1, CursorRecord DEF TypeOK, CursorOK
<1>3. v \in Users /\ a \in Nat /\ fee \in Nat
  BY <1>2, PayoutAssumptions DEF PayoutDbRecord
<1>4. /\ IsQueue(queue') /\ DOMAIN queue' = DOMAIN queue
      /\ queue'[cur].status = "ETxConfirmed"
      /\ \A p \in DOMAIN queue \ {cur} : queue'[p] = queue[p]
  BY <1>1, StatusType
<1>5. node[tx] # "none" /\ txs[tx] = [user |-> v, value |-> a] /\ txs[tx] \in Content
  <2>1. queue[cur].tx = tx /\ tx # NoTx
    BY <1>2, PayoutAssumptions DEF tx
  <2> QED
    BY <1>2, <1>3, <2>1 DEF OwnershipInv, BuiltFor, Content
<1>6. ASSUME NEW u \in Users
      PROVE  /\ balance[u].requested \in Int /\ balance[u].balance \in Int /\ balance[u].paid \in Int
             /\ u = v => /\ balance'[u].balance = balance[u].balance - (a + fee)
                         /\ balance'[u].requested = balance[u].requested - a
                         /\ balance'[u].paid = balance[u].paid + a
             /\ u # v => balance'[u] = balance[u]
  <2>1. balance \in [Users -> UserBalanceRecord] /\ balance[u] \in UserBalanceRecord
    BY DEF TypeOK
  <2>2. balance[u].requested \in Int /\ balance[u].balance \in Int /\ balance[u].paid \in Int
    BY <2>1 DEF UserBalanceRecord
  <2> HIDE DEF v, a
  <2> QED
    BY <1>1, <2>1, <2>2
<1>7. ASSUME NEW u \in Users
      PROVE  Owed(queue', u) = Owed(queue, u) - (IF u = v THEN a ELSE 0)
  <2>1. Owed(queue', u) = Owed(queue, u) - Due(queue, u)[cur] + Due(queue', u)[cur]
    BY <1>2, <1>4, OwedUpdate
  <2>2. Due(queue, u)[cur] = (IF u = v THEN a ELSE 0) /\ Due(queue', u)[cur] = 0
    BY <1>2, <1>4 DEF Due
  <2>3. Owed(queue, u) \in Nat
    BY <1>2, DueIs
  <2> QED
    BY <1>3, <2>1, <2>2, <2>3
<1>8. ASSUME NEW u \in Users
      PROVE  /\ balance'[u].requested = Owed(queue', u)
             /\ balance'[u].balance + balance'[u].paid <= credited'[u]
             /\ balance'[u].requested + balance'[u].paid <= credited'[u]
  <2>1. /\ balance[u].requested = Owed(queue, u)
        /\ balance[u].balance + balance[u].paid <= credited[u]
        /\ balance[u].requested + balance[u].paid <= credited[u] /\ credited[u] \in Int
    BY DEF LedgerInv, TypeOK
  <2>2. credited'[u] = credited[u]
    BY <1>1
  <2> HIDE DEF v, a
  <2>3. CASE u = v
    BY <1>3, <1>6, <1>7, <2>1, <2>2, <2>3
  <2>4. CASE u # v
    BY <1>6, <1>7, <2>1, <2>2, <2>4
  <2> QED
    BY <2>3, <2>4
<1>9. ASSUME NEW u \in Users
      PROVE  Total(PaidTo(payoutDb', txs', u), TxIds) <= balance'[u].paid
  <2> DEFINE db == payoutDb
             db2 == payoutDb'
             x == txs
             y == tx
             most == IF x[y].user = u THEN x[y].value ELSE 0
  <2>1. /\ y \in TxIds /\ x[y] \in Content /\ \A t \in TxIds \ {y} : db2[t] = db[t]
        /\ \A t \in TxIds : db[t] = "ETxConfirmed" => x[t] \in Content
    BY <1>1, <1>2, <1>5 DEF SettledInv, TypeOK
  <2>2. Total(PaidTo(db, x, u), TxIds) <= balance[u].paid
    BY DEF SettledInv
  <2>3. most = IF u = v THEN a ELSE 0
    BY <1>5
  <2>4. txs' = x /\ \A t \in TxIds : db2[t] = "ETxConfirmed" => x[t] \in Content
    BY <1>1, <2>1
  <2> HIDE DEF db, db2, x, y
  <2>5. Total(PaidTo(db2, x, u), TxIds) <= Total(PaidTo(db, x, u), TxIds) + most
    BY <2>1, PaidToGrows
  <2>6. Total(PaidTo(db, x, u), TxIds) \in Nat
    BY <2>1, PaidToIs
  <2>7. Total(PaidTo(db2, x, u), TxIds) \in Nat
    BY <2>4, PaidToIs
  <2> HIDE DEF most, v, a
  <2>8. balance'[u].paid = balance[u].paid + most /\ balance[u].paid \in Int /\ most \in Nat
    BY <1>3, <1>6, <2>3
  <2>9. Total(PaidTo(db2, x, u), TxIds) <= balance'[u].paid
    BY <2>2, <2>5, <2>6, <2>7, <2>8
  <2> QED
    BY <2>4, <2>9 DEF db2
<1>10. /\ \A t \in TxIds : node'[t] # "none" => txs'[t] \in Content
       /\ \A t \in TxIds : payoutDb'[t] = "ETxConfirmed" => node'[t] # "none"
  BY <1>1, <1>5 DEF SettledInv, TypeOK
<1> QED
  BY <1>8, <1>9, <1>10 DEF LedgerInv, SettledInv

\* The unqueued balance is queued: what is requested then is the whole balance,
\* which with the payouts made is no more than was credited.
LEMMA LedgerReward ==
    ASSUME TypeOK, LedgerInv, NEW r \in Rewards, ProcessReward(r)
    PROVE  LedgerInv' /\ \A u \in Users : balance'[u].paid = balance[u].paid
<1> DEFINE earned(u) == [balance[u] EXCEPT !.balance = @ + r.pay[u]]
           queued == {u \in {w \in Users : r.pay[w] > 0} : QueuesReward(u, earned(u))}
           value == [u \in Users |-> NonQueued(earned(u))]
<1>1. /\ credited' = [u \in Users |-> credited[u] + r.pay[u]]
      /\ queue' = PushBack(queue, queued, value)
      /\ balance' = [u \in Users |->
            IF u \in queued THEN [earned(u) EXCEPT !.requested = @ + NonQueued(earned(u))]
                            ELSE earned(u)]
  BY DEF ProcessReward
<1>2. ASSUME NEW u \in Users
      PROVE  /\ balance[u].requested \in Int /\ balance[u].balance \in Int /\ balance[u].paid \in Int
             /\ r.pay[u] \in Nat /\ credited[u] \in Nat
             /\ value[u] = balance[u].balance + r.pay[u] - balance[u].requested
             /\ earned(u) = [balance |-> balance[u].balance + r.pay[u],
                             requested |-> balance[u].requested, paid |-> balance[u].paid]
  <2>1. balance[u] \in UserBalanceRecord /\ r.pay[u] \in Nat /\ credited[u] \in Nat
    BY PayoutAssumptions DEF TypeOK
  <2>2. /\ balance[u].requested \in Int /\ balance[u].balance \in Int /\ balance[u].paid \in Int
        /\ balance[u] = [balance |-> balance[u].balance, requested |-> balance[u].requested,
                         paid |-> balance[u].paid]
    BY <2>1 DEF UserBalanceRecord
  <2>3. earned(u) = [balance |-> balance[u].balance + r.pay[u],
                     requested |-> balance[u].requested, paid |-> balance[u].paid]
    BY <2>1, <2>2 DEF UserBalanceRecord
  <2>4. value[u] = NonQueued(earned(u))
    OBVIOUS
  <2> DEFINE e == earned(u)
  <2>5. NonQueued(e) = balance[u].balance + r.pay[u] - balance[u].requested
    <3>1. e = [balance |-> balance[u].balance + r.pay[u],
               requested |-> balance[u].requested, paid |-> balance[u].paid]
      BY <2>3
    <3>2. e.balance = balance[u].balance + r.pay[u] /\ e.requested = balance[u].requested
      BY <3>1
    <3> HIDE DEF e
    <3> QED
      BY <2>1, <2>2, <3>2 DEF NonQueued
  <2> QED
    BY <2>1, <2>2, <2>3, <2>4, <2>5
<1>3. \A u \in queued : value[u] \in Nat
  <2> SUFFICES ASSUME NEW u \in queued PROVE value[u] \in Nat
    OBVIOUS
  <2>1. u \in Users /\ value[u] >= 0
    BY DEF QueuesReward
  <2> HIDE DEF value, queued, earned
  <2> QED
    BY <1>2, <2>1
<1>4. queued \subseteq Users /\ IsQueue(queue)
  BY DEF TypeOK
<1>5. ASSUME NEW u \in Users
      PROVE  /\ balance'[u].balance = balance[u].balance + r.pay[u]
             /\ balance'[u].requested = balance[u].requested + (IF u \in queued THEN value[u] ELSE 0)
             /\ balance'[u].paid = balance[u].paid
             /\ credited'[u] = credited[u] + r.pay[u]
  <2> DEFINE e == earned(u)
  <2>1. /\ balance'[u] = IF u \in queued THEN [e EXCEPT !.requested = e.requested + value[u]] ELSE e
        /\ credited'[u] = credited[u] + r.pay[u]
    BY <1>1
  <2>2. e = [balance |-> balance[u].balance + r.pay[u],
             requested |-> balance[u].requested, paid |-> balance[u].paid]
    BY <1>2
  <2> HIDE DEF e, earned, queued, value
  <2> QED
    BY <1>2, <2>1, <2>2
<1>6. ASSUME NEW u \in Users
      PROVE  Owed(queue', u) = Owed(queue, u) + IF u \in queued THEN value[u] ELSE 0
  <2>1. queue' = PushBack(queue, queued, value)
    BY <1>1
  <2> HIDE DEF queued, value
  <2> QED
    BY <1>3, <1>4, <2>1, OwedPush
<1>7. ASSUME NEW u \in Users
      PROVE  /\ balance'[u].requested = Owed(queue', u)
             /\ balance'[u].balance + balance'[u].paid <= credited'[u]
             /\ balance'[u].requested + balance'[u].paid <= credited'[u]
  <2>1. /\ balance[u].requested = Owed(queue, u)
        /\ balance[u].balance + balance[u].paid <= credited[u]
        /\ balance[u].requested + balance[u].paid <= credited[u]
    BY DEF LedgerInv
  <2> HIDE DEF queued, value, earned
  <2> QED
    BY <1>2, <1>5, <1>6, <2>1
<1> QED
  BY <1>5, <1>7 DEF LedgerInv

LEMMA LedgerManual ==
    ASSUME TypeOK, LedgerInv, NEW w \in Users, ManualPayout(w)
    PROVE  LedgerInv' /\ \A u \in Users : balance'[u].paid = balance[u].paid
<1> USE DEF outside
<1> DEFINE a == NonQueued(balance[w])
           all == [v \in Users |-> a]
           who == {w}
<1>1. /\ a >= 0 /\ queue' = PushBack(queue, who, all) /\ credited' = credited
      /\ balance' = [balance EXCEPT ![w].requested = balance[w].requested + a]
  BY DEF ManualPayout, RequestManualPayout
<1>2. ASSUME NEW u \in Users
      PROVE  /\ balance[u] \in UserBalanceRecord
             /\ balance[u].requested \in Int /\ balance[u].balance \in Int /\ balance[u].paid \in Int
             /\ credited[u] \in Nat
  BY DEF TypeOK, UserBalanceRecord
<1>3. a \in Nat /\ a = balance[w].balance - balance[w].requested
  BY <1>1, <1>2 DEF NonQueued
<1>4. who \subseteq Users /\ IsQueue(queue) /\ \A v \in who : all[v] \in Nat
  BY <1>3 DEF TypeOK
<1>5. ASSUME NEW u \in Users
      PROVE  /\ balance'[u].balance = balance[u].balance
             /\ balance'[u].requested = balance[u].requested + (IF u = w THEN a ELSE 0)
             /\ balance'[u].paid = balance[u].paid
  <2>1. balance \in [Users -> UserBalanceRecord]
    BY DEF TypeOK
  <2> HIDE DEF a
  <2>2. CASE u = w
    <3>1. balance'[u] = [balance[u] EXCEPT !.requested = balance[u].requested + a]
      BY <1>1, <2>1, <2>2
    <3> QED
      BY <1>2, <2>2, <3>1 DEF UserBalanceRecord
  <2>3. CASE u # w
    <3>1. balance'[u] = balance[u]
      BY <1>1, <2>1, <2>3
    <3> QED
      BY <1>2, <2>3, <3>1
  <2> QED
    BY <2>2, <2>3
<1>6. ASSUME NEW u \in Users
      PROVE  Owed(queue', u) = Owed(queue, u) + IF u = w THEN a ELSE 0
  <2>1. (u \in who <=> u = w) /\ all[u] = a
    OBVIOUS
  <2> HIDE DEF all, who, a
  <2>2. Owed(queue', u) = Owed(queue, u) + IF u \in who THEN all[u] ELSE 0
    BY <1>1, <1>4, OwedPush
  <2> QED
    BY <2>1, <2>2
<1>7. ASSUME NEW u \in Users
      PROVE  /\ balance'[u].requested = Owed(queue', u)
             /\ balance'[u].balance + balance'[u].paid <= credited'[u]
             /\ balance'[u].requested + balance'[u].paid <= credited'[u]
  <2>1. /\ balance[u].requested = Owed(queue, u)
        /\ balance[u].balance + balance[u].paid <= credited[u]
        /\ balance[u].requested + balance[u].paid <= credited[u] /\ credited'[u] = credited[u]
    BY <1>1 DEF LedgerInv
  <2> HIDE DEF a
  <2> QED
    BY <1>2, <1>3, <1>5, <1>6, <2>1
<1> QED
  BY <1>5, <1>7 DEF LedgerInv

\* Every step but a restart keeps the books.
LEMMA NextMoney ==
    ASSUME TypeOK, OwnershipInv, LedgerInv, SettledInv, [Next]_vars, restarts' = 0
    PROVE  LedgerInv' /\ SettledInv'
<1> USE DEF memory, disk, outside, network
<1> DEFINE Goal == LedgerInv' /\ SettledInv'
           Built(t) == node'[t] # "none" => node[t] # "none"
           StillPaid(t) == payoutDb'[t] = "ETxConfirmed" => payoutDb[t] = "ETxConfirmed"
<1>1. NodeStep
  BY StepKinds
<1>2. IsQueue(queue) /\ \A u \in Users : balance[u].paid \in Int
  BY DEF TypeOK, UserBalanceRecord
<1>3. ASSUME balance' = balance, credited' = credited,
             \A u \in Users : Owed(queue', u) = Owed(queue, u),
             \A t \in TxIds : Built(t), \A t \in TxIds : StillPaid(t)
      PROVE  Goal
  <2>1. LedgerInv'
    BY <1>3, LedgerKept
  <2>2. /\ \A t \in TxIds : node'[t] # "none" => node[t] # "none" \/ txs'[t] \in Content
        /\ \A u \in Users : balance'[u].paid = balance[u].paid
        /\ \A t \in TxIds : payoutDb'[t] = "ETxConfirmed" => payoutDb[t] = "ETxConfirmed"
    BY <1>3
  <2>3. SettledInv'
    BY <1>1, <1>2, <2>2, SettledKept
  <2> QED
    BY <2>1, <2>3
<1>4. ASSUME \A u \in Users : balance'[u].paid = balance[u].paid, node' = node, payoutDb' = payoutDb
      PROVE  SettledInv'
  BY <1>1, <1>2, <1>4, SettledKept
<1>5. CASE StartPayout
  BY <1>3, <1>5, OwedStart DEF StartPayout
<1>6. CASE FinishPayout
  BY <1>3, <1>6, OwedFinish DEF FinishPayout
<1>7. CASE PersistTx \/ BuildFailed \/ CheckLater
  <2>1. UNCHANGED <<queue, balance, credited, node, payoutDb>>
    BY <1>7 DEF PersistTx, BuildFailed, CheckLater
  <2> QED
    BY <1>3, <2>1
<1>8. ASSUME NEW t \in TxIds, NEW c \in Corrections,
             \/ BuildDuplicate(t, queue[cur].value - c)
             \/ BuildCreated(t, queue[cur].value - c)
      PROVE  Goal
  <2> DEFINE total == queue[cur].value - c
  <2>1. pc = "build"
    BY <1>8 DEF BuildDuplicate, BuildCreated
  <2>2. cur \in DOMAIN queue /\ queue[cur] \in PayoutDbRecord
    BY <2>1 DEF TypeOK, CursorOK, IsQueue
  <2>3. total \in Int
    BY <2>2, PayoutAssumptions DEF PayoutDbRecord
  <2>4. BuildDuplicate(t, total) \/ BuildCreated(t, total)
    BY <1>8
  <2> HIDE DEF total
  <2> QED
    BY <1>1, <2>3, <2>4, LedgerBuild
<1>9. ASSUME pc = "send", node' \in {node, Accepted} PROVE \A t \in TxIds : Built(t)
  <2>1. cur \in DOMAIN queue /\ tx \in TxIds /\ queue[cur].tx = tx /\ tx # NoTx
    BY <1>9, CursorRecord, PayoutAssumptions DEF tx
  <2>2. node[tx] # "none"
    BY <2>1 DEF OwnershipInv, BuiltFor
  <2> QED
    BY <1>9, <2>2 DEF Accepted, TypeOK
<1>10. ASSUME pc \in {"send", "check"}, NEW s \in {"ETxCreated", "ETxSent"},
              queue' = [queue EXCEPT ![cur].status = s], NEW u
       PROVE  Owed(queue', u) = Owed(queue, u)
  <2>1. /\ IsQueue(queue') /\ DOMAIN queue' = DOMAIN queue
        /\ queue'[cur] = [queue[cur] EXCEPT !.status = s] /\ queue'[cur].status = s
        /\ \A p \in DOMAIN queue \ {cur} : queue'[p] = queue[p]
    BY <1>10, StatusType
  <2>2. /\ cur \in DOMAIN queue /\ queue[cur] \in PayoutDbRecord
        /\ queue[cur].status # "ETxConfirmed"
    BY <1>10, CursorRecord DEF TypeOK, CursorOK
  <2>3. /\ queue'[cur].user = queue[cur].user /\ queue'[cur].value = queue[cur].value
        /\ queue'[cur].status # "ETxConfirmed"
    BY <2>1, <2>2 DEF PayoutDbRecord
  <2> QED
    BY <1>2, <2>1, <2>2, <2>3, OwedSame
<1>11. CASE SendOk
  <2>1. \A u \in Users : Owed(queue', u) = Owed(queue, u)
    BY <1>10, <1>11 DEF SendOk
  <2>2. \A t \in TxIds : Built(t)
    BY <1>9, <1>11 DEF SendOk
  <2>3. \A t \in TxIds : StillPaid(t)
    BY <1>11 DEF SendOk, TypeOK
  <2> QED
    BY <1>3, <1>11, <2>1, <2>2, <2>3 DEF SendOk
<1>12. CASE SendError
  <2>1. \A t \in TxIds : Built(t)
    BY <1>9, <1>12 DEF SendError
  <2> QED
    BY <1>3, <1>12, <2>1 DEF SendError
<1>13. ASSUME pc \in {"send", "check"}, Rejected PROVE Goal
  <2>1. /\ IsQueue(queue') /\ DOMAIN queue' = DOMAIN queue
        /\ queue'[cur].status = "EInitialized"
        /\ \A p \in DOMAIN queue \ {cur} : queue'[p] = queue[p]
    BY <1>13, RejectedType
  <2>2. /\ cur \in DOMAIN queue /\ queue[cur] \in PayoutDbRecord
        /\ queue[cur].status # "ETxConfirmed"
    BY <1>13, CursorRecord DEF TypeOK, CursorOK
  <2>3. queue'[cur].user = queue[cur].user /\ queue'[cur].value = queue[cur].value
    BY <1>13, <2>2 DEF Rejected, PayoutDbRecord
  <2>4. \A u \in Users : Owed(queue', u) = Owed(queue, u)
    BY <1>2, <2>1, <2>2, <2>3, OwedSame
  <2>5. \A t \in TxIds : StillPaid(t)
    BY <1>13 DEF Rejected, TypeOK
  <2> QED
    BY <1>3, <1>13, <2>4, <2>5 DEF Rejected
<1>14. CASE CheckUnknown
  <2>1. \A u \in Users : Owed(queue', u) = Owed(queue, u)
    BY <1>10, <1>14 DEF CheckUnknown
  <2> QED
    BY <1>3, <1>14, <2>1 DEF CheckUnknown
<1>15. CASE MakePayoutStep
  BY <1>5, <1>6, <1>7, <1>8, <1>11, <1>12, <1>13, <1>14, <1>15, LedgerConfirm
     DEF MakePayoutStep, SendRejected, CheckRejected
<1>16. ASSUME NEW r \in Rewards, ProcessReward(r) PROVE Goal
  BY <1>4, <1>16, LedgerReward DEF ProcessReward
<1>17. ASSUME NEW u \in Users, ManualPayout(u) PROVE Goal
  BY <1>4, <1>17, LedgerManual DEF ManualPayout
<1>18. ASSUME NEW t \in TxIds, NodeMines(t) \/ NodeEvicts(t) PROVE Goal
  BY <1>3, <1>18 DEF NodeMines, NodeEvicts, TypeOK
<1>19. CASE \/ \E s \in BackendSettings : UpdateBackendSettings(s)
            \/ \E u \in Users, s \in UserSettings : OnUserSettingsUpdate(u, s)
            \/ UNCHANGED vars
  <2>1. UNCHANGED <<queue, balance, credited, node, payoutDb>>
    BY <1>19 DEF UpdateBackendSettings, OnUserSettingsUpdate, vars
  <2> QED
    BY <1>3, <2>1
<1>20. ~Restart
  BY DEF Restart, TypeOK
<1> QED
  BY <1>15, <1>16, <1>17, <1>18, <1>19, <1>20 DEF Next

LEMMA InitMoney == Init => LedgerInv /\ SettledInv
<1> SUFFICES ASSUME Init PROVE LedgerInv /\ SettledInv
  OBVIOUS
<1>1. ASSUME NEW u \in Users PROVE Owed(queue, u) = 0
  <2>1. DOMAIN queue = {}
    BY DEF Init, EmptyQueue
  <2> QED
    BY <2>1, SumEmpty DEF Owed
<1>2. ASSUME NEW u \in Users PROVE Total(PaidTo(payoutDb, txs, u), TxIds) = 0
  <2> DEFINE f == PaidTo(payoutDb, txs, u)
  <2>1. IsFiniteSet(TxIds) /\ \A t \in TxIds : f[t] = 0
    BY PayoutAssumptions DEF Init, PaidTo
  <2> HIDE DEF f
  <2>2. Total(f, TxIds) = 0
    BY <2>1, SumZero
  <2> QED
    BY <2>2 DEF f
<1>3. \A u \in Users : /\ balance[u].requested = 0 /\ balance[u].balance = 0
                       /\ balance[u].paid = 0 /\ credited[u] = 0
  BY DEF Init, NoBalance
<1> QED
  BY <1>1, <1>2, <1>3 DEF LedgerInv, SettledInv, Init

\* What is on the network for a user is confirmed, and counted as paid, or still
\* in the queue, and counted as requested, each transaction in one record.
LEMMA BooksBoundNetwork ==
    ASSUME TypeOK, OwnershipInv, DurabilityInv, LedgerInv, SettledInv
    PROVE  NeverOverpaid
<1> SUFFICES ASSUME NEW u \in Users
             PROVE  LET sent == {t \in TxIds : OnNetwork(t) /\ txs[t].user = u}
                    IN  credited[u] >= Total([t \in sent |-> txs[t].value], sent)
  BY DEF NeverOverpaid
<1> DEFINE sent == {t \in TxIds : OnNetwork(t) /\ txs[t].user = u}
           f == [t \in sent |-> txs[t].value]
           P == PaidTo(payoutDb, txs, u)
           D == Due(queue, u)
           S == DOMAIN queue
           done == {t \in sent : payoutDb[t] = "ETxConfirmed"}
           open == sent \ done
           Q == {p \in DOMAIN queue : queue[p].tx \in open}
           m == [p \in Q |-> queue[p].tx]
           paid == balance[u].paid
           requested == balance[u].requested
<1>1. /\ IsFiniteSet(TxIds) /\ done \subseteq TxIds /\ open \subseteq TxIds
      /\ done \cup open = sent /\ done \cap open = {}
  BY PayoutAssumptions
<1>2. IsFiniteSet(done) /\ IsFiniteSet(open)
  BY <1>1, FS_Subset
<1>3. \A t \in sent : txs[t] \in Content /\ f[t] = txs[t].value /\ f[t] \in Nat
  <2>1. \A t \in sent : txs[t] \in Content
    BY DEF SettledInv, OnNetwork
  <2> QED
    BY <2>1 DEF Content
<1>4. \A t \in done : f[t] = P[t] /\ f[t] \in Int
  BY <1>3 DEF PaidTo
<1>5. \A t \in TxIds : P[t] \in Nat
  <2>1. \A t \in TxIds : payoutDb[t] = "ETxConfirmed" => txs[t] \in Content
    BY DEF SettledInv
  <2> QED
    BY <2>1 DEF PaidTo, Content
<1>6. IsFiniteSet(S) /\ (\A p \in S : D[p] \in Nat) /\ Q \subseteq S /\ IsQueue(queue)
  BY DueIs DEF TypeOK
<1>7. \A p \in Q : /\ queue[p].user = u /\ queue[p].status # "ETxConfirmed"
                   /\ queue[p].value = txs[queue[p].tx].value /\ queue[p].tx \in open
  <2> SUFFICES ASSUME NEW p \in Q
               PROVE  /\ queue[p].user = u /\ queue[p].status # "ETxConfirmed"
                      /\ queue[p].value = txs[queue[p].tx].value
    OBVIOUS
  <2>1. /\ queue[p].tx \in TxIds /\ queue[p].tx # NoTx /\ txs[queue[p].tx].user = u
        /\ payoutDb[queue[p].tx] # "ETxConfirmed"
    BY PayoutAssumptions
  <2>2. txs[queue[p].tx] = [user |-> queue[p].user, value |-> queue[p].value]
    BY <2>1 DEF OwnershipInv, BuiltFor
  <2>3. queue[p].status # "ETxConfirmed"
    BY <2>1 DEF DurabilityInv
  <2> QED
    BY <2>1, <2>2, <2>3
<1>8. m \in [Q -> open] /\ \A p \in Q : D[p] \in Int /\ f[m[p]] = D[p]
  <2>1. m \in [Q -> open]
    BY <1>7
  <2>2. \A p \in Q : f[m[p]] = D[p]
    BY <1>7 DEF Due
  <2> HIDE DEF m, D, f, Q, open, S
  <2> QED
    BY <1>6, <2>1, <2>2
<1>9. \A p, o \in Q : m[p] = m[o] => p = o
  BY PayoutAssumptions DEF OwnershipInv, OwnedOnce
<1>10. \A t \in open : \E p \in Q : m[p] = t
  <2> SUFFICES ASSUME NEW t \in open PROVE \E p \in Q : m[p] = t
    OBVIOUS
  <2>1. PICK p \in DOMAIN queue : queue[p].tx = t
    BY DEF DurabilityInv, HasTx
  <2> QED
    BY <2>1
<1>11. /\ Total(P, TxIds) <= paid /\ Total(D, S) = requested
       /\ requested + paid <= credited[u] /\ paid \in Int /\ credited[u] \in Int
  BY DEF SettledInv, LedgerInv, Owed, TypeOK, UserBalanceRecord
<1>12. \A t \in done \cup open : f[t] \in Int
  BY <1>3
<1>13. SUFFICES Total(f, sent) <= credited[u] /\ Total(f, sent) \in Int
  <2> HIDE DEF f, P, D, S, done, open, Q, m, paid, requested
  <2>1. credited[u] >= Total(f, sent)
    BY <1>11, <1>13
  <2> QED
    BY <2>1 DEF f
<1> HIDE DEF sent, f, P, D, S, done, open, Q, m, paid, requested
<1>14. Total(f, done \cup open) = Total(f, done) + Total(f, open)
  BY <1>1, <1>2, <1>12, SumUnion
<1>15. Total(f, done) = Total(P, done)
  BY <1>2, <1>4, SumEqual
<1>16. Total(P, done) <= Total(P, TxIds) /\ Total(P, done) \in Nat /\ Total(P, TxIds) \in Nat
  BY <1>1, <1>5, SumPart
<1>17. IsFiniteSet(Q)
  BY <1>6, FS_Subset
<1>18. Total(D, Q) = Total(f, open)
  BY <1>8, <1>9, <1>10, <1>17, SumRename
<1>19. Total(D, Q) <= Total(D, S) /\ Total(D, Q) \in Nat /\ Total(D, S) \in Nat
  BY <1>6, SumPart
<1>20. Total(f, sent) = Total(f, done) + Total(f, open)
  BY <1>1, <1>14, Zenon
<1> QED
  BY <1>11, <1>15, <1>16, <1>18, <1>19, <1>20

MoneyInv == TypeOK /\ OwnershipInv /\ DurabilityInv /\ (restarts = 0 => LedgerInv /\ SettledInv)

LEMMA MoneyInvHolds == Spec => []MoneyInv
<1>1. Init => MoneyInv
  BY InitTypeOK, InitOwnership, InitDurability, InitMoney DEF MoneyInv
<1>2. MoneyInv /\ [Next]_vars => MoneyInv'
  <2> SUFFICES ASSUME MoneyInv, [Next]_vars PROVE MoneyInv'
    OBVIOUS
  <2>1. TypeOK' /\ OwnershipInv' /\ DurabilityInv'
    BY NextTypeOK, NextOwnership, NextDurability DEF MoneyInv
  <2>2. restarts' = 0 => restarts = 0
    <3>1. restarts' = restarts \/ restarts' = restarts + 1
      BY DEF Next, MakePayoutStep, StartPayout, PersistTx, FinishPayout, BuildFailed,
             BuildDuplicate, BuildCreated, SendOk, SendError, SendRejected, CheckRejected, Rejected,
             CheckConfirmed, CheckLater, CheckUnknown, ProcessReward, ManualPayout,
             UpdateBackendSettings, OnUserSettingsUpdate, NodeMines, NodeEvicts, Restart, vars
    <3> QED
      BY <3>1 DEF MoneyInv, TypeOK
  <2>3. restarts' = 0 => LedgerInv' /\ SettledInv'
    BY <2>2, NextMoney DEF MoneyInv
  <2> QED
    BY <2>1, <2>3 DEF MoneyInv
<1> QED
  BY <1>1, <1>2, PTL DEF Spec

\* The control sum at the end of makePayout, for every set of users, rewards,
\* settings and transactions and however makePayout and the other handlers
\* interleave, as long as the process has not restarted: makePayout's batch may
\* hold a balance row back, and a crash then loads a queue and rows that differ.
THEOREM RequestedMatchesQueueHolds == Spec => [](restarts = 0 => RequestedMatchesQueue)
<1>1. MoneyInv => (restarts = 0 => RequestedMatchesQueue)
  BY OwedIs DEF MoneyInv, LedgerInv, TypeOK, RequestedMatchesQueue
<1> QED
  BY <1>1, MoneyInvHolds, PTL

\* Until a restart, what the network has accepted for a user never exceeds what
\* applyReward credited, whatever is queued, merged, rejected, evicted, sent
\* twice or built at a lower value meanwhile.
THEOREM NeverOverpaidHolds == Spec => [](restarts = 0 => NeverOverpaid)
<1>1. MoneyInv => (restarts = 0 => NeverOverpaid)
  BY BooksBoundNetwork DEF MoneyInv
<1> QED
  BY <1>1, MoneyInvHolds, PTL
=============================================================================
