------------------------------ MODULE Payouts ------------------------------
(***************************************************************************)
(* The payout side of one coin's accounting backend: user balances, the    *)
(* payout queue, the makePayout coroutine that turns queue records into    *)
(* transactions, the handlers that run while it waits for the node, and    *)
(* the "accounting.state" database that a restart loads.                   *)
(*                                                                         *)
(* Everything runs on the backend's one thread.  Coroutines switch only    *)
(* inside an io* call, so one action is the code between two such calls:   *)
(* makePayout stops at ioBuildTransaction, ioSendTransaction and           *)
(* ioGetTxConfirmations, and any other handler may run to completion       *)
(* there.  The process can die between any two writes to a database, so    *)
(* the two flushes of makePayout are steps of their own, at which only     *)
(* makePayout itself or a restart can continue.                            *)
(***************************************************************************)
EXTENDS Aggregates

CONSTANTS
    Users,            \* logins; numbers, ordered as std::map orders logins
    TxIds,            \* transaction ids the node can produce
    NoTx,             \* the empty TransactionId
    NoWrite,          \* no balance row in a write batch
    Rewards,          \* rounds and PPS pay-outs that are credited to users
    BackendSettings,  \* values of CBackendPayouts an admin may set
    UserSettings,     \* values of UserSettingsRecord a user may set
    Corrections,      \* how far a transaction's total may stay below the payout's value
    TxFees,           \* fees ioGetTxConfirmations may report
    MaxMoney,         \* bound: no sum of payouts exceeds it
    MaxRestarts       \* bound on crashes and restarts

Money == 0 .. MaxMoney

ASSUME PayoutAssumptions ==
    /\ Users \subseteq Nat /\ IsFiniteSet(Users)
    /\ IsFiniteSet(TxIds) /\ NoTx \notin TxIds
    /\ MaxMoney \in Nat /\ MaxRestarts \in Nat
    /\ \A r \in Rewards : r.mode \in {"pplns", "pps"} /\ r.pay \in [Users -> Nat]
    /\ \A s \in BackendSettings : s.min \in Nat /\ s.instant \in BOOLEAN
    /\ \A s \in UserSettings : /\ s.present \in BOOLEAN
                               /\ s.address \in {"none", "invalid", "valid"}
                               /\ s.instant \in BOOLEAN
                               /\ s.threshold \in Nat
    /\ Corrections \subseteq Nat /\ TxFees \subseteq Nat

VARIABLES
    queue,        \* State_.PayoutQueue: list position -> PayoutDbRecord
    balance,      \* State_.BalanceMap
    known,        \* State_.KnownTransactions
    pc,           \* the io call makePayout waits in, "persist" or "finish"
                  \* just before one of its two flushes, or "idle"
    cur,          \* list position of the payout makePayout is working on
    batch,        \* makePayout's write batch: the balance rows put in it
    diskQueue,    \* ".payoutqueue" of accounting.state
    diskBalance,  \* "b{Login}" rows of accounting.state
    payoutDb,     \* last status put into the payouts database, by transaction
    settings,     \* State_.BackendSettings (saved when it changes)
    userSettings, \* UserSettings_ (owned and saved by UserManager)
    pending,      \* rewards not yet credited; their rows leave accounting.state
                  \* in the same batch that credits them
    credited,     \* history: what the rewards gave each user so far
    txs,          \* external: what each built transaction pays and to whom
    node,         \* external: what the network did with it
    restarts      \* bound: number of restarts so far

memory  == <<queue, balance, known, pc, cur, batch>>
disk    == <<diskQueue, diskBalance>>
outside == <<settings, userSettings, pending, credited>>
network == <<txs, node>>
vars    == <<memory, disk, payoutDb, outside, network, restarts>>

Statuses == {"EInitialized", "ETxCreated", "ETxSent", "ETxConfirmed"}

PayoutDbRecord ==
    [user : Users, value : Nat, tx : TxIds \cup {NoTx}, status : Statuses]

UserBalanceRecord == [balance : Int, requested : Int, paid : Nat]

NewPayout(u, v) == [user |-> u, value |-> v, tx |-> NoTx, status |-> "EInitialized"]

----------------------------------------------------------------------------
(* The list.  A record keeps its position for as long as it is in the list *)
(* (std::list nodes are stable); push_back uses a position above all of    *)
(* them and erase drops one from the domain.                               *)

EndOf(q) == IF DOMAIN q = {} THEN 1 ELSE Max(DOMAIN q) + 1

\* push_back of one new payout per user of `who', in login order.
PushBack(q, who, value) ==
    [p \in DOMAIN q \cup {EndOf(q) + u : u \in who} |->
        IF p \in DOMAIN q THEN q[p] ELSE NewPayout(p - EndOf(q), value[p - EndOf(q)])]

Erase(q, gone) == [p \in DOMAIN q \ gone |-> q[p]]

Confirmed(q) == {p \in DOMAIN q : q[p].status = "ETxConfirmed"}

\* Sum of the payouts of user u at the positions `at' of q.
Enqueued(q, at, u) == Total([p \in at |-> q[p].value], {p \in at : q[p].user = u})

----------------------------------------------------------------------------
(* Initial state: an empty accounting.state and an idle backend.           *)

NoBalance == [balance |-> 0, requested |-> 0, paid |-> 0]
EmptyQueue == [p \in {} |-> NoTx]
EmptyBatch == [u \in Users |-> NoWrite]

Init ==
    /\ queue = EmptyQueue /\ diskQueue = EmptyQueue
    /\ balance = [u \in Users |-> NoBalance] /\ diskBalance = balance
    /\ known = {} /\ batch = EmptyBatch
    /\ pc = "idle" /\ cur = 0
    /\ payoutDb = [t \in TxIds |-> "none"]
    /\ settings \in BackendSettings /\ userSettings \in [Users -> UserSettings]
    /\ pending = Rewards /\ credited = [u \in Users |-> 0]
    /\ txs = [t \in TxIds |-> NoTx] /\ node = [t \in TxIds |-> "none"]
    /\ restarts = 0

----------------------------------------------------------------------------
(* The loop of makePayout over the queue.                                  *)

\* buildTransaction's checks before it calls the node: needSkipPayout.
Payable(rec) ==
    /\ rec.value >= settings.min
    /\ userSettings[rec.user].present
    /\ userSettings[rec.user].address = "valid"

\* The io call the loop makes for a record; "none" when it moves past it.
IoCall(rec) ==
    CASE rec.status = "EInitialized" /\ Payable(rec) -> "build"
      [] rec.status = "ETxCreated" -> "send"
      [] rec.status = "ETxSent" -> "check"
      [] OTHER -> "none"

\* Go on with the first record behind position `from' that needs the node.
Advance(q, from) ==
    LET stops == {p \in DOMAIN q : p > from /\ IoCall(q[p]) # "none"}
    IN  IF stops = {}
        THEN pc' = "finish" /\ cur' = 0
        ELSE \E p \in stops : /\ \A o \in stops : p <= o
                              /\ cur' = p /\ pc' = IoCall(q[p])

\* Records that the merge at the start of makePayout takes out of the list.
Small(q) == {p \in DOMAIN q : q[p].status = "EInitialized" /\ q[p].value < settings.min}

StartPayout ==
    /\ pc = "idle" /\ settings.instant /\ DOMAIN queue # {}
    /\ \E payoutAccMap \in [Users -> Money] :
          /\ \A u \in Users : payoutAccMap[u] = Enqueued(queue, Small(queue), u)
          /\ queue' = PushBack(Erase(queue, Small(queue)),
                              {queue[p].user : p \in Small(queue)}, payoutAccMap)
    /\ batch' = EmptyBatch
    /\ Advance(queue', 0)
    /\ UNCHANGED <<balance, known, disk, payoutDb, outside, network, restarts>>

\* putBalance into makePayout's batch: the row is serialised now, and written
\* with whatever else is in the batch when the batch is flushed.
PutBalance(u) == batch' = [batch EXCEPT ![u] = balance'[u]]

----------------------------------------------------------------------------
(* buildTransaction, from the node's answer on.                            *)

\* Insufficient funds, any other error, or a total above the payout's value:
\* makePayout leaves the loop.
BuildFailed ==
    /\ pc = "build"
    /\ pc' = "finish" /\ cur' = 0
    /\ UNCHANGED <<queue, balance, known, batch, disk, payoutDb, outside, network, restarts>>

\* The node prepares and signs transaction t.  The wallet does not lock the
\* inputs, so a request with the same content may give an id it gave before.
NodeBuilds(t, content) ==
    /\ node[t] = "none" \/ (node[t] = "built" /\ txs[t] = content)
    /\ txs' = [txs EXCEPT ![t] = content]
    /\ node' = [node EXCEPT ![t] = "built"]

\* Mutant of CorrectRequested: the value is corrected, the balance is not.
CorrectRequestedLost(u, delta) == UNCHANGED <<balance, batch>>

\* "Correct payout value and request balance" when the total is below it.
CorrectRequested(u, delta) ==
    IF delta = 0 THEN UNCHANGED <<balance, batch>>
    ELSE /\ balance' = [balance EXCEPT ![u].requested = @ - delta]
         /\ PutBalance(u)

BuildDuplicate(t, total) ==
    /\ pc = "build" /\ 0 < total /\ total <= queue[cur].value
    /\ NodeBuilds(t, [user |-> queue[cur].user, value |-> total])
    /\ CorrectRequested(queue[cur].user, queue[cur].value - total)
    /\ t \in known
    /\ queue' = [queue EXCEPT ![cur].value = total]
    /\ pc' = "finish" /\ cur' = 0
    /\ UNCHANGED <<known, disk, payoutDb, outside, restarts>>

\* Mutant of BuildCreated: the payout keeps the value it asked for.
BuildCreatedUncorrected(t, total) ==
    /\ pc = "build" /\ 0 < total /\ total <= queue[cur].value
    /\ NodeBuilds(t, [user |-> queue[cur].user, value |-> total])
    /\ CorrectRequested(queue[cur].user, queue[cur].value - total)
    /\ t \notin known
    /\ known' = known \cup {t}
    /\ queue' = [queue EXCEPT ![cur] = [@ EXCEPT !.tx = t, !.status = "ETxCreated"]]
    /\ payoutDb' = [payoutDb EXCEPT ![t] = "ETxCreated"]
    /\ pc' = "persist"
    /\ UNCHANGED <<cur, disk, outside, restarts>>

BuildCreated(t, total) ==
    /\ pc = "build" /\ 0 < total /\ total <= queue[cur].value
    /\ NodeBuilds(t, [user |-> queue[cur].user, value |-> total])
    /\ CorrectRequested(queue[cur].user, queue[cur].value - total)
    /\ t \notin known
    /\ known' = known \cup {t}
    /\ queue' = [queue EXCEPT ![cur] =
                   [@ EXCEPT !.value = total, !.tx = t, !.status = "ETxCreated"]]
    /\ payoutDb' = [payoutDb EXCEPT ![t] = "ETxCreated"]
    /\ pc' = "persist"
    /\ UNCHANGED <<cur, disk, outside, restarts>>

\* writeBatch: the payout queue as it is now and the balance rows in the batch.
FlushState ==
    /\ diskQueue' = queue'
    /\ diskBalance' = [u \in Users |-> IF batch[u] = NoWrite THEN diskBalance[u] ELSE batch[u]]

\* Mutant of PersistTx: the queue is only saved at the end of the pass.
PersistTxLater ==
    /\ pc = "persist"
    /\ pc' = "send"
    /\ UNCHANGED <<queue, balance, known, cur, batch, disk, payoutDb, outside, network, restarts>>

PersistTx ==
    /\ pc = "persist"
    /\ pc' = "send"
    /\ queue' = queue
    /\ FlushState
    /\ batch' = EmptyBatch
    /\ UNCHANGED <<balance, known, cur, payoutDb, outside, network, restarts>>

----------------------------------------------------------------------------
(* sendTransaction and checkTxConfirmations, from the node's answer on.    *)

tx == queue[cur].tx
OnNetwork(t) == node[t] \in {"accepted", "confirmed"}
Accepted == IF OnNetwork(tx) THEN node ELSE [node EXCEPT ![tx] = "accepted"]

\* Accepted now, or already known or mined.
SendOk ==
    /\ pc = "send"
    /\ node' = Accepted
    /\ queue' = [queue EXCEPT ![cur].status = "ETxSent"]
    /\ payoutDb' = [payoutDb EXCEPT ![tx] = "ETxSent"]
    /\ Advance(queue', cur)
    /\ UNCHANGED <<balance, known, batch, disk, outside, txs, restarts>>

\* No usable answer: the transaction may or may not have got through.
SendError ==
    /\ pc = "send"
    /\ node' \in {node, Accepted}
    /\ Advance(queue, cur)
    /\ UNCHANGED <<queue, balance, known, batch, disk, payoutDb, outside, txs, restarts>>

\* Mutant of Rejected: the id is cleared, the status is not reset.
RejectedNoReset ==
    /\ ~OnNetwork(tx)
    /\ queue' = [queue EXCEPT ![cur].tx = NoTx]
    /\ payoutDb' = [payoutDb EXCEPT ![tx] = "ETxRejected"]
    /\ Advance(queue', cur)
    /\ UNCHANGED <<balance, known, batch, disk, outside, network, restarts>>

\* ETxRejected: the payout is scheduled again without a transaction.  The
\* rejected id stays in KnownTransactions.
Rejected ==
    /\ ~OnNetwork(tx)
    /\ queue' = [queue EXCEPT ![cur] = [@ EXCEPT !.tx = NoTx, !.status = "EInitialized"]]
    /\ payoutDb' = [payoutDb EXCEPT ![tx] = "ETxRejected"]
    /\ Advance(queue', cur)
    /\ UNCHANGED <<balance, known, batch, disk, outside, network, restarts>>

SendRejected == pc = "send" /\ Rejected

CheckRejected == pc = "check" /\ Rejected

CheckConfirmed(TxFee) ==
    /\ pc = "check" /\ node[tx] = "confirmed"
    /\ queue' = [queue EXCEPT ![cur].status = "ETxConfirmed"]
    /\ payoutDb' = [payoutDb EXCEPT ![tx] = "ETxConfirmed"]
    /\ LET p == queue[cur]
       IN  /\ balance' = [balance EXCEPT ![p.user] =
                  [balance |-> @.balance - (p.value + TxFee),
                   requested |-> @.requested - p.value,
                   paid |-> @.paid + p.value]]
           /\ PutBalance(p.user)
    /\ Advance(queue', cur)
    /\ UNCHANGED <<known, disk, outside, network, restarts>>

\* Not enough confirmations yet, or an error: "will do it later".
CheckLater ==
    /\ pc = "check"
    /\ Advance(queue, cur)
    /\ UNCHANGED <<queue, balance, known, batch, disk, payoutDb, outside, network, restarts>>

\* Mutant of CheckUnknown: a lost transaction stays "sent".
CheckUnknownIgnored ==
    /\ pc = "check"
    /\ Advance(queue, cur)
    /\ UNCHANGED <<queue, balance, known, batch, disk, payoutDb, outside, network, restarts>>

\* The wallet does not know the transaction (or, for Ethereum, has no receipt
\* for it yet): the next pass sends it again.
CheckUnknown ==
    /\ pc = "check"
    /\ queue' = [queue EXCEPT ![cur].status = "ETxCreated"]
    /\ Advance(queue', cur)
    /\ UNCHANGED <<balance, known, batch, disk, payoutDb, outside, network, restarts>>

\* The end of makePayout: drop confirmed payouts and save the state.
FinishPayout ==
    /\ pc = "finish"
    /\ queue' = Erase(queue, Confirmed(queue))
    /\ known' = known \ {queue[p].tx : p \in Confirmed(queue)}
    /\ FlushState
    /\ batch' = EmptyBatch
    /\ pc' = "idle"
    /\ UNCHANGED <<balance, cur, payoutDb, outside, network, restarts>>

----------------------------------------------------------------------------
(* The other handlers of the backend's thread.  They run while makePayout  *)
(* waits in an io call, or while it is idle.                               *)

Yielded == pc \in {"idle", "build", "send", "check"}

\* Mutant of NonQueued: what is already requested is paid out again.
WholeBalance(b) == b.balance

NonQueued(b) == b.balance - b.requested

\* applyReward queues the whole unqueued balance of u.
QueuesReward(u, b) ==
    /\ NonQueued(b) >= 0
    /\ settings.instant
    /\ userSettings[u].present /\ userSettings[u].instant
    /\ NonQueued(b) >= userSettings[u].threshold /\ NonQueued(b) >= settings.min

\* ppsPayout, or the confirmation of a round: applyReward for every user paid
\* and one write of the rows it changed.  A PPS pay-out writes the queue only
\* when it has queued something.
ProcessReward(r) ==
    LET paid      == {u \in Users : r.pay[u] > 0}
        earned(u) == [balance[u] EXCEPT !.balance = @ + r.pay[u]]
        queued    == {u \in paid : QueuesReward(u, earned(u))}
    IN  /\ Yielded /\ r \in pending
        /\ pending' = pending \ {r}
        /\ credited' = [u \in Users |-> credited[u] + r.pay[u]]
        /\ queue' = PushBack(queue, queued, [u \in Users |-> NonQueued(earned(u))])
        /\ balance' = [u \in Users |->
                IF u \in queued THEN [earned(u) EXCEPT !.requested = @ + NonQueued(earned(u))]
                                ELSE earned(u)]
        /\ diskBalance' = [u \in Users |-> IF u \in paid THEN balance'[u] ELSE diskBalance[u]]
        /\ diskQueue' = IF r.mode = "pplns" \/ queued # {} THEN queue' ELSE diskQueue
        /\ UNCHANGED <<known, pc, cur, batch, payoutDb, settings, userSettings, network, restarts>>

\* requestManualPayout: queue the unqueued balance, whatever the user's mode.
RequestManualPayout(u, value) ==
    /\ value >= 0 /\ userSettings[u].present
    /\ queue' = PushBack(queue, {u}, [v \in Users |-> value])
    /\ balance' = [balance EXCEPT ![u].requested = @ + value]

\* CAccountingApi::manualPayout of a user who has a BalanceMap entry.
ManualPayout(u) ==
    LET value == NonQueued(balance[u])
    IN  /\ Yielded /\ credited[u] > 0
        /\ value >= settings.min
        /\ RequestManualPayout(u, value)
        /\ diskQueue' = queue'
        /\ diskBalance' = [diskBalance EXCEPT ![u] = balance'[u]]
        /\ UNCHANGED <<known, pc, cur, batch, payoutDb, outside, network, restarts>>

\* A minimum above some user's own threshold is a "users_threshold_conflict".
UsersAllow(min) ==
    \A u \in Users : userSettings[u].present =>
        userSettings[u].threshold = 0 \/ userSettings[u].threshold >= min

\* updateBackendSettings saves the settings and pauses or resumes the timer.
UpdateBackendSettings(s) ==
    /\ Yielded /\ UsersAllow(s.min)
    /\ settings' = s
    /\ UNCHANGED <<memory, disk, payoutDb, userSettings, pending, credited, network, restarts>>

OnUserSettingsUpdate(u, s) ==
    /\ Yielded /\ s.present
    /\ userSettings' = [userSettings EXCEPT ![u] = s]
    /\ UNCHANGED <<memory, disk, payoutDb, settings, pending, credited, network, restarts>>

----------------------------------------------------------------------------
(* The network, and restarts.                                              *)

NodeMines(t) ==
    /\ node[t] = "accepted"
    /\ node' = [node EXCEPT ![t] = "confirmed"]
    /\ UNCHANGED <<memory, disk, payoutDb, outside, txs, restarts>>

\* An unconfirmed transaction can fall out of the memory pool.
NodeEvicts(t) ==
    /\ node[t] = "accepted"
    /\ node' = [node EXCEPT ![t] = "built"]
    /\ UNCHANGED <<memory, disk, payoutDb, outside, txs, restarts>>

\* Mutant of Restart: load() does not rebuild KnownTransactions.
RestartForgetsKnown ==
    /\ restarts < MaxRestarts /\ restarts' = restarts + 1
    /\ queue' = diskQueue /\ balance' = diskBalance
    /\ known' = {}
    /\ pc' = "idle" /\ cur' = 0 /\ batch' = EmptyBatch
    /\ node' \in (IF pc = "send" THEN {node, Accepted} ELSE {node})
    /\ UNCHANGED <<disk, payoutDb, outside, txs>>

\* The process dies, or stops in an idle moment, and load() reads the state
\* back.  A transaction that was being sent may still reach the network.
Restart ==
    /\ restarts < MaxRestarts /\ restarts' = restarts + 1
    /\ queue' = diskQueue /\ balance' = diskBalance
    /\ known' = {diskQueue[p].tx : p \in DOMAIN diskQueue}
    /\ pc' = "idle" /\ cur' = 0 /\ batch' = EmptyBatch
    /\ node' \in (IF pc = "send" THEN {node, Accepted} ELSE {node})
    /\ UNCHANGED <<disk, payoutDb, outside, txs>>

----------------------------------------------------------------------------

MakePayoutStep ==
    \/ StartPayout \/ PersistTx \/ FinishPayout
    \/ BuildFailed
    \/ \E t \in TxIds, c \in Corrections :
          \/ BuildDuplicate(t, queue[cur].value - c)
          \/ BuildCreated(t, queue[cur].value - c)
    \/ SendOk \/ SendError \/ SendRejected
    \/ \E f \in TxFees : CheckConfirmed(f)
    \/ CheckRejected \/ CheckLater \/ CheckUnknown

Next ==
    \/ MakePayoutStep
    \/ \E r \in Rewards : ProcessReward(r)
    \/ \E u \in Users : ManualPayout(u)
    \/ \E s \in BackendSettings : UpdateBackendSettings(s)
    \/ \E u \in Users, s \in UserSettings : OnUserSettingsUpdate(u, s)
    \/ \E t \in TxIds : NodeMines(t) \/ NodeEvicts(t)
    \/ Restart

Spec == Init /\ [][Next]_vars

----------------------------------------------------------------------------
(* Properties.                                                             *)

TxsOf(q) == {q[p].tx : p \in DOMAIN q} \ {NoTx}

\* A payout has a transaction exactly when it is past buildTransaction.
IsQueue(q) ==
    /\ IsFiniteSet(DOMAIN q) /\ DOMAIN q \subseteq Nat \ {0}
    /\ q \in [DOMAIN q -> PayoutDbRecord]
    /\ \A p \in DOMAIN q : q[p].tx = NoTx <=> q[p].status = "EInitialized"

\* While makePayout waits, the payout it holds is still in the list, in the
\* status that led to the io call.
CursorOK ==
    /\ pc = "build" => cur \in DOMAIN queue /\ queue[cur].status = "EInitialized"
    /\ pc \in {"persist", "send"} => cur \in DOMAIN queue /\ queue[cur].status = "ETxCreated"
    /\ pc = "check" => cur \in DOMAIN queue /\ queue[cur].status = "ETxSent"

\* Type invariant of the backend's memory, its database, the settings and the
\* node, with the position makePayout holds (accountingPayouts.cpp, makePayout).
TypeOK ==
    /\ IsQueue(queue) /\ IsQueue(diskQueue)
    /\ balance \in [Users -> UserBalanceRecord]
    /\ diskBalance \in [Users -> UserBalanceRecord]
    /\ known \subseteq TxIds \cup {NoTx}
    /\ batch \in [Users -> UserBalanceRecord \cup {NoWrite}]
    /\ pc \in {"idle", "build", "persist", "send", "check", "finish"}
    /\ cur \in Nat
    /\ payoutDb \in [TxIds -> Statuses \cup {"none", "ETxRejected"}]
    /\ settings \in BackendSettings /\ userSettings \in [Users -> UserSettings]
    /\ pending \subseteq Rewards /\ credited \in [Users -> Nat]
    /\ txs \in [TxIds -> [user : Users, value : Nat] \cup {NoTx}]
    /\ node \in [TxIds -> {"none", "built", "accepted", "confirmed"}]
    /\ restarts \in 0 .. MaxRestarts
    /\ CursorOK

\* "Persist TransactionId before sending to prevent duplicate transactions on
\* crash": whatever moment the process dies at, a transaction that is on the
\* network is found again in the saved queue, unless it was confirmed.
BroadcastIsDurable ==
    \A t \in TxIds : OnNetwork(t) => t \in TxsOf(diskQueue) \/ payoutDb[t] = "ETxConfirmed"

OwnedOnce(q) == \A p, o \in DOMAIN q : q[p].tx = q[o].tx /\ q[p].tx # NoTx => p = o

\* KnownTransactions keeps two payouts from sharing one transaction, in memory
\* and in the saved queue: one transaction never settles two payouts.
TxOwnedOnce == OwnedOnce(queue) /\ OwnedOnce(diskQueue)

PaidBy(rec) == txs[rec.tx] = [user |-> rec.user, value |-> rec.value]

\* A payout with a transaction has the value and the user that transaction
\* pays, in memory and in the saved queue, so that its confirmation debits what
\* was really sent.
TxMatchesPayout ==
    /\ \A p \in DOMAIN queue : queue[p].tx # NoTx => PaidBy(queue[p])
    /\ \A p \in DOMAIN diskQueue : diskQueue[p].tx # NoTx => PaidBy(diskQueue[p])

\* The control sum at the end of makePayout: Requested is the sum of the
\* user's unconfirmed payouts in the queue, at every moment.
RequestedMatchesQueue ==
    \A u \in Users :
        balance[u].requested = Enqueued(queue, DOMAIN queue \ Confirmed(queue), u)

\* What the network has accepted for a user never exceeds what the user earned.
NeverOverpaid ==
    \A u \in Users :
        LET sent == {t \in TxIds : OnNetwork(t) /\ txs[t].user = u}
        IN  credited[u] >= Total([t \in sent |-> txs[t].value], sent)

\* "Payout database inconsistent, restart pool for rebuild recommended": what a
\* restart loads satisfies the control sum.
RestartRebuilds == [][restarts' # restarts => RequestedMatchesQueue']_vars

\* Payouts that can be paid are settled and leave the queue in the end, unless
\* the node rejected so many transactions that the bound TxIds is used up.
QueueDrains ==
    (\E p \in DOMAIN queue : Payable(queue[p]))
        ~> \/ \A p \in DOMAIN queue : ~Payable(queue[p])
           \/ \A t \in TxIds : node[t] # "none"

\* The timer fires and every io call of makePayout returns (clients have
\* timeouts); the node is not down, short of funds or evicting for ever, does
\* not report a transaction as pending for ever that it has dropped, and does
\* not build an already known id for ever (BuildDuplicate leaves the loop, so
\* that the row of the queue would wait behind it).
Fairness ==
    /\ WF_vars(MakePayoutStep)
    /\ SF_vars(CheckUnknown /\ ~OnNetwork(tx))
    /\ SF_vars(\E t \in TxIds, c \in Corrections : BuildCreated(t, queue[cur].value - c))
    /\ SF_vars(SendOk) /\ SF_vars(\E f \in TxFees : CheckConfirmed(f))
    /\ \A t \in TxIds : SF_vars(NodeMines(t))

FairSpec == Spec /\ Fairness
=============================================================================
