------------------------------- MODULE Stratum -------------------------------
(***************************************************************************)
(* Stratum instances from a block template to the accounting of the coins. *)
(* Every worker thread has its own works, connections and accumulators: a  *)
(* template is handed to each of them as a task, and the extra nonces of   *)
(* two threads differ, so that a share belongs to one thread.  Accepted    *)
(* shares are summed up per coin and flushed to the task queue of the      *)
(* coin's backend; a share that is a block is first sent to all nodes, and *)
(* their answers come back on the same thread.                             *)
(*                                                                         *)
(* A thread runs one handler at a time to its end: an action is a handler. *)
(***************************************************************************)
EXTENDS StratumWorkStorage

CONSTANTS
    Threads,         \* worker threads
    Blocks, NoBlock, \* blocks of a coin that templates build on
    Versions,        \* templates of a merge-mined coin for one block: transactions, time
    Nonces,          \* the rest of a header: other coins' templates, extra nonce, nonce
    MaxTasks,        \* bound: templates waiting for a thread
    MaxShares,       \* bound: shares submitted
    MaxTemplates,    \* bound: templates reported
    MaxEvents        \* bound: templates reported and blocks sent to nodes, together

\* An instance also has: nodes, the nodes of a coin that blocks are sent to; rtt,
\* the coins with real time targeting; and switcher, ProfitSwitcherEnabled_.
\* Only DOGE's instance merges, and only BTC's has coins with real time targeting.
ASSUME StratumAssumptions ==
    /\ \A i \in Instances :
          /\ i.rtt \subseteq i.primary /\ (i.rtt = {} \/ i.secondary = {})
          /\ i.switcher \in BOOLEAN
    /\ NoBlock \notin Blocks
    /\ {MaxTasks, MaxShares, MaxTemplates, MaxEvents} \subseteq Nat

VARIABLES
    inst,       \* the instance
    running,    \* the worker threads have not been stopped
    tasks,      \* templates waiting for each thread (CThreadPool)
    store,      \* WorkStorage of each thread
    jobs,       \* external: the works each thread has sent to its miners
    turn,       \* history: the block each thread last loaded for a coin, and how
                \*    often that block changed
    info,       \* block info of each accumulator: the block it was set from
    acc,        \* shares in the accumulator of each thread and coin
    submits,    \* CSubmitBlockOperation: blocks that wait for nodes' answers
    nodeHas,    \* external: the blocks each node knows
    queue,      \* task queue of the backend of each coin
    ledger,     \* accounting of each coin: the batches and blocks it was given
    notes,      \* PendingMergedNotifications_ of each coin, by share
    linked,     \* MergedBlocks of the rows of each coin's found blocks
    shares,     \* shares submitted so far
    templates,  \* templates reported so far
    sends       \* blocks sent to nodes so far

work     == <<tasks, store, jobs, turn, info>>
backend  == <<queue, ledger, notes, linked>>
events   == <<templates, sends>>
vars     == <<inst, running, work, acc, submits, nodeHas, backend, shares, events>>

MainWorkSource == Min(inst.primary)

Init ==
    /\ inst \in Instances /\ running = TRUE
    /\ tasks = [t \in Threads |-> <<>>]
    /\ store = [t \in Threads |-> EmptyStorage(inst)] /\ jobs = [t \in Threads |-> {}]
    /\ turn = [t \in Threads |-> [c \in Coins |-> [block |-> NoBlock, n |-> 0]]]
    /\ info = [t \in Threads |-> [c \in Coins |-> NoBlock]]
    /\ acc = [t \in Threads |-> [c \in Coins |-> <<>>]]
    /\ submits = {} /\ nodeHas = [n \in inst.nodes |-> {}]
    /\ queue = [c \in Coins |-> <<>>]
    /\ ledger = [c \in Coins |-> <<>>]
    /\ notes = [c \in Coins |-> <<>>] /\ linked = [c \in Coins |-> <<>>]
    /\ shares = 0 /\ templates = 0 /\ sends = 0

----------------------------------------------------------------------------
(* Accumulators.                                                           *)

\* The batch of shares taken from the accumulator of coin c.
Batch(t, c) == [kind |-> "work", info |-> info[t][c], shares |-> acc[t][c]]
TakeBatch(t, c) == IF acc[t][c] = <<>> THEN <<>> ELSE <<Batch(t, c)>>

\* Flush the accumulators of the coins C, and send `then' behind the batch.
Flush(t, C, then) ==
    /\ queue' = [c \in Coins |-> IF c \in C THEN queue[c] \o TakeBatch(t, c) \o then ELSE queue[c]]
    /\ acc' = [acc EXCEPT ![t] = [c \in Coins |-> IF c \in C THEN <<>> ELSE @[c]]]

\* flushWork, when the interval of coin c is over.
FlushWork(t, c) ==
    /\ running /\ acc[t][c] # <<>>
    /\ Flush(t, {c}, <<>>)
    /\ UNCHANGED <<inst, running, work, submits, nodeHas, ledger, notes, linked, shares, events>>

----------------------------------------------------------------------------
(* Templates.                                                              *)

\* A node reports a template (reportNewWork, checkNewBlockTemplate).  A node
\* that takes over from another may be behind it.
NewBlockTemplate(c, b) ==
    /\ running /\ templates < MaxTemplates /\ templates + sends < MaxEvents /\ templates' = templates + 1
    /\ \A t \in Threads : Len(tasks[t]) < MaxTasks
    /\ tasks' = [t \in Threads |-> Append(tasks[t], [coin |-> c, block |-> b])]
    /\ UNCHANGED <<inst, running, store, jobs, turn, info, acc, submits, nodeHas, backend, shares, sends>>

\* The work to send to the miners: the one of the main coin, or any of the
\* primary coins' works, as prices decide.
Candidates(s) ==
    LET from == IF inst.switcher THEN inst.primary ELSE {MainWorkSource}
    IN  {FetchWork(s, c) : c \in from} \ {NoWork}

\* Mutant of StaleAccumulators: none is flushed.
StaleAccumulatorsNone(s) == {}

\* The accumulators that hold shares of an older block.
StaleAccumulators(s) == {c \in Coins : ~s.known[c]}

\* The rest of acceptWork with the works s: a work other than the current one is
\* sent to the miners, unless prices leave the current one the most profitable.
SelectWork(t, s) ==
    LET best == Candidates(s)
    IN  \/ /\ best = {} \/ s.current \in best
           /\ store' = [store EXCEPT ![t] = s]
           /\ UNCHANGED <<jobs, info, acc, queue>>
        \/ \E w \in best \ {s.current} :
             /\ Flush(t, StaleAccumulators(s), <<>>)
             /\ info' = [info EXCEPT ![t] =
                   [c \in Coins |-> IF c \in CoinsOf(s.work[w]) THEN s.work[w].block[c] ELSE @[c]]]
             /\ jobs' = [jobs EXCEPT ![t] = @ \cup {w}]
             /\ store' = [store EXCEPT ![t] =
                   [s EXCEPT !.current = w,
                             !.known = [c \in Coins |-> @[c] \/ c \in CoinsOf(s.work[w])]]]

\* The thread has loaded a template of block b of coin c.
Turned(t, c, b) ==
    [turn EXCEPT ![t][c] = IF @.block = b THEN @ ELSE [block |-> b, n |-> @.n + 1]]

\* acceptWork for the first template.  It is dropped when the mining address it
\* gets is not valid; when it cannot be loaded, the works stay as they are.
AcceptWork(t) ==
    LET tmpl == Head(tasks[t])
    IN  /\ running /\ tasks[t] # <<>>
        /\ tasks' = [tasks EXCEPT ![t] = Tail(@)]
        /\ \/ UNCHANGED <<store, jobs, turn, info, acc, queue>>
           \/ SelectWork(t, store[t]) /\ UNCHANGED turn
           \/ /\ SelectWork(t, CreateWork(store[t], tmpl.coin, tmpl.block))
              /\ turn' = Turned(t, tmpl.coin, tmpl.block)
        /\ UNCHANGED <<inst, running, submits, nodeHas, ledger, notes, linked, shares, events>>

----------------------------------------------------------------------------
(* Shares and blocks.                                                      *)

\* The hash of the block of coin c that a share on work `id' is.  A merge-mined
\* coin's header has nothing of the share: it is the one of the coin's template.
BlockHash(s, id, c, hash) ==
    IF \E p \in Coins \ {c} : id \in Range(s.merged[p])
    THEN [block |-> s.work[id].block[c], version |-> hash.version] ELSE hash

\* aioSubmitBlock: the block of coin c that `share' on work `id' is, with the
\* other coins the share counts for.
Submission(t, c, id, share, n) ==
    [thread |-> t, coin |-> c, hash |-> share.hash, at |-> share.at,
     block |-> BlockHash(store[t], id, c, share.hash), others |-> store[t].work[id].live \ {c},
     nth |-> n, waits |-> inst.nodes, ok |-> 0]

\* addShare, for every coin the work still has a link to.
AddShare(t, id, share) ==
    LET w == store[t].work[id]
    IN  [acc EXCEPT ![t] = [c \in Coins |->
            IF c \in w.live
            THEN Append(@[c], [hash |-> share.hash, at |-> share.at, block |-> w.block[c],
                               turn |-> turn[t][c].n, sent |-> id \in jobs[t]])
            ELSE @[c]]]

\* shareCheck for a share on work `id' that is known and well formed.  Its hash
\* is the one of the header: it has nothing of the work's id.  `good': it meets
\* the share target; `blocks': the coins it is a block of; `pend': the coins
\* whose pending share it becomes, as the first or with a lower hash.
Submit(t, id, version, nonce, good, blocks, pend) ==
    LET s == store[t]
        w == s.work[id]
        hash == [thread |-> t, blocks |-> w.block, version |-> version, nonce |-> nonce]
        share == [hash |-> hash, at |-> shares + 1]
        new == good /\ ~IsDuplicate(s, id, share.hash)
    IN  /\ running /\ shares < MaxShares /\ shares' = shares + 1
        /\ id \in s.byId
        /\ blocks \subseteq w.live /\ pend \subseteq (w.live \cap inst.rtt) \ blocks
        /\ new \/ blocks \cup pend = {}
        /\ sends' = sends + Cardinality(blocks) /\ templates + sends' <= MaxEvents
        /\ submits' = submits \cup {Submission(t, c, id, share, sends') : c \in blocks}
        /\ acc' = IF new THEN AddShare(t, id, share) ELSE acc
        /\ store' = [store EXCEPT ![t] = UpdatePending(Remember(s, id, share.hash), pend, id, share)]
        /\ UNCHANGED <<inst, running, tasks, jobs, turn, info, nodeHas, backend, templates>>

\* rttTimerCb and sharePendingCheck: the pending share of coin c has become a
\* block by now.  It stays pending, and is sent again by the next tick.
RttTimer(t, c) ==
    LET pend == store[t].pending[c]
    IN  /\ running /\ pend # NoShare
        /\ pend.id \in store[t].byId /\ c \in store[t].work[pend.id].live
        /\ templates + sends < MaxEvents /\ sends' = sends + 1
        /\ submits' = submits \cup {Submission(t, c, pend.id, pend.share, sends')}
        /\ UNCHANGED <<inst, running, work, acc, nodeHas, backend, shares, templates>>

\* Mutant of Answered: answers are counted, successes are not.
AnsweredUncounted(op, n, ok) ==
    LET rest == [op EXCEPT !.waits = @ \ {n}]
    IN  (submits \ {op}) \cup (IF rest.waits = {} THEN {} ELSE {rest})

\* CSubmitBlockOperation::accept, which goes with the last answer.
Answered(op, n, ok) ==
    LET rest == [op EXCEPT !.waits = @ \ {n}, !.ok = @ + ok]
    IN  (submits \ {op}) \cup (IF rest.waits = {} THEN {} ELSE {rest})

BlockFound(op) ==
    <<[kind |-> "block", block |-> op.block, hash |-> op.hash, at |-> op.at,
       thread |-> op.thread, others |-> op.others]>>

\* Mutant of BlockAccepted: the block overtakes the work of its round.
BlockAcceptedFirst(op) ==
    /\ queue' = [queue EXCEPT ![op.coin] = @ \o BlockFound(op)]
    /\ UNCHANGED acc

\* The first node that accepts a block makes it a found block.
BlockAccepted(op) == Flush(op.thread, {op.coin}, BlockFound(op))

\* Node n takes the block and says so.
NodeAccepts(op, n) ==
    /\ running /\ n \in op.waits /\ <<op.coin, op.block>> \notin nodeHas[n]
    /\ nodeHas' = [nodeHas EXCEPT ![n] = @ \cup {<<op.coin, op.block>>}]
    /\ submits' = Answered(op, n, 1)
    /\ IF op.ok = 0 THEN BlockAccepted(op) ELSE UNCHANGED <<queue, acc>>
    /\ UNCHANGED <<inst, running, work, ledger, notes, linked, shares, events>>

\* It knows the block already, refuses it, or has not answered in three minutes
\* (what it does with the block then only matters for later submissions, which
\* may fail as well).
NodeFails(op, n) ==
    /\ running /\ n \in op.waits
    /\ submits' = Answered(op, n, 0)
    /\ UNCHANGED <<inst, running, work, acc, nodeHas, backend, shares, events>>

\* ThreadPool->stop(): the threads leave their loops, and all they hold is gone.
Stop ==
    /\ running /\ running' = FALSE
    /\ tasks' = [t \in Threads |-> <<>>] /\ jobs' = [t \in Threads |-> {}]
    /\ store' = [t \in Threads |-> EmptyStorage(inst)]
    /\ info' = [t \in Threads |-> [c \in Coins |-> NoBlock]]
    /\ acc' = [t \in Threads |-> [c \in Coins |-> <<>>]]
    /\ submits' = {}
    /\ UNCHANGED <<inst, turn, nodeHas, backend, shares, events>>

----------------------------------------------------------------------------
(* The task handler of a backend, and its accounting.                      *)

\* onUserWorkSummary: what the accounting does with it is in WorkLog.
OnUserWorkSummary(c) ==
    /\ queue[c] # <<>> /\ Head(queue[c]).kind = "work"
    /\ ledger' = [ledger EXCEPT ![c] = Append(@, Head(queue[c]))]
    /\ queue' = [queue EXCEPT ![c] = Tail(@)]
    /\ UNCHANGED <<inst, running, work, acc, submits, nodeHas, notes, linked, shares, events>>

\* What waits for the block that a share is (CMergedBlockPending), by share hash.
Note(c, h) ==
    IF h \in DOMAIN notes[c] THEN notes[c][h] ELSE [hasBlock |-> FALSE, block |-> NoBlock, pending |-> {}]

\* Mutant of LinkMerged: what came before the block is not linked to it.
LinkMergedLate(c, h, row, note) ==
    /\ linked' = [linked EXCEPT ![c] = With(@, note.block, row)]
    /\ notes' = [notes EXCEPT ![c] = With(@, h, note)]

\* flushPendingMergedBlocks once the block is there, with `row' in the database.
LinkMerged(c, h, row, note) ==
    /\ linked' = [linked EXCEPT ![c] = With(@, note.block, row \cup note.pending)]
    /\ notes' = [notes EXCEPT ![c] = With(@, h, [note EXCEPT !.pending = {}])]

\* onBlockFound: a new row, over the one a block may have.  The rest of it is in
\* Rounds.
OnBlockFound(c) ==
    LET e == Head(queue[c])
    IN  /\ queue[c] # <<>> /\ e.kind = "block"
        /\ ledger' = [ledger EXCEPT ![c] = Append(@, e)]
        /\ LinkMerged(c, e.hash, {}, [Note(c, e.hash) EXCEPT !.hasBlock = TRUE, !.block = e.block])
        /\ queue' = [d \in Coins |->
              (IF d = c THEN Tail(queue[d]) ELSE queue[d])
                \o (IF d \in e.others THEN <<[kind |-> "merged", hash |-> e.hash, from |-> c]>> ELSE <<>>)]
        /\ UNCHANGED <<inst, running, work, acc, submits, nodeHas, shares, events>>

OnMergedBlockNotification(c) ==
    LET e == Head(queue[c])
        note == [Note(c, e.hash) EXCEPT !.pending = @ \cup {e.from}]
    IN  /\ queue[c] # <<>> /\ e.kind = "merged"
        /\ queue' = [queue EXCEPT ![c] = Tail(@)]
        /\ IF note.hasBlock THEN LinkMerged(c, e.hash, linked[c][note.block], note)
           ELSE notes' = [notes EXCEPT ![c] = With(@, e.hash, note)] /\ UNCHANGED linked
        /\ UNCHANGED <<inst, running, work, acc, submits, nodeHas, ledger, shares, events>>

BackendStep(c) == OnUserWorkSummary(c) \/ OnBlockFound(c) \/ OnMergedBlockNotification(c)

----------------------------------------------------------------------------

Next ==
    \/ \E c \in Coins : BackendStep(c) \/ \E b \in Blocks : NewBlockTemplate(c, b)
    \/ \E t \in Threads :
          \/ \E c \in Coins : FlushWork(t, c) \/ RttTimer(t, c)
          \/ AcceptWork(t)
          \/ \E id \in store[t].byId, version \in Versions, nonce \in Nonces, good \in BOOLEAN :
                \E blocks \in SUBSET Coins, pend \in SUBSET inst.rtt :
                    Submit(t, id, version, nonce, good, blocks, pend)
    \/ \E op \in submits, n \in inst.nodes : NodeAccepts(op, n) \/ NodeFails(op, n)
    \/ Stop

Spec == Init /\ [][Next]_vars

----------------------------------------------------------------------------
(* Properties.                                                             *)

\* Everything a thread can reach by an id or a link is still allocated, and
\* every work that is allocated belongs to one sequence: no share, no timer and
\* no new template finds a dangling pointer, whatever order blocks of primary
\* and secondary coins come in.
NoDanglingWork ==
    \A t \in Threads :
        LET s == store[t]
            held(seq) == UNION {Range(s[seq][c]) : c \in Coins}
        IN  /\ s.byId = DOMAIN s.work
            /\ DOMAIN s.work = held("primary") \cup held("secondary") \cup held("merged")
            /\ s.current \in DOMAIN s.work \cup {NoWork}
            /\ \A id \in DOMAIN s.work : \A c \in s.work[id].live : s.work[id].part[c] \in DOMAIN s.work

\* The work that acceptWork would send to the miners has all its parts: it
\* reads the reward of every coin of the work without looking for null links.
NewestIsWhole ==
    \A t \in Threads, c \in inst.primary :
        LET s == store[t]
            id == FetchWork(s, c)
        IN  id # NoWork => s.work[id].live = CoinsOf(s.work[id])

\* All that the accounting of coin c got or will get.
Log(c) == ledger[c] \o queue[c]
HasWork(e) == e.kind = "work"
HasBlock(e) == e.kind = "block"

\* A share is paid (PPS) by the reward and difficulty of the block it was mined
\* for: the block info of its accumulator has not moved on before the flush.  It
\* is so for the works that miners were sent; a thread takes any id it knows.
CreditedForItsBlock ==
    \A c \in Coins :
        /\ \A t \in Threads : \A k \in DOMAIN acc[t][c] :
              acc[t][c][k].sent => acc[t][c][k].block = info[t][c]
        /\ \A e \in Range(Log(c)) : HasWork(e) =>
              \A k \in DOMAIN e.shares : e.shares[k].sent => e.shares[k].block = e.info

\* The shares of coin c in an accumulator, or in an entry of its log.
SharesOf(c, x) ==
    IF x[1] = "acc" THEN acc[x[2]][c] ELSE IF HasWork(Log(c)[x[2]]) THEN Log(c)[x[2]].shares ELSE <<>>

\* No header counts twice for a coin between two changes of the coin's block,
\* however often it is sent, on whichever works, and however batches are cut; also
\* when a merged work outlives the block of one of its coins (eraseAll clears the
\* accepted shares of that coin only).
SharesCountOnce ==
    \A c \in Coins :
        LET lists == ({"acc"} \X Threads) \cup ({"log"} \X DOMAIN Log(c))
        IN  \A x, y \in lists : \A i \in DOMAIN SharesOf(c, x), j \in DOMAIN SharesOf(c, y) :
                LET s == SharesOf(c, x)[i]
                    u == SharesOf(c, y)[j]
                IN  s.hash = u.hash /\ s.turn = u.turn => x = y /\ i = j

\* The round of a block has the work of its finder's thread: the share that is
\* the block is in front of it, and no share that the thread accepted before
\* that one comes behind it (nor stays in the accumulator).
RoundHasItsWork ==
    \A c \in Coins : \A j \in DOMAIN Log(c) :
        HasBlock(Log(c)[j]) =>
            LET b == Log(c)[j]
                earlier(s) == s.at <= b.at /\ s.hash.thread = b.thread
                in(k) == HasWork(Log(c)[k]) /\ \E i \in DOMAIN Log(c)[k].shares : earlier(Log(c)[k].shares[i])
            IN  /\ \E k \in 1 .. j - 1 : HasWork(Log(c)[k])
                        /\ \E i \in DOMAIN Log(c)[k].shares : Log(c)[k].shares[i].at = b.at
                /\ \A k \in j + 1 .. Len(Log(c)) : ~in(k)
                /\ \A k \in DOMAIN acc[b.thread][c] : ~earlier(acc[b.thread][c][k])

\* There is no second node that knows less.
OneNode == \A m, n \in inst.nodes : m = n

\* A found block is reported once, and gets one round: the answers of the nodes
\* about one submission make one report, and so do, when there is one node, all
\* submissions of a block, by pending shares, by shares that are repeated or by
\* several shares with the same block of a merge-mined coin.
OneRoundPerBlock ==
    \A c \in Coins : \A j, k \in DOMAIN Log(c) :
        LET a == Log(c)[j]
            b == Log(c)[k]
        IN  /\ HasBlock(a) /\ HasBlock(b)
            /\ a.at = b.at \/ (OneNode /\ a.block = b.block)
            => j = k

\* A report of coin c whose row no other report has written to, and whose share
\* was not reported again.
OnlyReport(c, k) ==
    \A j \in DOMAIN ledger[c] :
        LET a == ledger[c][j]
            b == ledger[c][k]
        IN  HasBlock(a) /\ (a.hash = b.hash \/ a.block = b.block) => j = k

\* When a share was a block of several coins, each of these blocks is linked to
\* the others, in whatever order the coins' tasks came.
MergedBlocksLinked ==
    \A c, d \in Coins :
        c # d /\ queue[c] = <<>> /\ queue[d] = <<>> =>
            \A j \in DOMAIN ledger[c], k \in DOMAIN ledger[d] :
                LET a == ledger[c][j]
                    b == ledger[d][k]
                IN  HasBlock(a) /\ HasBlock(b) /\ a.at = b.at /\ OnlyReport(c, j)
                        => d \in linked[c][a.block]

=============================================================================
