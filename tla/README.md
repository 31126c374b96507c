# poolcore: TLA+ models of a mining pool backend

poolcore is a mining pool: miners connect to *instances* (stratum, ZMQ), their
shares are checked and summed up, and for every coin a *backend* keeps the
accounts, follows the blocks the pool has found and pays the miners. This
directory models the part where a mistake costs somebody money: what happens
between a batch of accepted work and a confirmed payout transaction, on one
backend, with a node that fails and lags, and a process that can die between
any two writes. It also models what feeds the accounts (the stratum works,
shares and found blocks), the accounts of the users, the statistics, and how
the process stops.

Paths below are relative to the repository root. All modules are plain TLA+.

## 1. The system

| Component | State it keeps | Operations | Talks to |
|---|---|---|---|
| Pool backend (`PoolBackend`, `src/poolcore/backend.cpp`) | one thread, a FIFO of tasks, timers | runs every handler of its coin as a coroutine; coroutines switch only inside `io*` calls | front end and instances (tasks), the node clients |
| Accounting (`AccountingDb`, `accounting.cpp`) | scores of the current round, open rounds, PPS state, fee plans, user settings | accept work, block found, check rounds, PPS pay-out, settings and fee plan updates | share log, statistics, state, payout processor |
| Accounting state (`CAccountingState`) | balances, payout queue, known transactions, open rounds, current scores | load, apply a batch, atomic flush to `accounting.state` | RocksDB |
| Payout processor (`CPayoutProcessor`) | position in the payout queue, a local write batch | build, send, confirm, reject a transaction; manual payout; apply a reward | node, payouts database, state |
| Share log (`ShareLog`) | log files, in-memory tail, message ids | append, rotate, clean up, replay | files |
| Statistics series (`CStatsSeries*`) | grid cells by user, last accepted and saved message id | accept, flush, load, rebuild | files, statistics database |
| Statistics database (`StatisticDb`) | pool, user and worker series | accept work, flush, queries | share log of its own |
| Node clients (`bitcoin*`, `ethereum*`, `roundRobin`) | connections, timeouts | build, send, look up transactions; look up blocks | several nodes |
| User manager (`UserManager`) | users, sessions, pending actions, fee plans | register, activate, log in, change settings, 2FA | backends (notifications), mail |
| Stratum instance, work storage, share accumulator | jobs, extra nonces, accepted shares, unsent sums | new work, submit, flush | backends, one set per worker thread |
| Task handler, periodic timers | queue with a stop marker; sleeping timers | push, stop, wait | every other part |
| HTTP API and front end | sessions of HTTP clients | JSON requests turned into tasks | user manager, backends |
| Prices, fee estimates | last value | periodic fetch | HTTP services |
| Coin library, block makers, proof of work | none | pure functions on headers and targets | stratum |
| IDL tool, migration, tools | none at run time | code generation, data conversion | - |

### What is hard here

* **Interleaving at `io*` calls.** A backend has one thread, so there are no
  data races, but everything read before a call to the node may have changed
  after it. `makePayout` iterates over a list that `applyReward` and
  `manualPayout` append to; the check of the rounds iterates over a list that
  `onBlockFound` appends to.
* **Crashes.** State lives in several databases and files that are written one
  after the other. Each RocksDB batch is atomic; nothing ties two of them.
* **Delayed writes.** `makePayout` collects balance rows in a local batch and
  writes them much later; the log, the state and the statistics are flushed by
  three independent timers.
* **An unreliable node.** It may fail, answer late or not at all, forget
  transactions, and be behind another node of the same coin.
* **Arithmetic.** Rewards are split by integer division with per-user fees, and
  not a unit may appear or disappear.

### What makes each part correct

* Payouts: a transaction settles one payout, for its user and its value; a
  transaction on the network is never forgotten; nobody gets more than was
  credited; what can be paid is paid in the end.
* Accepted work: each batch counts once, in memory and on disk; a crash loses
  only what was never written; new work is never mistaken for old.
* Rounds: the coins of a block are given away exactly; a round is settled by the
  fate of its own block; a PPS part is taken back exactly when it should be;
  every round ends.
* Stratum: no use of a work that was dropped; a share counts once as long as its
  coin stays on a block, with the reward of the block it was mined for; a found
  block gets one round, which has the work of its finder, and is linked to the
  blocks of the other coins.
* Users: one account per login and address; caches, pointers and databases stay
  together; the backends charge the fee plan the user is on.
* Statistics: logged work reaches the history of every series, and reaches it
  once unless a crash lost the id of a flush.
* Stop: nothing is cut short, nothing accepted is lost, nobody waits for ever.

## 2. Modules

| Module | Models | State and actions |
|---|---|---|
| `Payouts` | `accountingPayouts.cpp`, the payout part of `accountingState.cpp`, `applyReward`, `accountingApi.cpp` (manual payout, settings) | memory (`queue`, `balance`, `known`), `makePayout` (`pc`, `cur`, `batch`), `accounting.state` (`diskQueue`, `diskBalance`), `payoutDb`, the node (`txs`, `node`) |
| `WorkLog` | `shareLog.h`, `datFile.cpp`, `onUserWorkSummary`, `processWorkSummaryBatch`, `ppsPayout`, replay in the constructor of `AccountingDb`, message ids of `statsData.cpp` | the log and its files, the buffer, the state with its PPS money, the ids of the statistics, `pps.payouts` |
| `WorkAccount` | the promise of the former: what is counted, settled, durable, lost | abstract specification, four actions |
| `BlockReward` | `distributeBlockReward` | pure operators |
| `Rounds` | `onBlockFound`, `checkBlockConfirmations`, `checkBlockExtraInfo`, `processRoundConfirmation`, loading rounds, the answers of the Bitcoin and Ethereum clients | open rounds, the running check, the saved rows, `foundDb`, `roundsDb`, the chain |
| `StratumWorkStorage` | `stratumWorkStorage.h`, the chain map of `blockmaker/doge.cpp` | a storage as a value, operators for every method |
| `Stratum` | `stratum.h` (templates, shares, pending shares, blocks, flush), `CSubmitBlockOperation`, `CShareAccumulator`, the block and merged-block part of `accounting.cpp` | per thread: tasks, storage, accumulators; per coin: task queue and ledger |
| `Users` | `usermgr.h`, `usermgr.cpp` | caches, databases, pointers by login, waiting mails, fee plans and what the backends were told |
| `Stats` | `statistics.cpp`, `statsData.cpp`, `shareLog.h` as used there | series, cache files, history, log, the position of the constructor |
| `BackendStop` | `taskHandler.h`, `periodicTimer.h`, the `start` and `stop` functions of `backend.cpp`, `accounting.cpp`, `statistics.cpp`, `poolCore.cpp`, `main.cpp` | the stopping thread, three task handlers, the timers, their events |
| `Aggregates` | - | sums over finite sets and sorted lists, used by the models |
| `PayoutsProofs`, `WorkLogProofs`, `RoundsProofs`, `StratumProofs`, `UsersProofs`, `StatsProofs`, `BackendStopProofs` | - | TLAPS proofs about the seven modules |
| `FiniteSetLemmas` | - | facts about finite sets and sums that these proofs share |
| `MCPayouts`, `MCWorkLog`, `MCRounds`, `MCStratum`, `MCUsers`, `MCStats` | - | constants for TLC |

A definition whose comment begins with "Mutant of" is not part of any
specification: it is a wrong version of the definition below it, kept to show
that a property notices the mistake. `PROJECT.json` pairs each with a property
and maps every other definition to the lines it models.

### Payouts

One action is the code between two `io*` calls. `StartPayout` is the merge of
small payouts at the top of `makePayout` and the walk to the first record that
needs the node; `BuildCreated`, `BuildDuplicate`, `BuildFailed`, `SendOk`,
`SendError`, `SendRejected`, `CheckConfirmed`, `CheckRejected`, `CheckLater`,
`CheckUnknown` are what follows each answer, up to the next record that needs
the node. The two flushes are steps of their own (`PersistTx`, `FinishPayout`),
at which no other handler can run but the process can die. `ProcessReward`,
`ManualPayout`, `UpdateBackendSettings` and `OnUserSettingsUpdate` are whole
handlers and run when `makePayout` has yielded.

Abstractions: the `std::list` is a function from positions to records (list
nodes are stable under `push_back` and `erase` of others). `UInt<384>` amounts
are integers. A reward is the set of amounts that one flush credits; which
round or PPS interval it came from is the business of `Rounds`. The node is
truthful: it rejects only what is not on the network, and confirms only what
is. `RequiredConfirmations` is positive. Moves between transparent and shielded
addresses, the wallet service and the balance check change no state that is
modelled. The branches for a queue record with an address nobody knows cannot
be reached with the records this code writes.

### WorkLog and WorkAccount

`OnUserWorkSummary`, `PpsPayout`, `OnUserSettingsUpdate`, `FlushShareLog` (flush, rotation, clean-up), `FlushState`,
`FlushUserStats` and `OnBlockFound` run to completion. `Restart(n, torn)` is a
crash in which the first `n` records of the buffer reached the file, with part
of the next one behind them if `torn`, followed by the constructor: load,
replay, `startLogging`. A clean stop is the three flushes followed by
`Restart(0, FALSE)`. `Processed` is `processWorkSummaryBatch`: in PPLNS mode a
batch counts for its user, in PPS mode for the meta user while the user gets
pending money. `ppsPayout` writes `pps.payouts` first and the state afterwards;
`RestartInPpsPayout` is a crash between the two.

Abstractions: what a batch is worth (prices, fees, `PPSHistoryDb`, the interval
of a PPS pay-out) is left out: money is the batch it was paid for. Of the statistics only the message ids are kept; with
`StatsExpire`, `diskStats` may fall back, because the file with the highest id
can be removed when it is too old (`rebuildDatFile`). Names of log files are
sorted when the directory is read (`Ascending`). A file is rotated at any size above zero. Rotation to a file name that
exists is left out by a guard. A torn record has a complete header. A failing
`open` and a clean-up that stops half way are left out. A batch with an invalid
time interval is dropped by the code without any change. `RecentStats`, from
which one batch may deliberately count for several rounds (PPLNS window), is
not part of `CountedOnce`.

`WorkAccount` knows four things about a batch: counted, settled in a round,
durable, lost. `WorkLog` refines it with `counted` read off the scores and
rounds in memory, so the ids, files, buffers and timers are invisible.

### BlockReward and Rounds

`StartCheck` collects the open rounds and asks the node; `ProcessRound` is the
body of the loop for one round with the verdict for it; `FinishCheck` is the
write at the end. `RoundsDb_` and the history are written inside the loop, so a
crash may fall between them and the state. `RestartInOnBlockFound` is a crash
between the two writes of `onBlockFound`.

The loop reads `confirmationsQuery[i]` for every round, also for one that was
appended while the node was asked. That read is undefined, so it is modelled as
any verdict with any reward. Within the answers, a Bitcoin node may say "not in
my best chain" about a block that is still pending; the Ethereum client does
not, because it waits for `orphanAgeLimit` blocks, but takes an uncle for an
orphan if one request of its uncle search fails. `mature` means that every node
the client may ask sees the block deep enough.

Abstractions: the work of a round (`RecentStats` merged with the current scores)
is an input. Of the PPS numbers only `PPSState.Balance` is kept. Fixed-point
multiplication is integer division rounding down. A block without any coins or
with at least as many units as there is work (`RoundAssumptions`): a coin has
2^256 units in the code (`poolcommon/utils.h`, line 28). The distance of an uncle to the block
that includes it is not kept. A block is reported once, by the node that accepts
it first.

### StratumWorkStorage and Stratum

Worker threads share nothing but the task queues of the backends: each has its
own works, connections and accumulators, and the extra nonces of two threads
differ. `Stratum` is parameterised by the set of threads; TLC runs one, and the
properties that relate a block to shares are about the thread that found it. An
action is a whole handler: `AcceptWork` (the task of a new template, up to the
jobs sent to the miners), `Submit`, `RttTimer` (`sharePendingCheck`, which sends a
pending share to the nodes once the target has risen to it), `FlushWork`, `NodeAccepts` and
`NodeFails` (the answer of one node to a submitted block), `Stop`, and on the
side of a backend `OnUserWorkSummary`, `OnBlockFound`,
`OnMergedBlockNotification`.

`workById` is `find`-like here, but the code's `operator[]` inserts a null entry
for every unknown id; these entries are read like missing ones and never freed,
and are left out. Whether a share is good, and for which coins it is a block, is
an input: the proof of work is not modelled, the decisions that follow are.

*What a share is.* The code knows a share by the hash of the header it completes
(`shareHash`), and nothing in coinbase or header is random: two works that are
built from equal templates give equal headers. The hash of a share is therefore
its thread (extra nonce), the block each coin of the work builds on, and two
inputs: `version`, the rest of a merge-mined coin's template, and `nonce`, all
else. The id of the work is no part of it. So one header can come on several
works, also on a new work for an old block; the number `at` of a share is only
there for the properties. A block has the hash of its share, except that a
merge-mined coin has a header of its own, which the share does not change
(`BlockHash`): several shares can be the same block of DOGE. `Submit` takes any
id the thread still knows, as `shareCheck` does, also of a work that no miner has
been sent; `sent` remembers which it was. `turn` counts, for the properties, how
often the block of a coin changed under a thread.

`AcceptWork` has the outcomes of the handler: the template is dropped because the
mining address is not valid, it cannot be made a work (then the rest of the
handler runs with the works there are), or it is loaded. The
tree of a merged work keeps the low bits of the 32-bit generator, which is all
that `% size` sees. `WorksetSizeLimit` is 2 (3 in the code), so that eviction
happens with fewer templates. Only DOGE's instance merges and only BTC's has
real time targeting, as the instances of the front end are built. Connections,
subscription, difficulty control and the statistics per algorithm
(`AlgoMetaAccumulator`) are left out, and so is the clean-up of merged
notifications older than 30 minutes.

### Users

The manager runs on one thread. Handlers that send mail yield in `sendMail`, the
others run to their end; an action is the code between two such points. What
`sendMail` continues with is `Confirm`, the mails that are under way are `mails`.
`UsersCache_` has a lock per entry, and `changePasswordInitiateImpl` holds its
read lock across `sendMail`; a handler of the same thread that wants to write the
entry then never returns (`thread = "stuck"`, action `Blocks`). Restarts come
between two handlers, or between two rows of a handler that writes several
(`RestartIn...`).

With a mail server some promises do not hold (section "Known deviations"), which
is why `EmailsMatch`, `SavedIsCurrent` and `PlansInSync` begin with `~smtp`: they
state what the handlers guarantee when nothing comes between their checks and
their writes, for the half of the instances without a mail server. `TypeOK` and
`OneSession` hold for both. `UserAction` with a new password may find it of a
wrong length; the action is used up then, and nothing is saved. Left out:
`updateSettingsImpl` (only fields nobody decides by), the built-in logins,
passwords and the one-time codes (an input).

### Stats

`FlushSeries` is the whole flush of one series: spread the interval over the
cells, merge it into the history, add it to the recent cells, rewrite the cache
files of the changed cells. `CrashInFlush(s, k, left)` is a crash after the merge
and `k` of the files, in the write of the next one: that file is as before, or has
a wrong size and is removed by `load`, or, because `rebuildDatFile` does not
truncate it and writes header and records one after the other, has the new id
over its old records. `Start` is the constructor, which flushes the series one
after the other, so that a crash can fall between them. `AddBatches` adds a batch,
or all that replay takes: `Rising` picks the records with an id above all ids in
front of them, which are the ones that `addBatch`, called for one record after
the other, does not skip. All entries of a series
(users or workers) have the same cells and are flushed in one go, so a series has
one entry. `Units` is divisible by every length of an interval, so that spreading
is exact; `KeepTime` and the grids are small numbers of the clock's resolution.
`PointsOnGrid` says whether a batch can have all its shares at one moment that is
the boundary of two cells.

### BackendStop

One thread walks through `StopSequence`, which is the stop functions written one
after the other, while the backend's thread goes on. A task handler and a timer
are coroutines: `RunTask`, `MeetNull`, `Drained` are the loop of the first,
`WakeUp` and `CallbackReturns` the loop of the second. Tasks and callbacks that
ask the node yield in the middle ("busy"). The three timers that flush series
are started, stopped and waited for side by side and are one here ("series"), as
are the checks of the rounds and of the balance ("checks"). `unsaved` is what a
timer with `lastCallOnStop` still has to write.

External: `asyncio`'s user event keeps an activation nobody waits for. The flags
`ShutdownRequested_` and `CoroutineFinished_` are plain `bool`s written by one
thread and read by another; every read comes after a call the compiler cannot
see into (a sleep or a yield), so each build reads them again, and the model
reads them at each step.

## 3. Runs

| Run | Instance | Shows |
|---|---|---|
| `payouts_crash` | 1 user, 2 transactions, rounds of 2 and 3, totals up to 1 below the payout, payouts on/off, address valid/invalid, 2 restarts | `TypeOK`, `BroadcastIsDurable`, `TxOwnedOnce`, `TxMatchesPayout` |
| `payouts_money` | 2 users, 2 transactions, a round and a PPS pay-out, minimum rising from 1 to 3, fee 1, no restart | `RequestedMatchesQueue`, `NeverOverpaid` |
| `payouts_live` | 1 user, 3 transactions, `FairSpec` | `QueueDrains` |
| `payouts_overpaid` | violated, one restart | `NeverOverpaid` |
| `worklog` | 3 batches, 2 crashes, 1 change between PPLNS and PPS; no torn records, statistics do not expire | `TypeOK`, `CountedOnce`, `WrittenIsCounted`, `PaidOneWay`, `PaymentsAreListed`, `NewWorkIsCounted`, `ImplementsAccount` |
| `rounds` | 2 blocks, 2 users, rewards 7 and 12, three kinds of work, two fee plans, both kinds of coin, 1 crash | `TypeOK`, `CoinsConserved`, `RewardIsSplitExactly`, `SettledByChain` |
| `rounds_live` | 2 blocks, `FairSpec`, 1 crash | `RoundsSettle` |
| `rounds_unasked` | violated | `PaidOnlyMature` |
| `stratum` | 2 coins: one alone on 2 nodes, a primary and a merge-mined one on 1 node, or two primary ones with real time targets on 1 node; 2 blocks to build on, 3 templates, 4 templates and blocks sent in all, 2 shares | `NoDanglingWork`, `NewestIsWhole`, `CreditedForItsBlock`, `SharesCountOnce`, `RoundHasItsWork`, `OneRoundPerBlock`, `MergedBlocksLinked` |
| `users` | 2 logins, 1 address, with and without mail, 2 ids of actions, 2 of sessions, 3 in all (2 with mail), 1 waiting mail, 1 extra fee plan, 1 restart | `TypeOK`, `OneSession`, `EmailsMatch`, `SavedIsCurrent`, `PlansInSync` |
| `stats` | 2 series with grids 2 and 3, clock up to 4, 2 batches, 2 crashes | `LoggedIsCounted`, `CountedOnceOrDoubled`, `CacheIsRecent`, `CacheInHistory` |
| `backend_stop` | 3 task handlers, 12 timers as 9, 2 tasks, `FairSpec` | `TypeOK`, `NothingCutShort`, `HandedOverIsRun`, `CleanStopSaves`, `StopCompletes` |

Why the bounds are enough:

* Payouts: two rewards put a new record behind the one `makePayout` works on;
  two transactions are enough for a duplicate id and for a rejected transaction
  followed by another; two restarts let a crash fall into the recovery from a
  crash. The rising minimum makes the merge of small payouts happen, the fee
  makes balances negative. `payouts_live` needs a third transaction so that two
  payouts can each be settled after one rejection.
* Work log: three batches give a file behind the current one that can be deleted
  and one that cannot, and batches of both modes; two crashes let one restart
  begin from what another left.
* Rounds: two blocks are enough for a round that appears during the query, for
  one that is erased in front of another, and for the wrong one to get an
  answer. The three kinds of work give an odd remainder with PPS work, no PPS
  work, and a round without any PPLNS work; the second fee plan has a rounded
  fee and fees above 100%.
* Stratum: three templates are enough for a sequence that is full (two), a new
  block of either coin, and a coin that goes back to an earlier block; the fourth
  event is a block sent to the nodes, and there is a second one when there are
  fewer templates. Two shares are enough for a duplicate, also behind a new block
  of one of the coins of its work or on another work. Two nodes matter where a
  submission gets two answers, in the plain instance; what two nodes do to
  several submissions of one block is under "Known deviations".
* Users: one address for two logins makes every clash of addresses happen; two
  actions give an activation and a second one, or one per login; two sessions make
  a second login meet the session of the first, or of the other user. Three ids
  in all (`MaxIds`) let the other kind take part; with mail, where a user can also
  be created without an action (`UserCreateForce`), it is any two.
* Statistics: with grids 2 and 3 the cells of the two series end at different
  times, and a batch can cover several cells of both; the second crash falls into
  the constructor's flushes or into the flush after a restart.
* Stop: two tasks are enough for one in front of the null task and one behind it,
  or one that yields and one that waits.

The money properties of `Payouts` are checked without restarts, because with
one they do not hold: `payouts_overpaid` shows how.

### Deadlock and fairness

Deadlock is checked in the runs of `Payouts`, `WorkLog`, `Rounds` and
`BackendStop`. It is not in `users`, `stratum` and `stats`: a user manager may
stop (by `exit` or by its own lock), a stratum instance is stopped and its
backends run empty, and the clock of `Stats` has an end.

In `FairSpec` of `Payouts`, weak fairness of
`MakePayoutStep` says that the timer fires and that each `io*` call returns: the
clients give every request a timeout. Strong fairness of `BuildCreated`,
`SendOk`, `CheckConfirmed` and `NodeMines` says that the node is not out of
order, out of funds or evicting for ever; strong fairness of `CheckUnknown` for a
transaction that is not on the network says that the node does not report a
dropped transaction as pending for ever. The fairness of `BuildCreated` also says
that the node does not build an id that is already known for ever:
`BuildDuplicate` leaves the loop, and all payouts wait behind that one. These are assumptions on the node; the
rest is the code's own doing. `QueueDrains` is excused when every transaction id
of the instance has been used, which is the bound showing.

In `FairSpec` of `Rounds`, weak fairness of `CheckStep` is the timer and the
timeouts again, strong fairness of `ProcessRound` says that the node answers
again and again, and weak fairness of `ChainDecides` that no block stays
undecided.

In `FairSpec` of `BackendStop`, weak fairness of `StopStep` says that the
stopping thread, which polls every millisecond, goes on when it can, and weak
fairness of the running handler that a coroutine runs on to its next yield.
Strong fairness of `AwaitedStep` says that the event loop does not pass over the
coroutine the stopping thread waits for, however busy the others are: it serves
ready operations in order, and a call to a node ends with a timeout. Nothing
is assumed about callers that push tasks.

### What the violated runs say about the code

1. `payouts_overpaid`: the balance row serialised when a payout was confirmed
   (`accountingPayouts.cpp`, line 189) is written after further `io*` calls and
   overwrites a newer one saved by a manual payout meanwhile; after a restart the
   amount on its way is forgotten and can be requested again.
2. `rounds_unasked`: a round opened during the query is judged by what lies
   behind the end of the answers.

### Known deviations

Further properties one would expect of the code and that do not hold. Their
definitions are in the modules, or follow from a constant; each line says how to
change a configuration so that TLC shows the behaviour.

| Property | Change | What happens |
|---|---|---|
| `RestartRebuilds` | `Payouts_overpaid.cfg` with `PROPERTY RestartRebuilds` | `makePayout` recommends to "restart pool for rebuild" when its control sum is wrong; loading rebuilds nothing, and a crash during a pass can itself make queue and balances disagree |
| `WrittenIsCounted` | `WorkLog.cfg` with `TornWrites = TRUE` | after a torn record logging goes on behind it in the same file, and the next replay stops in front of it |
| `WrittenIsCounted` | `WorkLog.cfg` with `StatsExpire = TRUE`, `MaxMessages = 5`, `MaxCrashes = 3` | two batches reach the statistics but not the log and a crash falls; the pool is idle until the files of the statistics expire, the log rotates to a file named after the next id, and a second crash makes ids fall back below that name. The file opened after the next rotation then sorts in front of the older one, replay reads it first and skips the older record |
| `OrphanIsFinal` | `Rounds_unasked.cfg` with `INVARIANT OrphanIsFinal` | one answer of a node that lags behind closes a Bitcoin round for good |
| `OneRoundPerFoundBlock` | `Rounds_live.cfg` with `INVARIANT OneRoundPerFoundBlock` | a crash inside `onBlockFound` leaves a found block without a round |
| `OneRoundPerBlock` | `Stratum.cfg` with `Instances <- RttOnTwoNodes` | a pending share that has become a block is sent to the nodes again and again; when another node is the first to accept it the second time, the block is reported twice |
| `OneRowPerBlock` | `Stratum.cfg` with `Instances <- MergedOnTwoNodes`, `INVARIANT OneRowPerBlock` | two shares are the same block of the merge-mined coin; each of two nodes accepts it with another one first, and both are reported: the second report overwrites the row of the first, with its links, and opens a second round |
| `HeadersCountOnce` | `Stratum.cfg` with `INVARIANT HeadersCountOnce` | a node that lags makes a coin go from block A to B and back to A with the template it had; `eraseAll` has cleared `AcceptedShares_` (`stratumWorkStorage.h`, line 323), the new work has the header of the old one, and a share that was counted before counts again. `SharesCountOnce` promises it only between two changes of the block |
| `AllCreditedForTheirBlock` | `Stratum.cfg` with `INVARIANT AllCreditedForTheirBlock` | `shareCheck` takes the id of any work it knows (`stratum.h`, 738-747); with a share on a work that was built but not sent, the accumulator still has the reward and difficulty of the block before it. Miners do not know such ids, which is what `CreditedForItsBlock` assumes (`sent`) |
| `LoggedIsCounted` | `Stats.cfg` with `PointsOnGrid = TRUE` | a batch with all its shares at one moment on the boundary of two cells is added to no cell |
| `LoggedIsCounted` | `Stats.cfg` with `GridInterval <- OneGrid`, `KeepTime = 0`, `Units = 6`, `MaxTime = 3`, `MaxMessages = 5`, `MaxCrashes = 3`, `ACTION_CONSTRAINT PlainSteps` | the same in the log of the statistics: two batches reach the statistics but not the log and a crash falls, the log rotates to a file named after the next id, the cell files expire and a second crash makes ids fall back. The file opened after the next rotation sorts in front, replay reads it first and skips the older record |
| `RecentShowsHistory` | `Stats.cfg` with `INVARIANT RecentShowsHistory` | a crash between the files of a flush, or between header and records of one, leaves the new id over cells without its work: replay skips it, and the recent cells lack it for good. The history, written first, has it |
| `ActiveUserStays` | `Users.cfg` with `PROPERTY ActiveUserStays`, `MaxRestarts = 0`, `MaxActions = 3` | an activation that was superseded expires, and clean-up deletes the user although another activation has been confirmed |
| `ActionsExpire` | `Users.cfg` with `SPECIFICATION FairSpec`, `PROPERTY ActionsExpire`, without `SYMMETRY`, `Logins = {"alice"}`, `Receivers = {}`, `MaxRestarts = 0` | the thread waits for a lock that a coroutine of its own holds during a mail |

With a mail server, `EmailsMatch`, `SavedIsCurrent` and `PlansInSync` fail without
their `~smtp`: two registrations with one address pass the check while the first
waits in `sendMail` (with `MaxMails = 2`; the next start then refuses the database); the record saved
after the mail is the one prepared before it, so an activation, a change of the
fee plan or a deletion in between is undone on disk; after a failed mail the
login stays in the cache and cannot be registered again until a restart.

Other observations, met while modelling and not stated as properties:

* A fee plan that names a deleted user is skipped when plans are loaded.
* An RPC answer with an error and a null result counts as an accepted block
  (`bitcoinRpcClient.cpp`, line 386), and a lost answer as a refused one; nothing
  looks for such blocks later.
* A clean stop loses what is in the accumulators of the worker threads
  (`stopWork` is empty), and a merged notification to a backend that has stopped.
* When the chain ids of the secondary coins have no collision-free map, no merged
  work is built and miners keep the last one.
* Replay of more than `MaxBatchTimeInterval` of work is dropped from the
  statistics. A pool that was idle for longer than `KeepTime` loses the last
  saved id with its cache files, and a restart then doubles the history of what
  is still in the log (`CountedOnceOrDoubled` allows for it).
* A worker without a name has the key of its user's own series.
* A change of the mode between a crash and the replay leaves work in
  `RecentStats` under the other name.
* `StatisticServer::stop` (`statistics.cpp`, 429-435) stops its database before
  its task handler, unlike `PoolBackend`; `UserManager::stop` (`usermgr.cpp`, 309)
  tests its counter of coroutines while tasks may still be queued;
  `reportNewWork` tests the fee timer on another thread than the one that
  destroys it (`poolCore.cpp`, 185). None of the three is part of `BackendStop`.

## 4. Proofs

TLC checks small instances; the theorems hold for all values of the constants,
from the named assumptions of the modules alone. Each rests on an inductive
invariant, named here; the proofs of these are complete and use nothing from TLC.

| Module | Theorems | Inductive invariant |
|---|---|---|
| `PayoutsProofs` | `TypeCorrect`, `TxOwnedOnceHolds`, `TxMatchesPayoutHolds`, `BroadcastIsDurableHolds`; and until a restart: `RequestedMatchesQueueHolds`, `NeverOverpaidHolds` | `OwnershipInv`, `DurabilityInv`, `MoneyInv` |
| `WorkLogProofs` | `TypeCorrect`, `CountedOnceHolds`, `PaidOneWayHolds`, `PaymentsAreListedHolds`, `NewWorkIsCountedHolds`; and under `Undamaged`: `WrittenIsCountedHolds`, `ImplementsAccountHolds` | `AccountInv`, `LogInv` |
| `RoundsProofs` | `TypeCorrect`, `CoinsConservedHolds`, `RewardIsSplitExactlyHolds`, `SettledByChainHolds` | `RoundsInv` |
| `StratumProofs` | `TypesHold`, `NoDanglingWorkHolds`, `SharesCountOnceHolds`, `RoundHasItsWorkHolds`, `MergedBlocksLinkedHolds`; under `EveryTreeFits`: `NewestIsWholeHolds`, `CreditedForItsBlockHolds`; under `OneAnswer`: `OneRoundPerBlockHolds` | `Sound`, `Whole`, `Credits`, `SharesSeen`, `RoundsOK`, `SentOnce`, `LinkedOK`, `AllTold`, see below |
| `UsersProofs` | `TypeCorrect`, `OneSessionHolds`, `EmailsMatchHolds`, `SavedIsCurrentHolds`, `PlansInSyncHolds` | `UsersInv` |
| `StatsProofs` | `CacheIsRecentHolds`, `CacheInHistoryHolds`, `CountedOnceOrDoubledHolds`; off the grid's boundaries and under `Recoverable`: `LoggedIsCountedHolds` | `StatsInv`, `LogInv` |
| `BackendStopProofs` | `TypeCorrect`, `NothingCutShortHolds`, `HandedOverIsRunHolds`, `CleanStopSavesHolds` | `StopInv` |

### Payouts

For every set of users, transactions, rewards, settings, corrections and fees,
and any number of restarts, from `PayoutAssumptions` (logins are a finite set of
numbers, amounts are natural numbers, `NoTx` is not an id, and there are finitely
many ids, since an id is a hash of fixed length):

* `TypeCorrect` - `TypeOK`, which includes `CursorOK`: the record that
  `makePayout` holds across an `io*` call is still in the list, in the status
  that led to the call.
* `TxOwnedOnceHolds`, `TxMatchesPayoutHolds`, `BroadcastIsDurableHolds`.
* `RequestedMatchesQueueHolds`, `NeverOverpaidHolds`, as long as `restarts = 0`: with
  a restart neither holds (`payouts_overpaid`; `RestartRebuilds` under "Known
  deviations").

**The argument.** `NextTypeOK` has one step per action and rests on lemmas about
the list: `MaxExists` and `EndOfList` (a new record is behind all others),
`PushBackKeeps`, `EraseKeeps`, `UpdateKeeps`, `AdvanceStops`.

Many actions treat the queue alike, so `StepKinds` sorts every step, once, into
six kinds: `Quiet` (payouts that have a transaction stay as they are; the queue
may be saved), `Creates(t)`, `Marks(s)`, `Rejects`, `FinishPayout` and `Restart`.
It also shows `NodeStep`: the node keeps what it built, and only the transaction
that is being sent can newly reach the network. The two remaining inductions are
over these kinds instead of over the actions.

*Ownership* (`OwnershipInv`). `TxOwnedOnce` is not inductive: that a newly built
transaction is not in the queue follows from `t \notin known`, so the invariant
adds that `known` contains every transaction of the queue. `TxMatchesPayout`
needs that a transaction in a queue was built, since only then its content
cannot be replaced by a later build. Both are needed of the saved queue as well,
because a restart makes it the queue.

*Durability* (`DurabilityInv`). `BroadcastIsDurable` is not inductive either. A
send step puts on the network what the record in memory says; the saved queue
has it only because `makePayout` saved it before and nobody has taken it away
since. The invariant therefore says that (1) every transaction of the queue is
in the saved queue, except the one between `BuildCreated` and `PersistTx`, which
is not on the network; (2) a transaction on the network is in the queue or
recorded as confirmed, and a payout marked confirmed is recorded so; (3) what
the saved queue calls confirmed is still in the queue as confirmed, so that a
restart does not bring back a status that the memory has left.

*Money* (`MoneyInv`: the two invariants above and, until a restart, `LedgerInv` and
`SettledInv`). The sums of the model run over sets of positions that shrink and
grow, so the proof uses one that does not: `Due(q, u)` is what each record asks
for user `u`, and 0 if it is somebody else's or confirmed, and `Owed(q, u)` its
total. `OwedPush`, `OwedErase` and `OwedUpdate` say what a change of the list does
to it; the merge of small payouts (`OwedStart`) and the clean-up (`OwedFinish`)
leave it as it is. `LedgerInv` says that `requested` is `Owed`, and that neither
the balance nor `requested`, with what is `paid`, exceeds what was credited; both
bounds are needed, since a fee is taken from the balance only and queueing sets
`requested` to the balance. `NeverOverpaid` speaks of the network and the ledger
does not, so `SettledInv` adds that `paid` covers the transactions recorded as
confirmed. `BooksBoundNetwork` then splits what is on the network: a confirmed
transaction is covered by `paid`, any other one is in the queue (`DurabilityInv`),
in one record only and with its value (`OwnershipInv`), so it is covered by
`requested`.

### WorkLog

For any number of batches, crashes and changes of the mode, from
`WorkLogAssumptions`. Two invariants, because they need different things of the
world.

*No batch counts twice* (`AccountInv`). `CountedOnce` is not inductive: a replay
applies the records of the log whose id is above the last id of the state, so one
has to know that a batch has at most one record, in the log or in the buffer
(`OneRecord`), and that the record of a batch that a state has counted has an id
that this state has passed (`Sound`). A new batch gets an id above all that the
state and the statistics know, which is `NewWorkIsCounted`, an action property.
All of this survives torn records and expired statistics, so these theorems have
no hypothesis: whatever the crash leaves, nothing is counted or paid twice.

*No durable batch is forgotten* (`LogInv`). `WrittenIsCounted` needs that ids rise
along the log and files do not fall (`Ordered`), that the current file has the
largest name and every other file ends with the id it claims (`FilesHold`), that
a state has every record up to its last id (`Applied`), and that the next restart
finds the last id that was given out (`IdsFound`): in the saved state, in the
statistics or in the log. The last part is where the attempt to prove this
without a hypothesis failed, and led to the behaviour listed under `StatsExpire`
in "Known deviations"; torn records break `Ordered`. `WrittenIsCountedHolds` and
`ImplementsAccountHolds` therefore assume `Undamaged` (neither of the two).
`ImplementsAccountHolds` maps every action to one of `WorkAccount` or to a
stutter (`ReceiveStep`, `PersistStep`, `BlockFoundStep`, `CrashStep`).

### Rounds

For all users, blocks, rewards, work and fee plans, both kinds of coin and any
number of crashes, from `RoundAssumptions`.

*One block is split exactly.* The prover has no induction over data, but it can
be had for finite sets once the set of good subsets is given as a set
(`SubsetInduction`, `AddingInduction` in `FiniteSetLemmas`); with it `Total` gets
its laws: `SumAdd`, `SumUnion`, `SumSwap` (rows or columns first), `SumRename`.
`NetSum`: what the fee plans take from some users they give to others, so net
values add up to the values (`SumSwap` over payers and receivers). `FeesFit`:
nobody's net value is negative, because fees above a user's value are not
applied. `CorrectionSum`: the left-over units, in equal parts and one more for
the first of them, add up to what was left; the first `r` are counted by their
rank (`FirstOnesSum`). `DistributeSplits` puts these together. It needs that
somebody is paid, which is where `RoundAssumptions` says that a block has enough
units: with more work than units every value would be rounded to zero.

*The invariant* (`RoundsInv`) has three parts. `Aligned`: the answer with the
index `j` belongs to the round that the loop reaches with it, and rounds behind
the last answer are not among those asked about; `SettledByChain` follows from it.
`Recorded`: the saved rows under the rows of the batch are the open rounds, a
block that is new to the pool has no row, and every saved row is a round that can
still be settled. `Balanced`: the money twice over, once for the memory (paid
blocks and open rounds) and once for what a crash at this moment would leave: the
paid blocks without a row (`Kept`), and the saved rows as open rounds.
`CoinsConserved` alone is not inductive, because a restart takes its numbers from
the disk in the middle of a check whose rounds are already in `RoundsDb_`.

### Stratum

For all coins, instances, threads and blocks and all bounds, from
`StorageAssumptions` and `StratumAssumptions`.

*One storage* (`Sound`, part of `TypeOK`). A storage is a value that each template
turns into another one by up to four pushes and as many deletions per coin, so
the first half of the module is about operators and not about steps. `StorageOK`
is the real content of `NoDanglingWork`: ids are those of the allocated works,
every work is in one place of one sequence, a link leads to a single work of its
coin for the same block, and to an older work. `Push`, `Erase`, `NewBlock`,
`PushSingleWork`, `PushMergedWork`, `UpdateMerged` and `CreateWork` each have a
lemma that says what they keep and what they change (`Pushed`, `Erased`, `Created`);
later proofs use these and never the definitions. The loop of `UpdateMerged` is a
recursive function; that it exists and what it computes follows from the least
coin for which it would not. `OneBlock` adds that all works of a coin are for one block.

*The newest merged work* (`Whole`). It has a link to the newest single work of
its primary coin and of every secondary coin that has one, after every template.
This needs `EveryTreeFits`: any secondary coins of an instance fit in one tree.
The code justifies it for the coins it has: DOGE is the only one with a chain id,
and one coin always fits (`OneCoinFits`). Without it no merged work would be built
and the newest one would lose its links ("Known deviations", other observations).

*Credits*. `CreditedForItsBlock` is not inductive: a share is added with the block of
the work it was sent for, so one has to know that this is the block of the
accumulator. `KnownIsInfo` says so of every coin that is known (`known`), of all works of
that coin; `JobsKnown` says that a work the thread has sent is for coins that are
known as long as its link is there. A new block makes its coin unknown, and that
is the coin whose accumulator the next work flushes. A work that was not sent has
no such guarantee, which is why the property asks for `sent`.

*Shares.* `SharesSeen`: a share that was counted for a coin is in the coin's accepted
shares as long as the thread has not changed the block of that coin (`Remembered`),
whichever work it came on. A share that passes `isDuplicate` is thus new to the
accumulators and batches of this turn, for every coin that its work has a link to.
When a new block clears the accepted shares of its coin, the same call deletes the
coin's works and cuts the links to them (`Unlink`), which is what saves merged
works that outlive the block. `TurnsRight` says that the works of a coin are for
the block of the current turn, so that a cleared set and a new turn always go
together; `Distinct` that a hash and a turn name one share. Nothing is assumed
about which works or headers come back.

*Rounds.* `RoundsOK` says of the log and the accumulators what `RoundHasItsWork` says, and that an
accumulator has only shares of its thread; `OpsPromised` and `PendingPromised` say that a
block that waits for the nodes, or a pending share that may become one, is in the
log or still in the accumulator of its thread. Pending shares survive the flush of
their accumulator, so the second half of that alternative is needed. `Stop`
empties accumulators and submissions together.

*One round.* Two reports are the same when they are of one share (`at`, which
numbers the submissions, `AllNumbered`) or, where there is one node, of one block.
Without real time targeting a share is sent once and found by the first answer
(`SentOnce`). A block can be sent by several shares: with one header that counts
again in another turn, or with one block of a merge-mined coin. A node that has the
block refuses it (`NodesKnow`), but another node need not, hence `OneNode`. With
real time targeting the pending share itself is sent again and again; `OneAnswer`
therefore asks for one node in such instances, where the block of a share is its
hash (`OwnBlocks`). Neither condition can be dropped: see `OneRoundPerBlock` and
`OneRowPerBlock` under "Known deviations".

*Merged blocks.* With real time targeting no share is a block of two coins (`OneCoin`;
such instances have no merged works, `NoneMerging`). Otherwise the blocks that a share is know of
each other (`OthersKnown`), wherever they are. `AllTold`: once the accounting of a
coin has a block, the coins it counts for have been told, or the notification is in
their queue (`Told`). Notifications are filed under the hash of the share and links under
the block, and a second report of either writes the row anew; then the links of
the first are gone (`Rewritten`), which `OnlyReport` leaves out of the property.
`LinkedOK`: a note that has its block has nothing waiting, and the block was
reported. With both queues empty, told means linked.

### Users

For all logins, addresses and fee plans, with and without mail, any number of
restarts, from `UsersAssumptions` and `NoRecordAssumption` (the value that stands for "no record to save" is not
a record). `UsersInv` has four parts. The id of a mail that is on its way is that
of no action and of no other mail (`MailsOK`), or a confirmation would overwrite
somebody else's action; nothing is on its way without a mail server
(`RequestsOK`), which is what makes a handler atomic and the three conditional
properties inductive. A plan in memory is in the database (`RowsOK`), or a restart
would lose a plan that users are on. Each handler has a lemma that it keeps
`UsersInv`; a crash between two rows of a handler is the handler with the reload
of the rows written so far.

### Stats

For all grids, intervals, batches and crashes, from `StatsAssumptions`. The first
three theorems rest on `StatsInv`, which has five parts; the last one adds `LogInv`.

*The cache.* `CacheInv` says that the files are the recent cells as long as the
process runs, from the load on and not only once it is up, and that the history
has what they show. A flush adds the same contribution to both, and the history
is first: `RewrittenInHistory` holds for any number of files written,
`RewrittenIsRecent` for all of them. `Typed` carries what the sums need: finitely
many cells, and an interval that is not empty when there is work.

*How often a batch counts.* `CountedOnceOrDoubled` is not inductive. `Counted` adds,
for `d` crashes that lost an id: a batch that waits in a series has been counted
at most `d` times, and a record of the log whose batch has been counted once more
has an id that the series has saved, or will find in its files (`SavedId`), so that
replay skips it. For this a batch needs one record (`OneRecord`), and a new batch
has to be counted nowhere (`FromMessages`). `FlushCounted`, `CrashCounted`,
`LostCounted`, `ReplayCounted` and `BatchCounted` say what each action does to one
series.

*One flush counts a batch at most once* (`ContributionSum`). The shares are rounded
down, so it is enough that the parts of an interval in different cells are not
longer than the interval (`LengthSum`): every moment lies in one cell of the grid
(`CellsApart`), and moments are counted by cell or by moment (`SumSwap`). It holds
without the assumption that `Units` can be divided, which only `LoggedIsCounted`
needs.

*Nothing that was written is lost.* `LoggedIsCounted` speaks of a running process;
what has to survive a crash is `Replayed`: a batch of the log is in the history of
a series, or its id is behind what the series will load from its files, so that
replay finds it, and until the crash it waits in the series. `LogInOrder` and
`Closed` make replay read every such record (files and records in the order of
their ids, no closed file ends before a record it holds), `IdsInv` makes
`addBatch` take it, and a new batch gets an id nobody has seen. A log file may be
deleted only when every record in it is in the history (`cleanupOldFiles`). The
flush itself is `ContributionWhole`: an interval that has a length is covered by
the cells it touches without a gap (`Covered`, `MomentLooked`), so their parts
add up to the whole.

The theorem has three hypotheses, and without any one of them the property
fails. `~PointsOnGrid`: a batch at one moment on a boundary is added to no cell.
The two parts of `Recoverable`: an interval longer than `MaxBatchTimeInterval` is
dropped by the flush, which the clock of an instance excludes and the code does
not (replay joins all batches it reads into one interval); and the next id is not
behind the name of a log file. The second is true until two crashes with expired
cell files in between; the attempt to prove the theorem without it led to the
behaviour listed in "Known deviations". TLC finds states of `Stats.cfg` in which
ids have fallen back, so on that instance the run shows more than the theorem
says; `LogInv` was checked on it as long as they have not.

### BackendStop

For every number of tasks and both settings of the instant pay-outs. All of
`StopInv` is about the order of `StopSequence`: a handler is asked to end, and a
timer to stop, only by the stopping thread (`OnlyWhenTold`), so what has ended has
been told to; whoever hands over tasks is halted in front of the first null task
(`PushersAreHalted`), so nothing comes behind it except from timers; the handler
that leaves work to a timer is finished before that timer is stopped
(`WorkIsOver`), so the last call of the timer is the last that has something to
save (`LastCallSaves`).

### Only model-checked

Liveness (`QueueDrains`, `RoundsSettle`, `StopCompletes`) is out of the prover's
reach. Every invariant and every action property that a passing run checks is
stated by a theorem; those that hold only under a hypothesis name it, and the
sections above say why it is there.

## 5. Not modelled, and the plan

Left out for good: proof of work, block makers and the coin library (pure
functions on bytes, most of them third-party hash functions), prices and fee
estimates (a value that is fetched), JSON and HTTP layers, the logger, the IDL
tool, its generated code and its tests, and the migration tools, which run once
and offline. Together they are most of the lines of the repository, so a map of
the stateful code covers a small share of all lines. Of RocksDB only the
atomicity of a batch is used. The ZMQ instance is an older protocol for one coin
that makes the same calls as stratum.

Of modelled parts, still missing: the client that asks several nodes in turn
(`roundRobin`), the value of PPS work, `updateSettingsImpl`, connections and
difficulty control of stratum, the stop of `UserManager` and `StatisticServer`, a
composition of `Rounds` with `Payouts` so that one crash hits both.

## 6. Running

    tlc -workers 2 -config Payouts_crash.cfg MCPayouts
    tlapm PayoutsProofs.tla        (also FiniteSetLemmas, WorkLogProofs, RoundsProofs, StratumProofs,
                                    UsersProofs, StatsProofs, BackendStopProofs)

`StratumProofs` takes about a quarter of an hour, the others a few minutes.

`PROJECT.json` lists every run with its module, configuration, properties and
expected result, the mutants, the map from definitions to source lines, the
hazards with the properties that cover them, the findings and the theorems.
