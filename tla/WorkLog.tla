------------------------------ MODULE WorkLog ------------------------------
(***************************************************************************)
(* How one coin's accounting backend counts accepted work exactly once     *)
(* across crashes.  A batch of work (a message) gets an id, goes into the  *)
(* in-memory part of the share log and is applied to CAccountingState and  *)
(* to the user statistics (UserStatsAcc_).  Three timers write the log,    *)
(* the state and the statistics at their own pace; a restart loads the     *)
(* state and the statistics and replays the log over them.                 *)
(*                                                                         *)
(* A batch holds the work of one user.  In PPLNS mode it counts for the    *)
(* user; in PPS mode it counts for the pool's meta user and the user gets  *)
(* money for it, pending until ppsPayout adds it to the balance.           *)
(*                                                                         *)
(* The handlers run on the backend's one thread and do not yield.  A write *)
(* batch of accounting.state is atomic; an append to a log file is not.    *)
(* Of the statistics only the message ids are kept here: they decide what  *)
(* is replayed and which log files are deleted.                            *)
(***************************************************************************)
EXTENDS Aggregates, Sequences, SequencesExt

CONSTANTS
    MaxMessages,   \* bound: batches of work received
    MaxCrashes,    \* bound on restarts
    MaxSwitches,   \* bound: changes of the user's mode
    TornWrites,    \* whether a crash can leave part of a record in the log
    StatsExpire    \* whether the pool can be idle until the statistics' files are too old

ASSUME WorkLogAssumptions ==
    /\ {MaxMessages, MaxCrashes, MaxSwitches} \subseteq Nat
    /\ TornWrites \in BOOLEAN /\ StatsExpire \in BOOLEAN

VARIABLES
    log,           \* the records in the log files: position -> LogRecord
    files,         \* ShareLog_: the deque of log files
    buffer,        \* ShareLogInMemory_
    nextId,        \* CurrentMessageId_
    pps,           \* the user's mode in UserSettings_ is PPS (owned by UserManager)
    state,         \* State_: CurrentScores, rounds, PPS money and LastAcceptedMsgId_
    savedId,       \* State_.SavedShareId
    diskState,     \* accounting.state
    statsAccepted, \* UserStatsAcc_.LastAcceptedMsgId_
    statsSaved,    \* UserStatsAcc_.LastSavedMsgId_
    diskStats,     \* the highest LastShareId in the accounting.userstats files
    payoutsDb,     \* PPSPayoutsDb: the batches its rows are payments for
    received,      \* history: batches received so far; batch m is the m-th
    written,       \* history: batches that are or were in the log or the state
    crashes,       \* bound: restarts so far
    switches       \* bound: changes of the mode so far

logVars   == <<log, files, buffer, nextId>>
stateVars == <<state, savedId, diskState>>
statsVars == <<statsAccepted, statsSaved, diskStats>>
ppsVars   == <<pps, payoutsDb, switches>>
vars == <<logVars, stateVars, statsVars, ppsVars, received, written, crashes>>

Messages == 1 .. MaxMessages
LogRecord == [id : Nat \ {0}, msg : Messages, file : Nat \ {0}, whole : BOOLEAN]
CDatFile == [FileId : Nat \ {0}, LastShareId : Nat]

\* scores: how often a batch is in CurrentScores; rounds: how often it is in
\* the rounds taken from them; meta: the batches that count for the meta user;
\* pending: how often a batch is in PPSPendingBalance; paid: how often it is in
\* the user's balance; last: the id of the last batch applied.
AccountingState ==
    [scores : [Messages -> Nat], rounds : [Messages -> Nat], meta : SUBSET Messages,
     pending : [Messages -> Nat], paid : [Messages -> Nat], last : Nat]

NoWork == [m \in Messages |-> 0]

\* The first start: an empty database, and a log file for message 1.
Init ==
    /\ log = [p \in {} |-> 0] /\ buffer = <<>> /\ nextId = 1
    /\ files = <<[FileId |-> 1, LastShareId |-> 0]>>
    /\ state = [scores |-> NoWork, rounds |-> NoWork, meta |-> {},
                pending |-> NoWork, paid |-> NoWork, last |-> 0]
    /\ pps \in BOOLEAN /\ payoutsDb = {} /\ switches = 0
    /\ diskState = state /\ savedId = 0
    /\ statsAccepted = 0 /\ statsSaved = 0 /\ diskStats = 0
    /\ received = 0 /\ written = {} /\ crashes = 0

----------------------------------------------------------------------------
(* Receiving work.                                                         *)

\* The state s with the work of some batches, each of them times[m] times, as
\* processWorkSummaryBatch classifies it by the mode the user has now.
Processed(s, times) ==
    LET plus(f) == [m \in Messages |-> f[m] + times[m]]
    IN  [s EXCEPT !.scores = plus(@),
                  !.pending = IF pps THEN plus(@) ELSE @,
                  !.meta = IF pps THEN @ \cup {m \in Messages : times[m] > 0} ELSE @]

\* CAccountingState::applyBatch drops a batch it has already seen.
ApplyBatch(s, m, id) ==
    IF id <= s.last THEN s
    ELSE [Processed(s, [NoWork EXCEPT ![m] = 1]) EXCEPT !.last = id]

\* onUserWorkSummary, for a batch whose time interval is valid.
OnUserWorkSummary ==
    LET m == received + 1
    IN  /\ m \in Messages
        /\ received' = m
        /\ buffer' = Append(buffer, [id |-> nextId, msg |-> m])
        /\ nextId' = nextId + 1
        /\ state' = ApplyBatch(state, m, nextId)
        /\ statsAccepted' = Max({statsAccepted, nextId})
        /\ UNCHANGED <<log, files, savedId, diskState, statsSaved, diskStats, ppsVars, written, crashes>>

----------------------------------------------------------------------------
(* The share log.                                                          *)

Back == Last(files).FileId
End(q) == Max(DOMAIN q \cup {0}) + 1

\* The log after the first n records of the buffer were appended to the last
\* file, with a part of the next one behind them if `torn'.
Appended(n, torn) ==
    LET end == n + (IF torn THEN 1 ELSE 0)
    IN  [p \in DOMAIN log \cup End(log) .. End(log) + end - 1 |->
            IF p \in DOMAIN log THEN log[p]
            ELSE LET i == p - End(log) + 1
                 IN  [id |-> buffer[i].id, msg |-> buffer[i].msg, file |-> Back, whole |-> i <= n]]

\* startNewShareLogFile
Rotated == Append([files EXCEPT ![Len(files)].LastShareId = nextId - 1],
                  [FileId |-> nextId, LastShareId |-> 0])

\* Mutant of lastAggregatedShareId: what the state has accepted, saved or not.
lastAcceptedShareId == Min({state.last, statsSaved})

lastAggregatedShareId == Min({savedId, statsSaved})

\* Mutant of Old: the file that is being written can go too.
OldOrCurrent(fs) == Max({k \in 0 .. Len(fs) : \A i \in 1 .. k : fs[i].LastShareId < lastAggregatedShareId})

\* cleanupOldFiles: how many files at the front of fs can go.
Old(fs) == Max({k \in 0 .. Len(fs) - 1 : \A i \in 1 .. k : fs[i].LastShareId < lastAggregatedShareId})

\* ShareLogFlushTimer_: flush, start a new file when the last one has reached
\* its size limit (some size a file with records can have), clean up.
FlushShareLog ==
    LET appended == Appended(Len(buffer), FALSE)
    IN  \E fs \in {files, Rotated} :
          /\ fs # files => /\ \E p \in DOMAIN appended : appended[p].file = Back
                           /\ \A i \in DOMAIN files : files[i].FileId # nextId
          /\ files' = SubSeq(fs, Old(fs) + 1, Len(fs))
          /\ LET kept == {files'[i].FileId : i \in DOMAIN files'}
             IN  log' = [p \in {p \in DOMAIN appended : appended[p].file \in kept} |-> appended[p]]
          /\ buffer' = <<>>
          /\ written' = written \cup {buffer[i].msg : i \in DOMAIN buffer}
          /\ UNCHANGED <<nextId, stateVars, statsVars, ppsVars, received, crashes>>

----------------------------------------------------------------------------
(* The state and the statistics.                                           *)

Counted(s) == {m \in Messages : s.scores[m] + s.rounds[m] > 0}

\* addMutableState and flushState of s.
SaveState(s) ==
    /\ state' = s /\ diskState' = s /\ savedId' = s.last
    /\ written' = written \cup Counted(s)

\* StateFlushTimer_; ppsPayout and the confirmation of rounds save it as well.
FlushState ==
    /\ SaveState(state)
    /\ UNCHANGED <<logVars, statsVars, ppsVars, received, crashes>>

\* onBlockFound: the current scores become the shares of a new round.
OnBlockFound ==
    /\ SaveState([state EXCEPT !.rounds = [m \in Messages |-> @[m] + state.scores[m]],
                               !.scores = NoWork])
    /\ UNCHANGED <<logVars, statsVars, ppsVars, received, crashes>>

\* The batches in PPSPendingBalance.
Pending == {m \in Messages : state.pending[m] > 0}

\* State s after its pending PPS money has been added to the balance.
Rewarded(s) == [s EXCEPT !.paid = [m \in Messages |-> @[m] + s.pending[m]], !.pending = NoWork]

\* Mutant of PpsPayout: the balances are written without the mutable state.
PpsPayoutBalancesOnly ==
    /\ Pending # {}
    /\ payoutsDb' = payoutsDb \cup Pending
    /\ state' = Rewarded(state)
    /\ diskState' = [diskState EXCEPT !.paid = Rewarded(state).paid]
    /\ UNCHANGED <<logVars, savedId, statsVars, pps, switches, received, written, crashes>>

\* PPSPayoutTimer_: ppsPayout writes its rows to PPSPayoutsDb, then the state.
PpsPayout ==
    /\ Pending # {}
    /\ payoutsDb' = payoutsDb \cup Pending
    /\ SaveState(Rewarded(state))
    /\ UNCHANGED <<logVars, statsVars, pps, switches, received, crashes>>

\* onUserSettingsUpdate, or PPSConfig.Enabled in the backend settings; both are
\* durable before the accounting learns of them.
OnUserSettingsUpdate ==
    /\ switches < MaxSwitches /\ switches' = switches + 1
    /\ pps' = ~pps
    /\ UNCHANGED <<logVars, stateVars, statsVars, payoutsDb, received, written, crashes>>

\* What a flush of the statistics leaves on disk: its id in the file of every
\* grid cell it changed, or, when it only removed files that are too old, the
\* highest id in the others.
StatsOnDisk(id) == {id} \cup (IF StatsExpire THEN 0 .. diskStats ELSE {})

\* UserStatsFlushTimer_
FlushUserStats ==
    /\ statsSaved' = statsAccepted
    /\ diskStats' \in StatsOnDisk(statsAccepted)
    /\ UNCHANGED <<logVars, stateVars, statsAccepted, ppsVars, received, written, crashes>>

----------------------------------------------------------------------------
(* Restart: the constructor of AccountingDb.                               *)

\* Replay of a file stops at the first record that is not whole.
Reached(l, p) == \A q \in DOMAIN l : q < p /\ l[q].file = l[p].file => l[q].whole
Readable(l) == {p \in DOMAIN l : l[p].whole /\ Reached(l, p)}

\* Files are replayed in the order of their names.
Before(l, q, p) == l[q].file < l[p].file \/ (l[q].file = l[p].file /\ q < p)

\* Mutant of Replayed: applyBatch takes what replayFrom lets through.
ReplayedAgain(l, replayFrom, last) ==
    {p \in Readable(l) : /\ l[p].id > replayFrom
                         /\ \A q \in Readable(l) : Before(l, q, p) => l[q].id < l[p].id}

\* The records that get past `messageId <= replayFrom' and past applyBatch.
Replayed(l, replayFrom, last) ==
    {p \in Readable(l) : /\ l[p].id > replayFrom /\ l[p].id > last
                         /\ \A q \in Readable(l) : Before(l, q, p) => l[q].id < l[p].id}

Ids(l, at) == {l[p].id : p \in at}

\* Mutant of ReplayFrom: the statistics alone decide where replay begins.
ReplayFromStats == diskStats

ReplayFrom == Min({diskState.last, diskStats})

\* replayShares leaves the last id it has read in LastShareId.
LastRead(l, f) ==
    LET at == {p \in DOMAIN l : l[p].file = f /\ Reached(l, p)}
    IN  IF at = {} THEN 0 ELSE l[Max(at)].id

\* Mutant of StartLogging: ids go on behind those of the state only.
StartLoggingAtState == nextId' = state'.last + 1

\* startLogging(lastKnownShareId() + 1)
StartLogging == nextId' = Max({state'.last, statsAccepted'}) + 1

\* The process dies with n records of the buffer written, and starts again;
\* enumerateDatFiles finds the files in the order of their names.
Reload(n, torn) ==
    LET l    == Appended(n, torn)
        at   == Replayed(l, ReplayFrom, diskState.last)
        names == Ascending({files[i].FileId : i \in DOMAIN files})
    IN  /\ crashes < MaxCrashes /\ crashes' = crashes + 1
        /\ log' = l /\ buffer' = <<>>
        /\ written' = written \cup {buffer[i].msg : i \in 1 .. n}
        /\ state' = [Processed(diskState, [m \in Messages |-> Cardinality({p \in at : l[p].msg = m})])
                        EXCEPT !.last = Max(Ids(l, at) \cup {@})]
        /\ savedId' = diskState.last
        /\ statsAccepted' = Max({diskStats} \cup {i \in Ids(l, Readable(l)) : i > ReplayFrom})
        /\ statsSaved' = statsAccepted'
        /\ diskStats' \in StatsOnDisk(statsAccepted')
        /\ files' = [i \in DOMAIN names |->
                        [FileId |-> names[i], LastShareId |-> LastRead(l, names[i])]]
        /\ StartLogging
        /\ UNCHANGED <<pps, switches, received>>

\* A crash, in the middle of a flush of the log perhaps.
Restart(n, torn) == Reload(n, torn) /\ UNCHANGED <<diskState, payoutsDb>>

\* Mutant of RestartInPpsPayout: the state is written before the rows.
RestartInPpsPayoutStateFirst ==
    /\ Pending # {}
    /\ Reload(0, FALSE)
    /\ diskState' = Rewarded(state)
    /\ UNCHANGED payoutsDb

\* A crash in ppsPayout, between its two writes.
RestartInPpsPayout ==
    /\ Pending # {}
    /\ Reload(0, FALSE)
    /\ payoutsDb' = payoutsDb \cup Pending
    /\ UNCHANGED diskState

----------------------------------------------------------------------------

Next ==
    \/ OnUserWorkSummary
    \/ FlushShareLog \/ FlushState \/ FlushUserStats
    \/ OnBlockFound \/ PpsPayout \/ OnUserSettingsUpdate
    \/ RestartInPpsPayout
    \/ \E n \in 0 .. Len(buffer), torn \in {FALSE, TornWrites} :
          (torn => n < Len(buffer)) /\ Restart(n, torn)

Spec == Init /\ [][Next]_vars

----------------------------------------------------------------------------
(* Properties.                                                             *)

\* Type invariant: the log, the three sets of ids and the accounting state.
TypeOK ==
    /\ IsFiniteSet(DOMAIN log) /\ DOMAIN log \subseteq Nat \ {0}
    /\ log \in [DOMAIN log -> LogRecord]
    /\ files \in Seq(CDatFile) /\ files # <<>>
    /\ buffer \in Seq([id : Nat \ {0}, msg : Messages])
    /\ nextId \in Nat \ {0}
    /\ state \in AccountingState /\ diskState \in AccountingState /\ savedId \in Nat
    /\ statsAccepted \in Nat /\ statsSaved \in Nat /\ diskStats \in Nat
    /\ pps \in BOOLEAN /\ payoutsDb \subseteq Messages
    /\ received \in 0 .. MaxMessages /\ written \subseteq Messages
    /\ crashes \in 0 .. MaxCrashes /\ switches \in 0 .. MaxSwitches

\* No batch is paid for twice: it is in the current scores or in one round, at
\* most once, in memory and in accounting.state, however often the log is
\* replayed over a state that already holds it.
CountedOnce ==
    \A m \in Messages : /\ state.scores[m] + state.rounds[m] <= 1
                        /\ diskState.scores[m] + diskState.rounds[m] <= 1

\* Work is paid for in one way: a batch that counts for the meta user, whose
\* share of a block the pool keeps, has brought its user PPS money exactly once,
\* pending or in the balance; a batch that counts for the user has brought none.
\* This holds when the mode changes between a crash and the replay, too.
PaidOneWay ==
    \A s \in {state, diskState}, m \in Messages :
        /\ s.pending[m] + s.paid[m] = IF m \in s.meta THEN 1 ELSE 0
        /\ m \in s.meta => m \in Counted(s)

\* No PPS money is in a balance without a row in the history of PPS payouts
\* (ppsPayout, and a crash between its writes).
PaymentsAreListed == \A m \in Messages : state.paid[m] + diskState.paid[m] > 0 => m \in payoutsDb

\* "Persistent message log for accounting replay on restart": a batch that has
\* been written to the log or to accounting.state is counted ever after; old
\* log files are deleted only when nothing in them is needed any more.
WrittenIsCounted == written \subseteq Counted(state)

\* A batch that arrives is counted by the accounting and by the statistics:
\* neither takes its id for one it has already seen.
NewWorkIsCounted ==
    [][received' # received =>
          received' \in Counted(state') /\ statsAccepted' = nextId /\ statsAccepted' > statsAccepted]_vars

----------------------------------------------------------------------------
(* What the backend promises, with the ids, files and timers left out.     *)

Account == INSTANCE WorkAccount WITH
    counted <- Counted(state),
    settled <- {m \in Messages : state.rounds[m] > 0},
    stable  <- written,
    lost    <- (1 .. received) \ Counted(state)

\* The log, the saved state and replay implement WorkAccount: every step counts
\* a new batch, makes counted work durable, closes a round, or is a crash after
\* which exactly the durable work is counted.
ImplementsAccount == Account!Spec
=============================================================================
