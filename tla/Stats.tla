-------------------------------- MODULE Stats --------------------------------
(***************************************************************************)
(* StatisticDb: the work of the miners over time.  A batch of work goes to *)
(* the share log and to every series (pool, users, workers).  A flush of a *)
(* series spreads what came since the last one over the cells of its grid, *)
(* merges it into the history (the rocksdb "statistic"), adds it to the    *)
(* recent cells in memory, and rewrites the cache file of every cell it    *)
(* changed, one after the other, each with the id of the last batch.  A    *)
(* restart loads the cache files and replays the log.                      *)
(*                                                                         *)
(* The handlers run on one thread and do not yield: only a crash can come  *)
(* between the writes of a flush.  The entries of a series (its users and  *)
(* workers) are flushed together and have the same cells; they are one     *)
(* here.  The time is that of the batches: 1 is the resolution of a        *)
(* Timestamp.                                                              *)
(***************************************************************************)
EXTENDS Aggregates, SequencesExt

CONSTANTS
    GridInterval,  \* of each series, in the order in which they are flushed at start
    KeepTime,      \* StatisticKeepTime
    MaxBatchTimeInterval,
    PointsOnGrid,  \* whether all shares of a batch can come at the boundary of two cells
    Units,         \* the work of a batch: divisible by every length of an interval
    MaxTime,       \* bound: the clock
    MaxMessages,   \* bound: batches of work
    MaxCrashes     \* bound: restarts

ASSUME StatsAssumptions ==
    /\ GridInterval \in Seq(Nat \ {0}) /\ GridInterval # <<>>
    /\ {KeepTime, MaxBatchTimeInterval, Units, MaxTime, MaxMessages, MaxCrashes} \subseteq Nat
    /\ PointsOnGrid \in BOOLEAN
    /\ \A d \in 1 .. MaxTime : Units % d = 0

VARIABLES
    now,
    up,        \* 0: not running; k: the constructor flushes series k; Up: started
    series,    \* CStatsSeriesSingle or CStatsSeriesMap
    cache,     \* the .dat files of each series: cell -> file
    history,   \* StatsDb_, by series and cell
    logs,      \* ShareLog_: the log files
    buffer,    \* ShareLogInMemory_
    nextId,    \* CurrentMessageId_
    received,  \* history variable: batches so far; batch m is the m-th
    logged,    \* history variable: batches that were written to the log
    doubling,  \* history variable: crashes that lost the id of the last flush
    crashes    \* restarts so far

vars == <<now, up, series, cache, history, logs, buffer, nextId, received, logged, doubling, crashes>>

Series   == DOMAIN GridInterval
Up       == Len(GridInterval) + 1
Messages == 1 .. MaxMessages
Nothing  == [m \in Messages |-> 0]
NoCells  == [c \in {} |-> Nothing]
Plus(v, w) == [m \in Messages |-> v[m] + w[m]]

\* cells |-> work, where both may lack a cell
AddCells(f, g) ==
    [c \in DOMAIN f \cup DOMAIN g |->
        Plus(IF c \in DOMAIN f THEN f[c] ELSE Nothing, IF c \in DOMAIN g THEN g[c] ELSE Nothing)]

EmptySeries ==
    [current |-> {}, begin |-> MaxTime, end |-> 0,  \* Current and AccumulationInterval_
     accepted |-> 0, saved |-> 0,                   \* LastAcceptedMsgId_, LastSavedMsgId_
     recent |-> NoCells]                            \* Recent, a cell is known by its end

Init ==
    /\ now = 0 /\ up = Up
    /\ series = [s \in Series |-> EmptySeries]
    /\ cache = [s \in Series |-> [c \in {} |-> 0]]
    /\ history = [s \in Series |-> NoCells]
    /\ logs = <<[name |-> 1, last |-> 0, records |-> <<>>]>>
    /\ buffer = <<>> /\ nextId = 1
    /\ received = 0 /\ logged = {} /\ doubling = 0 /\ crashes = 0

----------------------------------------------------------------------------
(* Batches and the log.                                                    *)

\* The series x with the batches `new'.
WithBatches(x, new) ==
    [x EXCEPT !.accepted = Max({@} \cup {r.id : r \in new}),
              !.current = @ \cup {r.msg : r \in new},
              !.begin = Min({@} \cup {r.begin : r \in new}),
              !.end = Max({@} \cup {r.end : r \in new})]

\* Mutant of AddBatches: what the cache holds is added again.
AddBatchesAgain(x, rs) == WithBatches(x, rs)

\* addBatch for one batch after the other, with rising ids; those that the series
\* has seen are skipped.
AddBatches(x, rs) == WithBatches(x, {r \in rs : r.id > x.accepted})

\* onWorkSummary for a batch with shares from `begin' to now.
OnWorkSummary(begin) ==
    LET r == [id |-> nextId, msg |-> received + 1, begin |-> begin, end |-> now]
    IN  /\ up = Up /\ r.msg \in Messages
        /\ begin <= now /\ now - begin <= MaxBatchTimeInterval
        /\ PointsOnGrid \/ begin # now \/ \A s \in Series : now % GridInterval[s] # 0
        /\ received' = r.msg /\ nextId' = nextId + 1
        /\ buffer' = Append(buffer, r)
        /\ series' = [s \in Series |-> AddBatches(series[s], {r})]
        /\ UNCHANGED <<now, up, cache, history, logs, logged, doubling, crashes>>

\* Mutant of lastAggregatedShareId: one series has saved it.
lastAggregatedShareIdOfAny == Max({series[s].saved : s \in Series})

lastAggregatedShareId == Min({series[s].saved : s \in Series})

lastKnownShareId(x) == Max({x[s].accepted : s \in Series})

\* cleanupOldFiles: the number of log files to remove.
Old(fs) == Max({k \in 0 .. Len(fs) - 1 : \A i \in 1 .. k : fs[i].last < lastAggregatedShareId})

\* ShareLogFlushTimer_: flush, begin a new file when this one is large, clean up.
FlushShareLog ==
    LET end == Len(logs)
        written == [logs EXCEPT ![end].records = @ \o buffer]
        rotated == Append([written EXCEPT ![end].last = nextId - 1],
                          [name |-> nextId, last |-> 0, records |-> <<>>])
    IN  /\ up = Up
        /\ \E fs \in {written} \cup {f \in {rotated} : written[end].records # <<>>
                                                  /\ \A i \in DOMAIN logs : logs[i].name # nextId} :
              logs' = SubSeq(fs, Old(fs) + 1, Len(fs))
        /\ buffer' = <<>>
        /\ logged' = logged \cup {buffer[k].msg : k \in DOMAIN buffer}
        /\ UNCHANGED <<now, up, series, cache, history, nextId, received, doubling, crashes>>

----------------------------------------------------------------------------
(* Flush of a series.                                                      *)

AlignUp(t, grid) == ((t + grid - 1) \div grid) * grid

\* overlapFraction, of Units.
Overlap(begin, end, cellBegin, cellEnd) ==
    IF begin = end
    THEN IF begin >= cellBegin /\ begin < cellEnd THEN Units ELSE 0
    ELSE (Max({0, Min({end, cellEnd}) - Max({begin, cellBegin})}) * Units) \div (end - begin)

\* What CStatsSeries::flush adds to each cell.
Contribution(x, grid) ==
    LET part(c) == Overlap(x.begin, x.end, c - grid, c)
        grids == {c \in AlignUp(x.begin + 1, grid) .. AlignUp(x.end, grid) : c % grid = 0 /\ part(c) > 0}
    IN  [c \in IF x.current = {} \/ x.end - x.begin > MaxBatchTimeInterval THEN {} ELSE grids |->
            [m \in Messages |-> IF m \in x.current THEN part(c) ELSE 0]]

TooOld(c) == c < now - KeepTime

\* The series after a flush.
Flushed(x, grid) ==
    LET cells == AddCells(x.recent, Contribution(x, grid))
    IN  [EmptySeries EXCEPT !.accepted = x.accepted, !.saved = x.accepted,
                            !.recent = [c \in {c \in DOMAIN cells : ~TooOld(c)} |-> cells[c]]]

\* Mutant of Written: the file of the newest cell only.
WrittenNewest(x, grid) ==
    LET changed == {c \in DOMAIN Contribution(x, grid) : ~TooOld(c)}
    IN  IF changed = {} THEN <<>> ELSE <<Max(changed)>>

\* The cells whose files are rewritten, in the order of the writes.
Written(x, grid) == Ascending({c \in DOMAIN Contribution(x, grid) : ~TooOld(c)})

\* The files f after the first k writes; behind them the old files are removed.
Rewritten(f, x, grid, k) ==
    LET done == Range(SubSeq(Written(x, grid), 1, k))
        y == Flushed(x, grid)
        all == [c \in DOMAIN f \cup done |->
                  IF c \in done THEN [last |-> y.saved, work |-> y.recent[c]] ELSE f[c]]
        old == IF k < Len(Written(x, grid)) THEN {} ELSE {c \in DOMAIN x.recent : TooOld(c)}
    IN  [c \in DOMAIN all \ old |-> all[c]]

\* writeBatch: the history h with the contributions merged in.
Merged(h, x, grid) == AddCells(h, Contribution(x, grid))

\* flushPool, flushUsers, flushWorkers: from a timer, or the next one of the
\* constructor.
FlushSeries(s) ==
    LET x == series[s]
        grid == GridInterval[s]
    IN  /\ up \in {s, Up} /\ up' = IF up = s THEN s + 1 ELSE Up
        /\ series' = [series EXCEPT ![s] = Flushed(x, grid)]
        /\ history' = [history EXCEPT ![s] = Merged(@, x, grid)]
        /\ cache' = [cache EXCEPT ![s] = Rewritten(@, x, grid, Len(Written(x, grid)))]
        /\ nextId' = IF up # Up /\ up' = Up THEN lastKnownShareId(series') + 1 ELSE nextId
        /\ UNCHANGED <<now, logs, buffer, received, logged, doubling, crashes>>

----------------------------------------------------------------------------
(* Crash and restart.                                                      *)

\* load
Load(f) ==
    LET last == Max({f[c].last : c \in DOMAIN f} \cup {0})
    IN  [EmptySeries EXCEPT !.accepted = last, !.saved = last,
                            !.recent = [c \in DOMAIN f |-> f[c].work]]

Crash(lost) ==
    /\ crashes < MaxCrashes /\ crashes' = crashes + 1
    /\ doubling' = doubling + (IF lost THEN 1 ELSE 0)
    /\ up # 0 /\ up' = 0
    /\ buffer' = <<>> /\ series' = [s \in Series |-> EmptySeries]
    /\ UNCHANGED <<now, logs, nextId, received, logged>>

\* The process dies between two handlers, or in a flush before its first write.
\* The id of the last flush is gone when all cells that had it were too old.
CrashBetween ==
    /\ Crash(\E s \in Series : Load(cache[s]).saved < series[s].saved)
    /\ UNCHANGED <<cache, history>>

\* Mutant of CrashInFlush: the files are written before the history.
CrashInFlushFilesFirst(s, k, left) ==
    /\ up \in {s, Up} /\ k < Len(Written(series[s], GridInterval[s]))
    /\ Crash(TRUE)
    /\ cache' = [cache EXCEPT ![s] = Rewritten(@, series[s], GridInterval[s], k)]
    /\ UNCHANGED history

\* What the cut off write of f[c] leaves: the old file, one of a wrong size,
\* which load removes, or the header with the new id over the old records (the
\* file is not truncated, and header and records are two writes).
CutOff(f, c, left, id) ==
    [d \in DOMAIN f \ {d \in {c} : left = "none"} |->
        IF d = c /\ left = "stale" THEN [f[d] EXCEPT !.last = id] ELSE f[d]]

\* It dies in a flush of series s, behind the merge into the history and the
\* first k files, in the write of the next one.
CrashInFlush(s, k, left) ==
    LET x == series[s]
        grid == GridInterval[s]
        files == Rewritten(cache[s], x, grid, k)
    IN  /\ up \in {s, Up} /\ k < Len(Written(x, grid))
        /\ Crash(TRUE)
        /\ history' = [history EXCEPT ![s] = Merged(@, x, grid)]
        /\ cache' = [cache EXCEPT ![s] = CutOff(files, Written(x, grid)[k + 1], left, x.accepted)]

\* The records that replay reads with an id above all ids before them; addBatch
\* skips the others.  The files are read in the order of their names.
Rising(fs) ==
    LET at == UNION {{i} \X DOMAIN fs[i].records : i \in DOMAIN fs}
        record(p) == fs[p[1]].records[p[2]]
        before(o, p) == \/ fs[o[1]].name < fs[p[1]].name
                        \/ o[1] = p[1] /\ o[2] < p[2]
    IN  {record(p) : p \in {p \in at : \A o \in at : before(o, p) => record(o).id < record(p).id}}

\* replayShares leaves the last id it has read in LastShareId.
ReadFile(f) == [f EXCEPT !.last = IF f.records = <<>> THEN 0 ELSE Last(f.records).id]

\* The constructor up to the flushes: enumerateDatFiles, load and replay.
Start ==
    LET names == Ascending({logs[i].name : i \in DOMAIN logs})
    IN  /\ up = 0 /\ up' = 1
        /\ series' = [s \in Series |-> AddBatches(Load(cache[s]), Rising(logs))]
        /\ logs' = [k \in DOMAIN names |->
                       ReadFile(CHOOSE f \in Range(logs) : f.name = names[k])]
        /\ UNCHANGED <<now, cache, history, buffer, nextId, received, logged, doubling, crashes>>

Tick ==
    /\ now < MaxTime /\ now' = now + 1
    /\ UNCHANGED <<up, series, cache, history, logs, buffer, nextId, received, logged, doubling, crashes>>

Next ==
    \/ Tick
    \/ \E begin \in 0 .. now : OnWorkSummary(begin)
    \/ FlushShareLog
    \/ \E s \in Series : FlushSeries(s)
    \/ CrashBetween
    \/ \E s \in Series, k \in 0 .. MaxTime, left \in {"old", "none", "stale"} : CrashInFlush(s, k, left)
    \/ Start

Spec == Init /\ [][Next]_vars

----------------------------------------------------------------------------
(* Properties.                                                             *)

InHistory(s, m) == Total([c \in DOMAIN history[s] |-> history[s][c][m]], DOMAIN history[s])

\* "Persistent message log for statistics replay on restart": all work that was
\* written to the log is in the history of every series, or waits for the next
\* flush, whichever files the crash left.
LoggedIsCounted ==
    up = Up => \A s \in Series, m \in logged :
        m \in series[s].current \/ InHistory(s, m) >= Units

\* Work is in the history once.  Only a crash that loses the id of the last
\* flush, in the middle of a flush or when all cells with it had become too old,
\* makes replay count work again, once.
CountedOnceOrDoubled ==
    \A s \in Series, m \in Messages : InHistory(s, m) <= Units * (1 + doubling)

\* The cache files are the recent cells whenever no flush is under way, also when
\* they were loaded after a crash in one: another restart shows the same power.
CacheIsRecent ==
    up = Up => \A s \in Series :
        series[s].recent = [c \in DOMAIN cache[s] |-> cache[s][c].work]

\* The cache never shows work that the history does not have.
CacheInHistory ==
    \A s \in Series : \A c \in DOMAIN cache[s] :
        c \in DOMAIN history[s] /\ \A m \in Messages : cache[s][c].work[m] <= history[s][c][m]
=============================================================================
