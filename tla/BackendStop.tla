----------------------------- MODULE BackendStop -----------------------------
(***************************************************************************)
(* How the process stops one backend: a thread walks through the stop      *)
(* functions while the backend's thread goes on, coroutine by coroutine.   *)
(* A task handler is a coroutine that empties a queue and ends behind a    *)
(* null task; a periodic timer is one that sleeps and calls back.  Both    *)
(* yield only while they wait for their event, for the interval, or for    *)
(* the node in the middle of a task or a callback.  An event that nobody   *)
(* waits for is kept, as all users of newUserEvent rely on.                *)
(*                                                                         *)
(* The timers that flush the pool's, the users' and the workers' series of *)
(* StatisticDb are started, stopped and waited for side by side: they are  *)
(* the one timer "series" here; so are the two of PoolBackend, which check *)
(* the rounds and the balance: "checks".                                   *)
(***************************************************************************)
EXTENDS Integers, Sequences, FiniteSets

CONSTANTS
    InstantPayoutsEnabled,  \* the setting at the start
    MaxTasks                \* bound: tasks pushed

ASSUME StopAssumptions == InstantPayoutsEnabled \in BOOLEAN /\ MaxTasks \in Nat

VARIABLES
    main,      \* position of the stopping thread in StopSequence, 0 before SIGINT
    running,   \* the coroutine the backend's thread is in, between two of its tasks
    queue,     \* TaskQueue_ of each task handler
    handler,   \* "waiting", "busy" (its task waits for the node), "finished"
    asked,     \* handlers that have met their null task (shutdownRequested)
    timer,     \* "waiting", "busy" (its callback waits for the node), "finished"
    stopping,  \* timers with ShutdownRequested_
    events,    \* coroutines whose event is active
    paused,    \* Paused_ of InstantPayoutTimer_
    unsaved,   \* timers that have something new to save
    pushed     \* tasks pushed so far

handlers == <<queue, handler, asked>>
timers   == <<timer, stopping, paused, unsaved>>
vars     == <<main, running, handlers, timers, events, pushed>>

Handlers == {"backend", "accounting", "statistics"}

\* The callbacks that write what is in memory, and do so once more at the end
\* (lastCallOnStop): of AccountingDb and of StatisticDb.
AccountingSaves == {"shareLog", "state", "userStats"}
StatisticsSaves == {"series", "statsLog"}
LastCallOnStop  == AccountingSaves \cup StatisticsSaves

\* The callbacks that wait for the node: checkBlockConfirmations or
\* checkBlockExtraInfo, checkBalance, makePayout, updateFeeEstimation.
Yields == {"checks", "instantPayout", "fee"}
Timers == LastCallOnStop \cup Yields \cup {"ppsPayout"}

Idle == "idle"
Null == "null"

\* Who pushes what: HTTP threads (of the queries the one that waits for the node
\* and one that does not, and the two ways updateBackendSettings ends), worker
\* threads, and later than these other backends and the user manager (merged
\* blocks, settings, fee plans).
AccountingTasks == {"foundBlocks", "pause", "resume"}
StatisticsTasks == {"query"}
WorkerTasks == {"userWork", "work", "block"}
OtherTasks  == {"update"}

----------------------------------------------------------------------------
(* What the stopping thread does, in order.  "halt": post the quit         *)
(* operation and join the threads; "push": the null task; "stop": set      *)
(* ShutdownRequested_ and activate; "wait": sleep until the flag is set    *)
(* that says the coroutine has finished.                                   *)

\* AccountingDb::stop
AccountingStop == <<
    <<"push", "accounting">>, <<"wait", "accounting">>,
    <<"stop", "shareLog">>, <<"stop", "state">>, <<"stop", "userStats">>,
    <<"stop", "ppsPayout">>, <<"stop", "instantPayout">>,
    <<"wait", "shareLog">>, <<"wait", "state">>, <<"wait", "userStats">>,
    <<"wait", "ppsPayout">>, <<"wait", "instantPayout">> >>

\* StatisticDb::stop
StatisticsStop == <<
    <<"push", "statistics">>, <<"wait", "statistics">>,
    <<"stop", "series">>, <<"stop", "statsLog">>,
    <<"wait", "series">>, <<"wait", "statsLog">> >>

\* CNetworkClient::stop
NetworkClientStop == << <<"stop", "fee">>, <<"wait", "fee">> >>

\* PoolBackend::stop
BackendStopping ==
    << <<"stop", "checks">>, <<"push", "backend">>, <<"wait", "backend">> >>
        \o AccountingStop \o StatisticsStop \o NetworkClientStop
        \o << <<"wait", "checks">>, <<"halt", "backend">> >>

\* The thread of main that sees the signal.
StopSequence == << <<"halt", "http">>, <<"halt", "workers">> >> \o BackendStopping

Steps == DOMAIN StopSequence

\* The stopping thread has got past a step.
Past(step) == \E i \in 1 .. main - 1 : StopSequence[i] = step

\* The backend's thread has left its loop (the fee timer is on another one).
Down == Past(<<"halt", "backend">>)

Init ==
    /\ main = 0 /\ running = Idle
    /\ queue = [h \in Handlers |-> <<>>] /\ handler = [h \in Handlers |-> "waiting"]
    /\ asked = {}
    /\ timer = [t \in Timers |-> IF t = "checks" THEN "busy" ELSE "waiting"]
    /\ stopping = {} /\ unsaved = {}
    /\ paused = ~InstantPayoutsEnabled /\ events = (IF paused THEN {"instantPayout"} ELSE {})
    /\ pushed = 0

\* SIGINT, seen within a second.
Interrupt ==
    /\ main = 0 /\ main' = 1
    /\ UNCHANGED <<running, handlers, timers, events, pushed>>

At(op, x) == main \in Steps /\ StopSequence[main] = <<op, x>> /\ main' = main + 1

Halt(x) == At("halt", x) /\ UNCHANGED <<running, handlers, timers, events, pushed>>

\* Mutant of PushNull: the event is not activated.
PushNullQuietly(h) ==
    /\ At("push", h)
    /\ queue' = [queue EXCEPT ![h] = Append(@, Null)]
    /\ UNCHANGED <<running, handler, asked, timers, events, pushed>>

\* TaskHandlerCoroutine::stop, first half.
PushNull(h) ==
    /\ At("push", h)
    /\ queue' = [queue EXCEPT ![h] = Append(@, Null)]
    /\ events' = events \cup {h}
    /\ UNCHANGED <<running, handler, asked, timers, pushed>>

\* CPeriodicTimer::stop
StopTimer(t) ==
    /\ At("stop", t)
    /\ stopping' = stopping \cup {t}
    /\ events' = events \cup {t}
    /\ UNCHANGED <<running, handlers, timer, paused, unsaved, pushed>>

\* Mutant of Wait: a timer that has been stopped is not waited for.
WaitHandlers(x) ==
    /\ At("wait", x)
    /\ x \in Handlers => handler[x] = "finished"
    /\ UNCHANGED <<running, handlers, timers, events, pushed>>

\* TaskHandlerCoroutine::stop, second half, and CPeriodicTimer::wait.
Wait(x) ==
    /\ At("wait", x)
    /\ IF x \in Handlers THEN handler[x] = "finished" ELSE timer[x] = "finished"
    /\ UNCHANGED <<running, handlers, timers, events, pushed>>

StopStep ==
    \/ \E x \in {"http", "workers", "backend"} : Halt(x)
    \/ \E h \in Handlers : PushNull(h)
    \/ \E t \in Timers : StopTimer(t)
    \/ \E x \in Handlers \cup Timers : Wait(x)

----------------------------------------------------------------------------
(* Task handlers.                                                          *)

\* push
Push(h, task) ==
    /\ pushed < MaxTasks /\ pushed' = pushed + 1
    /\ queue' = [queue EXCEPT ![h] = Append(@, task)]
    /\ events' = events \cup {h}
    /\ UNCHANGED <<main, running, handler, asked, timers>>

PushStep ==
    \/ /\ ~Past(<<"halt", "http">>)
       /\ \/ \E task \in AccountingTasks : Push("accounting", task)
          \/ \E task \in StatisticsTasks : Push("statistics", task)
    \/ ~Past(<<"halt", "workers">>) /\ \E task \in WorkerTasks : Push("backend", task)
    \/ \E task \in OtherTasks : Push("backend", task)

\* The thread takes up a handler whose event is active, or whose task got its
\* answer from the node.
Resume(h) ==
    /\ ~Down /\ running = Idle /\ running' = h
    /\ \/ handler[h] = "waiting" /\ h \in events /\ events' = events \ {h}
       \/ handler[h] = "busy" /\ events' = events
    /\ handler' = [handler EXCEPT ![h] = "waiting"]
    /\ UNCHANGED <<main, queue, asked, timers, pushed>>

\* What a task leaves to be saved: onUserWorkSummary and onWorkSummary change
\* memory only, onBlockFound saves the state as well.
Unsaved(task) ==
    CASE task = "userWork" -> unsaved \cup AccountingSaves
      [] task = "work"     -> unsaved \cup StatisticsSaves
      [] task = "block"    -> unsaved \ {"state"}
      [] OTHER             -> unsaved

\* taskHandler takes a task and runs it; queryFoundBlocks waits for the node,
\* updateBackendSettings pauses or resumes the pay-outs.
RunTask(h) ==
    LET task == Head(queue[h])
    IN  /\ ~Down /\ running = h /\ queue[h] # <<>> /\ task # Null
        /\ queue' = [queue EXCEPT ![h] = Tail(@)]
        /\ unsaved' = Unsaved(task)
        /\ IF task = "foundBlocks"
           THEN handler' = [handler EXCEPT ![h] = "busy"] /\ running' = Idle
           ELSE UNCHANGED <<handler, running>>
        /\ IF task \in {"pause", "resume"}
           THEN paused' = (task = "pause") /\ events' = events \cup {"instantPayout"}
           ELSE UNCHANGED <<paused, events>>
        /\ UNCHANGED <<main, asked, timer, stopping, pushed>>

\* Mutant of MeetNull: the handler ends as soon as the null task is in its queue,
\* whatever is in front of it.
MeetNullEarly(h) ==
    /\ ~Down /\ running = h
    /\ \E i \in DOMAIN queue[h] : queue[h][i] = Null
    /\ handler' = [handler EXCEPT ![h] = "finished"] /\ running' = Idle
    /\ asked' = asked \cup {h}
    /\ UNCHANGED <<main, queue, timers, events, pushed>>

\* The null task: go on until the queue is empty.
MeetNull(h) ==
    /\ ~Down /\ running = h /\ queue[h] # <<>> /\ Head(queue[h]) = Null
    /\ queue' = [queue EXCEPT ![h] = Tail(@)]
    /\ asked' = asked \cup {h}
    /\ UNCHANGED <<main, running, handler, timers, events, pushed>>

\* Mutant of Drained: an empty queue ends the handler.
DrainedOnce(h) ==
    /\ ~Down /\ running = h /\ queue[h] = <<>> /\ running' = Idle
    /\ handler' = [handler EXCEPT ![h] = "finished"]
    /\ UNCHANGED <<main, queue, asked, timers, events, pushed>>

\* The queue is empty: end, or wait for the event.
Drained(h) ==
    /\ ~Down /\ running = h /\ queue[h] = <<>> /\ running' = Idle
    /\ handler' = [handler EXCEPT ![h] = IF h \in asked THEN "finished" ELSE @]
    /\ UNCHANGED <<main, queue, asked, timers, events, pushed>>

HandlerStep(h) == Resume(h) \/ RunTask(h) \/ MeetNull(h) \/ Drained(h)

----------------------------------------------------------------------------
(* Timers.                                                                 *)

\* The fee timer lives on the monitor's thread.
Scheduled(t) == t = "fee" \/ (~Down /\ running = Idle)

\* It has no interval, but any template for a new height activates it.
EventOnly(t) == t = "instantPayout" /\ paused

\* Mutant of Finish: no last call.
FinishSilently(t) ==
    /\ timer' = [timer EXCEPT ![t] = "finished"]
    /\ UNCHANGED unsaved

\* The loop is left; the last call does not wait for anything.
Finish(t) ==
    /\ timer' = [timer EXCEPT ![t] = "finished"]
    /\ unsaved' = IF t \in LastCallOnStop THEN unsaved \ {t} ELSE unsaved

\* The callback; ppsPayout saves the state when it pays.
Callback(t) ==
    /\ timer' = [timer EXCEPT ![t] = IF t \in Yields THEN "busy" ELSE @]
    /\ unsaved' \in {unsaved \ {t}} \cup (IF t = "ppsPayout" THEN {unsaved \ {"state"}} ELSE {})

\* handler(): the interval is over or the event is active.
WakeUp(t) ==
    /\ Scheduled(t) /\ timer[t] = "waiting"
    /\ t \in events \/ ~EventOnly(t)
    /\ events' = events \ {t}
    /\ IF t \in stopping THEN Finish(t)
       ELSE IF t = "instantPayout" /\ paused THEN UNCHANGED <<timer, unsaved>>
       ELSE Callback(t)
    /\ UNCHANGED <<main, running, handlers, stopping, paused, pushed>>

\* The node answers, or the time for it is over, and the callback goes on to
\* its end; a check of the rounds saves the state when a round was settled.
CallbackReturns(t) ==
    /\ Scheduled(t) /\ timer[t] = "busy"
    /\ timer' = [timer EXCEPT ![t] = "waiting"]
    /\ unsaved' \in {unsaved} \cup (IF t = "checks" THEN {unsaved \ {"state"}} ELSE {})
    /\ UNCHANGED <<main, running, handlers, stopping, events, paused, pushed>>

TimerStep(t) == WakeUp(t) \/ CallbackReturns(t)

----------------------------------------------------------------------------

Stopped == main = Len(StopSequence) + 1

Next ==
    \/ Interrupt \/ StopStep \/ PushStep
    \/ \E h \in Handlers : HandlerStep(h)
    \/ \E t \in Timers : TimerStep(t)
    \/ Stopped /\ UNCHANGED vars

Spec == Init /\ [][Next]_vars

\* The step of the coroutine the stopping thread waits for.
AwaitedStep ==
    \/ \E h \in Handlers : main \in Steps /\ StopSequence[main] = <<"wait", h>> /\ HandlerStep(h)
    \/ \E t \in Timers : main \in Steps /\ StopSequence[main] = <<"wait", t>> /\ TimerStep(t)

\* The stopping thread looks every millisecond, a coroutine runs until it yields,
\* the event loop passes nobody over for ever, and a node that does not answer
\* is given up by the clients.
Fairness ==
    /\ WF_vars(StopStep)
    /\ WF_vars(\E h \in Handlers : running = h /\ HandlerStep(h))
    /\ SF_vars(AwaitedStep)

FairSpec == Spec /\ Fairness

----------------------------------------------------------------------------
(* Properties.                                                             *)

\* Type invariant; a coroutine that has finished was asked to (the sentinel of
\* taskHandler.h, ShutdownRequested_ of periodicTimer.h), and the thread is never
\* inside a handler that waits.
TypeOK ==
    /\ main \in 0 .. Len(StopSequence) + 1 /\ running \in Handlers \cup {Idle}
    /\ \A h \in Handlers : /\ handler[h] \in {"waiting", "busy", "finished"}
                           /\ handler[h] = "finished" => h \in asked
                           /\ running = h => handler[h] = "waiting"
    /\ \A t \in Timers : /\ timer[t] \in {"waiting", "busy", "finished"}
                         /\ timer[t] = "busy" => t \in Yields
                         /\ timer[t] = "finished" => t \in stopping
    /\ asked \subseteq Handlers /\ stopping \subseteq Timers /\ events \subseteq Handlers \cup Timers
    /\ paused \in BOOLEAN /\ unsaved \subseteq LastCallOnStop /\ pushed \in 0 .. MaxTasks

\* Nothing is cut short: the stopping thread does not get past a coroutine that is
\* still in the middle of something (a pay-out between its writes, a check of the
\* rounds between the answer and its batch, a task), and the backend's thread is
\* told to quit when none of them is left.
NothingCutShort ==
    /\ \A h \in Handlers : Past(<<"wait", h>>) \/ Down => handler[h] = "finished"
    /\ \A t \in Timers : Past(<<"wait", t>>) \/ Down => timer[t] = "finished"

\* A handler that has ended has run all that HTTP and worker threads gave it:
\* work and blocks in front of the null task, and the ones behind others.
HandedOverIsRun ==
    \A h \in Handlers : handler[h] = "finished" =>
        \A i \in DOMAIN queue[h] : queue[h][i] \in OtherTasks

\* A clean stop loses nothing: behind the wait for a timer that saves, and until
\* the thread quits, every batch of work that was run is in the share log, in
\* accounting.state or in the statistics on disk that this timer writes.
CleanStopSaves ==
    \A t \in LastCallOnStop : Past(<<"wait", t>>) \/ Down => t \notin unsaved

\* The backend stops, whatever its timers and tasks were doing.
StopCompletes == main > 0 ~> Stopped
======================================================================================================================================================
