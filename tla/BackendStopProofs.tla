-------------------------- MODULE BackendStopProofs --------------------------
(***************************************************************************)
(* Proofs about BackendStop, for every number of tasks and both settings   *)
(* of the instant pay-outs.  All of it rests on the order of the steps in  *)
(* StopSequence: who can still push when a handler gets its null task, and *)
(* who can still leave something to save when a timer makes its last call. *)
(***************************************************************************)
EXTENDS BackendStop, SequenceTheorems, TLAPS

TasksOf(h) ==
    CASE h = "backend"    -> WorkerTasks \cup OtherTasks \cup {Null}
      [] h = "accounting" -> AccountingTasks \cup {Null}
      [] h = "statistics" -> StatisticsTasks \cup {Null}

Shape ==
    /\ queue \in [Handlers -> Seq(UNION {TasksOf(h) : h \in Handlers})]
    /\ \A h \in Handlers : \A i \in DOMAIN queue[h] : queue[h][i] \in TasksOf(h)
    /\ handler \in [Handlers -> {"waiting", "busy", "finished"}]
    /\ timer \in [Timers -> {"waiting", "busy", "finished"}]

\* A handler is asked to end, and a timer to stop, by the stopping thread only.
OnlyWhenTold ==
    /\ \A h \in Handlers : h \in asked \/ (\E i \in DOMAIN queue[h] : queue[h][i] = Null) => Past(<<"push", h>>)
    /\ \A t \in stopping : Past(<<"stop", t>>)

\* The stopping thread has waited for what it has got past.
Waited ==
    /\ \A h \in Handlers : Past(<<"wait", h>>) => handler[h] = "finished"
    /\ \A t \in Timers : Past(<<"wait", t>>) => timer[t] = "finished"

\* The last call of a timer is the last that has something to save.
LastCallSaves == \A t \in LastCallOnStop : timer[t] = "finished" => t \notin unsaved

StopInv == TypeOK /\ Shape /\ OnlyWhenTold /\ Waited /\ HandedOverIsRun /\ LastCallSaves

----------------------------------------------------------------------------
(* The order of the steps.                                                 *)

\* The steps one by one.
LEMMA StopSequenceIs ==
    /\ Len(StopSequence) = 27 /\ DOMAIN StopSequence = 1 .. 27
    /\ StopSequence[1] = <<"halt", "http">> /\ StopSequence[2] = <<"halt", "workers">>
    /\ StopSequence[3] = <<"stop", "checks">>
    /\ StopSequence[4] = <<"push", "backend">> /\ StopSequence[5] = <<"wait", "backend">>
    /\ StopSequence[6] = <<"push", "accounting">> /\ StopSequence[7] = <<"wait", "accounting">>
    /\ StopSequence[8] = <<"stop", "shareLog">> /\ StopSequence[9] = <<"stop", "state">>
    /\ StopSequence[10] = <<"stop", "userStats">> /\ StopSequence[11] = <<"stop", "ppsPayout">>
    /\ StopSequence[12] = <<"stop", "instantPayout">>
    /\ StopSequence[13] = <<"wait", "shareLog">> /\ StopSequence[14] = <<"wait", "state">>
    /\ StopSequence[15] = <<"wait", "userStats">> /\ StopSequence[16] = <<"wait", "ppsPayout">>
    /\ StopSequence[17] = <<"wait", "instantPayout">>
    /\ StopSequence[18] = <<"push", "statistics">> /\ StopSequence[19] = <<"wait", "statistics">>
    /\ StopSequence[20] = <<"stop", "series">> /\ StopSequence[21] = <<"stop", "statsLog">>
    /\ StopSequence[22] = <<"wait", "series">> /\ StopSequence[23] = <<"wait", "statsLog">>
    /\ StopSequence[24] = <<"stop", "fee">> /\ StopSequence[25] = <<"wait", "fee">>
    /\ StopSequence[26] = <<"wait", "checks">> /\ StopSequence[27] = <<"halt", "backend">>
  BY DEF StopSequence, BackendStopping, AccountingStop, StatisticsStop, NetworkClientStop

\* The null task of a handler is behind the last task of HTTP and worker threads.
LEMMA PushersAreHalted ==
    ASSUME TypeOK, NEW h \in Handlers, Past(<<"push", h>>)
    PROVE  Past(<<"halt", "http">>) /\ Past(<<"halt", "workers">>)
<1>1. main \in 0 .. 28
  BY StopSequenceIs DEF TypeOK
<1>2. PICK i \in 1 .. main - 1 : StopSequence[i] = <<"push", h>>
  BY DEF Past
<1>3. i \in 1 .. 27 /\ i <= main - 1
  BY <1>1
<1>4. i # 1 /\ i # 2
  BY <1>2, StopSequenceIs
<1>5. 1 \in 1 .. main - 1 /\ 2 \in 1 .. main - 1
  BY <1>1, <1>3, <1>4
<1> QED
  BY <1>5, StopSequenceIs DEF Past

\* A timer that saves is stopped behind the handler that gives it work.
LEMMA WorkIsOver ==
    ASSUME TypeOK, NEW t \in LastCallOnStop, Past(<<"stop", t>>)
    PROVE  Past(<<"wait", "backend">>)
<1>1. main \in 0 .. 28
  BY StopSequenceIs DEF TypeOK
<1>2. PICK i \in 1 .. main - 1 : StopSequence[i] = <<"stop", t>>
  BY DEF Past
<1>3. i \in 1 .. 27 /\ i <= main - 1
  BY <1>1
<1>4. t # "checks"
  BY DEF LastCallOnStop, AccountingSaves, StatisticsSaves
<1>5. i # 1 /\ i # 2 /\ i # 3 /\ i # 4
  BY <1>2, <1>4, StopSequenceIs
<1>6. 5 \in 1 .. main - 1
  BY <1>1, <1>3, <1>5
<1> QED
  BY <1>6, StopSequenceIs DEF Past

\* The thread quits last.
LEMMA QuitIsLast ==
    ASSUME TypeOK, Down
    PROVE  \A x \in Handlers \cup Timers : Past(<<"wait", x>>)
<1>1. main \in 0 .. 28
  BY StopSequenceIs DEF TypeOK
<1>2. PICK i \in 1 .. main - 1 : StopSequence[i] = <<"halt", "backend">>
  BY DEF Past, Down
<1>3. i \in 1 .. 27
  BY <1>1
<1>4. i = 27
  BY <1>2, <1>3, StopSequenceIs
<1>5. \A j \in 1 .. 27 : j \in 1 .. main - 1
  BY <1>1, <1>2, <1>4
<1>6. /\ Past(<<"wait", "backend">>) /\ Past(<<"wait", "accounting">>) /\ Past(<<"wait", "statistics">>)
      /\ Past(<<"wait", "shareLog">>) /\ Past(<<"wait", "state">>) /\ Past(<<"wait", "userStats">>)
      /\ Past(<<"wait", "ppsPayout">>) /\ Past(<<"wait", "instantPayout">>)
      /\ Past(<<"wait", "series">>) /\ Past(<<"wait", "statsLog">>)
      /\ Past(<<"wait", "fee">>) /\ Past(<<"wait", "checks">>)
  BY <1>5, StopSequenceIs DEF Past
<1> QED
  BY <1>6 DEF Handlers, Timers, LastCallOnStop, AccountingSaves, StatisticsSaves, Yields

\* A handler gets one null task.
LEMMA NullOnce ==
    ASSUME TypeOK, NEW h \in Handlers, At("push", h)
    PROVE  ~Past(<<"push", h>>)
<1>1. main \in 1 .. 27 /\ StopSequence[main] = <<"push", h>>
  BY StopSequenceIs DEF At, Steps
<1> SUFFICES ASSUME NEW i \in 1 .. main - 1, StopSequence[i] = <<"push", h>>
             PROVE  FALSE
  BY DEF Past
<1>2. i \in 1 .. 27 /\ i < main
  BY <1>1
<1> QED
  BY <1>1, <1>2, StopSequenceIs

\* What is past stays past, and the stopping thread gets past one step at a time.
LEMMA PastGrows ==
    ASSUME TypeOK, NEW step
    PROVE  /\ main' = main => (Past(step)' <=> Past(step))
           /\ main = 0 /\ main' = 1 => ~Past(step)' /\ ~Past(step)
           /\ main \in Steps /\ main' = main + 1 =>
                 (Past(step)' <=> Past(step) \/ StopSequence[main] = step)
<1>1. main \in 0 .. 28 /\ (main \in Steps => main \in 1 .. 27)
  BY StopSequenceIs DEF TypeOK, Steps
<1>2. main' = main => (Past(step)' <=> Past(step))
  BY DEF Past
<1>3. main = 0 /\ main' = 1 => ~Past(step)' /\ ~Past(step)
  BY DEF Past
<1>4. ASSUME main \in Steps, main' = main + 1
      PROVE  Past(step)' <=> Past(step) \/ StopSequence[main] = step
  <2>1. 1 .. main' - 1 = (1 .. main - 1) \cup {main}
    BY <1>1, <1>4
  <2> QED
    BY <2>1 DEF Past
<1> QED
  BY <1>2, <1>3, <1>4

----------------------------------------------------------------------------
(* The parts that a step leaves alone.                                     *)

\* What the stopping thread has got past, as it sees it.
LEMMA PastKept ==
    ASSUME main' = main, NEW step
    PROVE  Past(step)' <=> Past(step)
  BY DEF Past

\* The states at the start.
LEMMA StopInit == Init => StopInv
<1> SUFFICES ASSUME Init PROVE StopInv
  OBVIOUS
<1>1. ~(\E i \in 1 .. main - 1 : TRUE)
  BY DEF Init
<1>2. \A step : ~Past(step)
  BY <1>1 DEF Past
<1>3. TypeOK
  BY StopSequenceIs, StopAssumptions
     DEF TypeOK, Init, Timers, LastCallOnStop, AccountingSaves, StatisticsSaves, Yields, Handlers
<1>4. \A h \in Handlers : queue[h] = <<>> /\ DOMAIN queue[h] = {}
  BY DEF Init
<1>5. Shape
  <2>1. queue \in [Handlers -> Seq(UNION {TasksOf(h) : h \in Handlers})]
    BY DEF Init
  <2>2. \A h \in Handlers : \A i \in DOMAIN queue[h] : queue[h][i] \in TasksOf(h)
    BY <1>4
  <2>3. handler \in [Handlers -> {"waiting", "busy", "finished"}]
    BY DEF Init
  <2>4. timer \in [Timers -> {"waiting", "busy", "finished"}]
    BY DEF Init
  <2> QED
    BY <2>1, <2>2, <2>3, <2>4 DEF Shape
<1>6. OnlyWhenTold
  BY <1>4 DEF OnlyWhenTold, Init
<1>7. Waited
  BY <1>2 DEF Waited
<1>8. HandedOverIsRun
  BY <1>4 DEF HandedOverIsRun
<1>9. LastCallSaves
  BY DEF LastCallSaves, Init
<1> QED
  BY <1>3, <1>5, <1>6, <1>7, <1>8, <1>9 DEF StopInv

\* Appending a task to the queue of a handler.
LEMMA Appended ==
    ASSUME Shape, NEW h \in Handlers, NEW task \in TasksOf(h),
           queue' = [queue EXCEPT ![h] = Append(@, task)]
    PROVE  /\ queue' \in [Handlers -> Seq(UNION {TasksOf(x) : x \in Handlers})]
           /\ \A x \in Handlers : \A i \in DOMAIN queue'[x] :
                 /\ queue'[x][i] \in TasksOf(x)
                 /\ (queue'[x][i] = task /\ x = h) \/ (i \in DOMAIN queue[x] /\ queue'[x][i] = queue[x][i])
           /\ \A x \in Handlers : x # h => queue'[x] = queue[x]
<1> DEFINE All == UNION {TasksOf(x) : x \in Handlers}
<1>1. queue \in [Handlers -> Seq(All)] /\ task \in All
  BY DEF Shape
<1> HIDE DEF All
<1>2. queue[h] \in Seq(All)
  BY <1>1
<1>3. /\ Append(queue[h], task) \in Seq(All) /\ DOMAIN Append(queue[h], task) = 1 .. Len(queue[h]) + 1
      /\ DOMAIN queue[h] = 1 .. Len(queue[h])
      /\ \A i \in 1 .. Len(queue[h]) : Append(queue[h], task)[i] = queue[h][i]
      /\ Append(queue[h], task)[Len(queue[h]) + 1] = task /\ Len(queue[h]) \in Nat
  BY <1>1, <1>2
<1>4. queue' \in [Handlers -> Seq(All)]
  BY <1>1, <1>3
<1>5. \A x \in Handlers : queue'[x] = IF x = h THEN Append(queue[h], task) ELSE queue[x]
  BY <1>1
<1>6. ASSUME NEW x \in Handlers, NEW i \in DOMAIN queue'[x]
      PROVE  /\ queue'[x][i] \in TasksOf(x)
             /\ (queue'[x][i] = task /\ x = h) \/ (i \in DOMAIN queue[x] /\ queue'[x][i] = queue[x][i])
  <2>1. CASE x # h
    BY <1>5, <1>6, <2>1 DEF Shape
  <2>2. CASE x = h /\ i \in DOMAIN queue[h]
    BY <1>3, <1>5, <2>2 DEF Shape
  <2>3. CASE x = h /\ i \notin DOMAIN queue[h]
    <3>1. i = Len(queue[h]) + 1
      BY <1>3, <1>5, <1>6, <2>3
    <3> QED
      BY <1>3, <1>5, <2>3, <3>1
  <2> QED
    BY <2>1, <2>2, <2>3
<1> QED
  BY <1>4, <1>5, <1>6 DEF All

\* Taking the first task from the queue of a handler.
LEMMA Headless ==
    ASSUME Shape, NEW h \in Handlers, queue[h] # <<>>,
           queue' = [queue EXCEPT ![h] = Tail(@)]
    PROVE  /\ queue' \in [Handlers -> Seq(UNION {TasksOf(x) : x \in Handlers})]
           /\ Head(queue[h]) \in TasksOf(h)
           /\ \E i \in DOMAIN queue[h] : queue[h][i] = Head(queue[h])
           /\ \A x \in Handlers : \A i \in DOMAIN queue'[x] :
                 \E j \in DOMAIN queue[x] : queue'[x][i] = queue[x][j]
           /\ \A x \in Handlers : x # h => queue'[x] = queue[x]
<1> DEFINE All == UNION {TasksOf(x) : x \in Handlers}
<1>1. queue \in [Handlers -> Seq(All)]
  BY DEF Shape
<1> HIDE DEF All
<1>2. queue[h] \in Seq(All)
  BY <1>1
<1>3. /\ Tail(queue[h]) \in Seq(All) /\ DOMAIN Tail(queue[h]) = 1 .. Len(queue[h]) - 1
      /\ DOMAIN queue[h] = 1 .. Len(queue[h])
      /\ \A i \in 1 .. Len(queue[h]) - 1 : Tail(queue[h])[i] = queue[h][i + 1]
      /\ Len(queue[h]) \in Nat /\ Len(queue[h]) > 0 /\ Head(queue[h]) = queue[h][1]
  BY <1>2
<1>4. queue' \in [Handlers -> Seq(All)]
  BY <1>1, <1>3
<1>5. \A x \in Handlers : queue'[x] = IF x = h THEN Tail(queue[h]) ELSE queue[x]
  BY <1>1
<1>6. 1 \in DOMAIN queue[h]
  BY <1>3
<1>7. Head(queue[h]) \in TasksOf(h)
  BY <1>3, <1>6 DEF Shape
<1>8. ASSUME NEW x \in Handlers, NEW i \in DOMAIN queue'[x]
      PROVE  \E j \in DOMAIN queue[x] : queue'[x][i] = queue[x][j]
  <2>1. CASE x # h
    BY <1>5, <1>8, <2>1
  <2>2. CASE x = h
    <3>1. i \in 1 .. Len(queue[h]) - 1
      BY <1>3, <1>5, <1>8, <2>2
    <3>2. i + 1 \in DOMAIN queue[h]
      BY <1>3, <3>1
    <3> QED
      BY <1>3, <1>5, <2>2, <3>1, <3>2
  <2> QED
    BY <2>1, <2>2
<1> QED
  BY <1>3, <1>4, <1>5, <1>6, <1>7, <1>8 DEF All

----------------------------------------------------------------------------
(* The stopping thread.                                                    *)

\* A step of it moves main and only adds to what is past.
LEMMA StopMoves ==
    ASSUME StopInv, Interrupt \/ (main \in Steps /\ main' = main + 1)
    PROVE  main' \in 0 .. Len(StopSequence) + 1 /\ \A step : Past(step) => Past(step)'
<1>1. TypeOK /\ main \in 0 .. 28
  BY StopSequenceIs DEF StopInv, TypeOK
<1>2. main' \in 0 .. Len(StopSequence) + 1
  BY <1>1, StopSequenceIs DEF Interrupt, Steps
<1>3. ASSUME NEW step PROVE Past(step) => Past(step)'
  BY <1>1, PastGrows DEF Interrupt
<1> QED
  BY <1>2, <1>3

LEMMA InterruptKeeps == StopInv /\ Interrupt => StopInv'
<1> SUFFICES ASSUME StopInv, Interrupt PROVE StopInv'
  OBVIOUS
<1>1. TypeOK /\ main = 0 /\ main' = 1 /\ main' \in 0 .. Len(StopSequence) + 1
  BY StopMoves DEF StopInv, Interrupt
<1>2. ASSUME NEW step PROVE Past(step)' <=> Past(step)
  BY <1>1, PastGrows
<1>3. TypeOK'
  BY <1>1 DEF TypeOK, Interrupt, handlers, timers
<1>4. (Shape /\ HandedOverIsRun /\ LastCallSaves)'
  BY DEF StopInv, Shape, HandedOverIsRun, LastCallSaves, Interrupt, handlers, timers
<1>5. OnlyWhenTold'
  BY <1>2 DEF StopInv, OnlyWhenTold, Interrupt, handlers, timers
<1>6. Waited'
  BY <1>2 DEF StopInv, Waited, Interrupt, handlers, timers
<1> QED
  BY <1>3, <1>4, <1>5, <1>6 DEF StopInv

LEMMA HaltKeeps == ASSUME StopInv, NEW x, Halt(x) PROVE StopInv'
<1>1. /\ TypeOK /\ main \in Steps /\ main' = main + 1 /\ StopSequence[main] = <<"halt", x>>
      /\ main' \in 0 .. Len(StopSequence) + 1 /\ \A step : Past(step) => Past(step)'
  BY StopMoves DEF StopInv, Halt, At
<1>2. ASSUME NEW y PROVE Past(<<"wait", y>>)' => Past(<<"wait", y>>)
  BY <1>1, PastGrows
<1>3. TypeOK'
  BY <1>1 DEF TypeOK, Halt, handlers, timers
<1>4. (Shape /\ HandedOverIsRun /\ LastCallSaves)'
  BY DEF StopInv, Shape, HandedOverIsRun, LastCallSaves, Halt, handlers, timers
<1>5. OnlyWhenTold'
  BY <1>1 DEF StopInv, OnlyWhenTold, Halt, handlers, timers
<1>6. Waited'
  BY <1>2 DEF StopInv, Waited, Halt, handlers, timers
<1> QED
  BY <1>3, <1>4, <1>5, <1>6 DEF StopInv

\* A handler that gets its null task has not met one, so it has not finished.
LEMMA PushNullKeeps == ASSUME StopInv, NEW h \in Handlers, PushNull(h) PROVE StopInv'
<1>1. /\ TypeOK /\ At("push", h) /\ main \in Steps /\ main' = main + 1 /\ StopSequence[main] = <<"push", h>>
      /\ main' \in 0 .. Len(StopSequence) + 1 /\ \A step : Past(step) => Past(step)'
  BY StopMoves DEF StopInv, PushNull, At
<1>2. ASSUME NEW y PROVE Past(<<"wait", y>>)' => Past(<<"wait", y>>)
  BY <1>1, PastGrows
<1>3. Past(<<"push", h>>)' /\ ~Past(<<"push", h>>)
  BY <1>1, PastGrows, NullOnce
<1>4. handler[h] # "finished"
  BY <1>3 DEF StopInv, TypeOK, OnlyWhenTold
<1>5. Null \in TasksOf(h) /\ queue' = [queue EXCEPT ![h] = Append(@, Null)]
  BY DEF PushNull, TasksOf, Handlers
<1>6. /\ queue' \in [Handlers -> Seq(UNION {TasksOf(x) : x \in Handlers})]
      /\ \A x \in Handlers : \A i \in DOMAIN queue'[x] :
            /\ queue'[x][i] \in TasksOf(x)
            /\ (queue'[x][i] = Null /\ x = h) \/ (i \in DOMAIN queue[x] /\ queue'[x][i] = queue[x][i])
      /\ \A x \in Handlers : x # h => queue'[x] = queue[x]
  BY <1>5, Appended DEF StopInv
<1>7. TypeOK'
  BY <1>1 DEF TypeOK, PushNull, timers
<1>8. Shape'
  BY <1>6 DEF StopInv, Shape, PushNull, timers
<1>9. OnlyWhenTold'
  <2>1. ASSUME NEW x \in Handlers, x \in asked' \/ (\E i \in DOMAIN queue'[x] : queue'[x][i] = Null)
        PROVE  Past(<<"push", x>>)'
    <3>1. CASE x = h
      BY <3>1, <1>3
    <3>2. CASE x # h
      BY <1>1, <1>6, <2>1, <3>2 DEF StopInv, OnlyWhenTold, PushNull
    <3> QED
      BY <3>1, <3>2
  <2>2. \A t \in stopping' : Past(<<"stop", t>>)'
    BY <1>1 DEF StopInv, OnlyWhenTold, PushNull, timers
  <2> QED
    BY <2>1, <2>2 DEF OnlyWhenTold
<1>10. Waited'
  BY <1>2 DEF StopInv, Waited, PushNull, timers
<1>11. HandedOverIsRun'
  BY <1>4, <1>6 DEF StopInv, HandedOverIsRun, PushNull
<1>12. LastCallSaves'
  BY DEF StopInv, LastCallSaves, PushNull, timers
<1> QED
  BY <1>7, <1>8, <1>9, <1>10, <1>11, <1>12 DEF StopInv

LEMMA StopTimerKeeps == ASSUME StopInv, NEW t \in Timers, StopTimer(t) PROVE StopInv'
<1>1. /\ TypeOK /\ main \in Steps /\ main' = main + 1 /\ StopSequence[main] = <<"stop", t>>
      /\ main' \in 0 .. Len(StopSequence) + 1 /\ \A step : Past(step) => Past(step)'
  BY StopMoves DEF StopInv, StopTimer, At
<1>2. ASSUME NEW y PROVE Past(<<"wait", y>>)' => Past(<<"wait", y>>)
  BY <1>1, PastGrows
<1>3. Past(<<"stop", t>>)'
  BY <1>1, PastGrows
<1>4. TypeOK'
  BY <1>1 DEF TypeOK, StopTimer, handlers
<1>5. (Shape /\ HandedOverIsRun /\ LastCallSaves)'
  BY DEF StopInv, Shape, HandedOverIsRun, LastCallSaves, StopTimer, handlers
<1>6. OnlyWhenTold'
  BY <1>1, <1>3 DEF StopInv, OnlyWhenTold, StopTimer, handlers
<1>7. Waited'
  BY <1>2 DEF StopInv, Waited, StopTimer, handlers
<1> QED
  BY <1>4, <1>5, <1>6, <1>7 DEF StopInv

LEMMA WaitKeeps == ASSUME StopInv, NEW x \in Handlers \cup Timers, Wait(x) PROVE StopInv'
<1>1. /\ TypeOK /\ main \in Steps /\ main' = main + 1 /\ StopSequence[main] = <<"wait", x>>
      /\ main' \in 0 .. Len(StopSequence) + 1 /\ \A step : Past(step) => Past(step)'
  BY StopMoves DEF StopInv, Wait, At
<1>2. ASSUME NEW y PROVE Past(<<"wait", y>>)' => Past(<<"wait", y>>) \/ x = y
  <2>1. Past(<<"wait", y>>)' <=> Past(<<"wait", y>>) \/ StopSequence[main] = <<"wait", y>>
    BY <1>1, PastGrows
  <2> QED
    BY <1>1, <2>1
<1>3. TypeOK'
  BY <1>1 DEF TypeOK, Wait, handlers, timers
<1>4. (Shape /\ HandedOverIsRun /\ LastCallSaves)'
  BY DEF StopInv, Shape, HandedOverIsRun, LastCallSaves, Wait, handlers, timers
<1>5. OnlyWhenTold'
  BY <1>1 DEF StopInv, OnlyWhenTold, Wait, handlers, timers
<1>6. \A h \in Handlers : h \notin Timers
  BY DEF Handlers, Timers, LastCallOnStop, AccountingSaves, StatisticsSaves, Yields
<1>7. Waited'
  BY <1>2, <1>6 DEF StopInv, Waited, Wait, handlers, timers
<1> QED
  BY <1>3, <1>4, <1>5, <1>7 DEF StopInv

LEMMA StopStepKeeps == StopInv /\ StopStep => StopInv'
  BY HaltKeeps, PushNullKeeps, StopTimerKeeps, WaitKeeps DEF StopStep

----------------------------------------------------------------------------
(* The backend's thread, and those that push.                              *)

\* A handler that has ended was behind the last task of HTTP and worker threads.
LEMMA FinishedIsBehind ==
    ASSUME StopInv, NEW h \in Handlers, handler[h] = "finished" \/ h \in asked
    PROVE  Past(<<"halt", "http">>) /\ Past(<<"halt", "workers">>)
<1>1. h \in asked
  BY DEF StopInv, TypeOK
<1>2. Past(<<"push", h>>)
  BY <1>1 DEF StopInv, OnlyWhenTold
<1> QED
  BY <1>2, PushersAreHalted DEF StopInv

\* A timer that has made its last call was behind the last work.
LEMMA LastCallIsBehind ==
    ASSUME StopInv, NEW t \in LastCallOnStop, timer[t] = "finished"
    PROVE  handler["backend"] = "finished"
<1>1. t \in Timers /\ "backend" \in Handlers
  BY DEF Timers, Handlers
<1>2. t \in stopping
  BY <1>1 DEF StopInv, TypeOK
<1>3. Past(<<"wait", "backend">>)
  BY <1>2, WorkIsOver DEF StopInv, OnlyWhenTold
<1> QED
  BY <1>1, <1>3 DEF StopInv, Waited

LEMMA PushKeeps ==
    ASSUME StopInv, NEW h \in Handlers, NEW task \in TasksOf(h), task # Null,
           Push(h, task), handler[h] = "finished" => task \in OtherTasks
    PROVE  StopInv'
<1>1. TypeOK /\ main' = main
  BY DEF StopInv, Push
<1>2. ASSUME NEW step PROVE Past(step)' <=> Past(step)
  BY <1>1, PastKept
<1>3. queue' = [queue EXCEPT ![h] = Append(@, task)]
  BY DEF Push
<1>4. /\ queue' \in [Handlers -> Seq(UNION {TasksOf(x) : x \in Handlers})]
      /\ \A x \in Handlers : \A i \in DOMAIN queue'[x] :
            /\ queue'[x][i] \in TasksOf(x)
            /\ (queue'[x][i] = task /\ x = h) \/ (i \in DOMAIN queue[x] /\ queue'[x][i] = queue[x][i])
  BY <1>3, Appended DEF StopInv
<1>5. TypeOK'
  <2>1. pushed' \in 0 .. MaxTasks
    BY StopAssumptions DEF StopInv, TypeOK, Push
  <2> QED
    BY <2>1 DEF StopInv, TypeOK, Push, timers
<1>6. Shape'
  BY <1>4 DEF StopInv, Shape, Push, timers
<1>7. OnlyWhenTold'
  BY <1>2, <1>4 DEF StopInv, OnlyWhenTold, Push, timers
<1>8. Waited'
  BY <1>2 DEF StopInv, Waited, Push, timers
<1>9. HandedOverIsRun'
  BY <1>4 DEF StopInv, HandedOverIsRun, Push
<1>10. LastCallSaves'
  BY DEF StopInv, LastCallSaves, Push, timers
<1> QED
  BY <1>5, <1>6, <1>7, <1>8, <1>9, <1>10 DEF StopInv

LEMMA PushStepKeeps == StopInv /\ PushStep => StopInv'
<1> SUFFICES ASSUME StopInv, PushStep PROVE StopInv'
  OBVIOUS
<1> USE DEF TasksOf, Null, AccountingTasks, StatisticsTasks, WorkerTasks, OtherTasks
<1>0. {"accounting", "statistics", "backend"} \subseteq Handlers
  BY DEF Handlers
<1>1. CASE ~Past(<<"halt", "http">>) /\ \E task \in AccountingTasks : Push("accounting", task)
  <2>1. PICK task \in AccountingTasks : Push("accounting", task)
    BY <1>1
  <2>2. handler["accounting"] # "finished"
    BY <1>0, <1>1, FinishedIsBehind
  <2> QED
    BY <1>0, <2>1, <2>2, PushKeeps
<1>2. CASE ~Past(<<"halt", "http">>) /\ \E task \in StatisticsTasks : Push("statistics", task)
  <2>1. PICK task \in StatisticsTasks : Push("statistics", task)
    BY <1>2
  <2>2. handler["statistics"] # "finished"
    BY <1>0, <1>2, FinishedIsBehind
  <2> QED
    BY <1>0, <2>1, <2>2, PushKeeps
<1>3. CASE ~Past(<<"halt", "workers">>) /\ \E task \in WorkerTasks : Push("backend", task)
  <2>1. PICK task \in WorkerTasks : Push("backend", task)
    BY <1>3
  <2>2. handler["backend"] # "finished"
    BY <1>0, <1>3, FinishedIsBehind
  <2> QED
    BY <1>0, <2>1, <2>2, PushKeeps
<1>4. CASE \E task \in OtherTasks : Push("backend", task)
  <2>1. PICK task \in OtherTasks : Push("backend", task)
    BY <1>4
  <2> QED
    BY <1>0, <2>1, PushKeeps
<1> QED
  BY <1>1, <1>2, <1>3, <1>4 DEF PushStep

\* A handler that has not finished goes on; the thread has left nobody behind.
LEMMA ResumeKeeps == ASSUME StopInv, NEW h \in Handlers, Resume(h) PROVE StopInv'
<1>1. TypeOK /\ main' = main /\ handler[h] # "finished" /\ handler' = [handler EXCEPT ![h] = "waiting"]
  BY DEF StopInv, Resume
<1>2. ASSUME NEW step PROVE Past(step)' <=> Past(step)
  BY <1>1, PastKept
<1>3. \A x \in Handlers : handler'[x] = IF x = h THEN "waiting" ELSE handler[x]
  BY <1>1 DEF StopInv, Shape
<1>4. TypeOK'
  BY <1>1, <1>3 DEF TypeOK, Resume, timers
<1>5. Shape'
  BY <1>1 DEF StopInv, Shape, Resume, timers
<1>6. OnlyWhenTold'
  BY <1>2 DEF StopInv, OnlyWhenTold, Resume, timers
<1>7. Waited'
  <2>1. ASSUME NEW x \in Handlers, Past(<<"wait", x>>)' PROVE handler'[x] = "finished"
    BY <1>1, <1>2, <1>3, <2>1 DEF StopInv, Waited
  <2>2. \A t \in Timers : Past(<<"wait", t>>)' => timer'[t] = "finished"
    BY <1>2 DEF StopInv, Waited, Resume, timers
  <2> QED
    BY <2>1, <2>2 DEF Waited
<1>8. HandedOverIsRun'
  BY <1>3 DEF StopInv, HandedOverIsRun, Resume
<1>9. LastCallSaves'
  BY DEF StopInv, LastCallSaves, Resume, timers
<1> QED
  BY <1>4, <1>5, <1>6, <1>7, <1>8, <1>9 DEF StopInv

\* The backend's handler alone leaves something to save.
LEMMA LeavesToSave ==
    ASSUME StopInv, NEW h \in Handlers, NEW task \in TasksOf(h), h # "backend"
    PROVE  Unsaved(task) \subseteq unsaved
<1>1. task # "userWork" /\ task # "work"
  BY DEF TasksOf, Handlers, AccountingTasks, StatisticsTasks, Null
<1> QED
  BY <1>1 DEF Unsaved

LEMMA RunTaskKeeps == ASSUME StopInv, NEW h \in Handlers, RunTask(h) PROVE StopInv'
<1> DEFINE task == Head(queue[h])
<1>1. /\ TypeOK /\ main' = main /\ running = h /\ queue[h] # <<>>
      /\ queue' = [queue EXCEPT ![h] = Tail(@)] /\ unsaved' = Unsaved(task)
      /\ asked' = asked /\ timer' = timer /\ stopping' = stopping /\ pushed' = pushed
  BY DEF StopInv, RunTask
<1>2. /\ handler' = handler \/ handler' = [handler EXCEPT ![h] = "busy"]
      /\ handler' # handler => running' = Idle
      /\ running' \in {running, Idle}
  BY DEF RunTask
<1>3. /\ paused' = (task = "pause") \/ paused' = paused
      /\ events' = events \/ events' = events \cup {"instantPayout"}
  BY DEF RunTask
<1>4. ASSUME NEW step PROVE Past(step)' <=> Past(step)
  BY <1>1, PastKept
<1>5. /\ queue' \in [Handlers -> Seq(UNION {TasksOf(x) : x \in Handlers})]
      /\ task \in TasksOf(h)
      /\ \A x \in Handlers : \A i \in DOMAIN queue'[x] :
            \E j \in DOMAIN queue[x] : queue'[x][i] = queue[x][j]
      /\ \A x \in Handlers : x # h => queue'[x] = queue[x]
  BY <1>1, Headless DEF StopInv
<1>6. handler[h] = "waiting"
  BY <1>1 DEF TypeOK
<1>7. /\ \A x \in Handlers : x # h => handler'[x] = handler[x]
      /\ handler'[h] \in {"waiting", "busy"} /\ (handler'[h] = "busy" => running' = Idle)
      /\ handler' \in [Handlers -> {"waiting", "busy", "finished"}]
  BY <1>2, <1>6 DEF StopInv, Shape
<1> HIDE DEF task
<1>8. TypeOK'
  <2>1. running' \in Handlers \cup {Idle}
    BY <1>2 DEF StopInv, TypeOK
  <2>2. ASSUME NEW x \in Handlers
        PROVE  /\ handler'[x] \in {"waiting", "busy", "finished"}
               /\ handler'[x] = "finished" => x \in asked'
               /\ running' = x => handler'[x] = "waiting"
    <3>1. h \notin {Idle} /\ x \notin {Idle}
      BY DEF Handlers, Idle
    <3>2. CASE x = h
      BY <1>7, <3>1, <3>2
    <3>3. CASE x # h
      BY <1>1, <1>2, <1>7, <3>1, <3>3 DEF TypeOK
    <3> QED
      BY <3>2, <3>3
  <2>3. paused' \in BOOLEAN /\ events' \subseteq Handlers \cup Timers
    <3>1. paused' \in BOOLEAN
      BY <1>1, <1>3 DEF TypeOK
    <3>2. events' \subseteq Handlers \cup Timers
      BY <1>1, <1>3 DEF TypeOK, Timers, Yields
    <3> QED
      BY <3>1, <3>2
  <2>4. unsaved' \subseteq LastCallOnStop
    BY <1>1 DEF TypeOK, Unsaved, LastCallOnStop
  <2> QED
    BY <1>1, <2>1, <2>2, <2>3, <2>4 DEF TypeOK
<1>9. Shape'
  BY <1>1, <1>5, <1>7 DEF StopInv, Shape
<1>10. OnlyWhenTold'
  BY <1>1, <1>4, <1>5 DEF StopInv, OnlyWhenTold
<1>11. Waited'
  <2>1. ASSUME NEW x \in Handlers, Past(<<"wait", x>>)' PROVE handler'[x] = "finished"
    <3>1. handler[x] = "finished"
      BY <1>4, <2>1 DEF StopInv, Waited
    <3> QED
      BY <1>6, <1>7, <3>1
  <2>2. \A t \in Timers : Past(<<"wait", t>>)' => timer'[t] = "finished"
    BY <1>1, <1>4 DEF StopInv, Waited
  <2> QED
    BY <2>1, <2>2 DEF Waited
<1>12. HandedOverIsRun'
  <2> SUFFICES ASSUME NEW x \in Handlers, handler'[x] = "finished", NEW i \in DOMAIN queue'[x]
               PROVE  queue'[x][i] \in OtherTasks
    BY DEF HandedOverIsRun
  <2>1. x # h /\ queue'[x] = queue[x] /\ handler[x] = "finished"
    BY <1>5, <1>7
  <2> QED
    BY <2>1 DEF StopInv, HandedOverIsRun
<1>13. LastCallSaves'
  <2> SUFFICES ASSUME NEW t \in LastCallOnStop, timer[t] = "finished"
               PROVE  t \notin unsaved'
    BY <1>1 DEF LastCallSaves
  <2>1. h # "backend"
    BY <1>6, LastCallIsBehind
  <2> QED
    BY <1>1, <1>5, <2>1, LeavesToSave DEF StopInv, LastCallSaves
<1> QED
  BY <1>8, <1>9, <1>10, <1>11, <1>12, <1>13 DEF StopInv

LEMMA MeetNullKeeps == ASSUME StopInv, NEW h \in Handlers, MeetNull(h) PROVE StopInv'
<1>1. /\ TypeOK /\ main' = main /\ running = h /\ queue[h] # <<>> /\ Head(queue[h]) = Null
      /\ queue' = [queue EXCEPT ![h] = Tail(@)] /\ asked' = asked \cup {h}
      /\ UNCHANGED <<handler, timers>>
  BY DEF StopInv, MeetNull
<1>2. ASSUME NEW step PROVE Past(step)' <=> Past(step)
  BY <1>1, PastKept
<1>3. /\ queue' \in [Handlers -> Seq(UNION {TasksOf(x) : x \in Handlers})]
      /\ \E i \in DOMAIN queue[h] : queue[h][i] = Null
      /\ \A x \in Handlers : \A i \in DOMAIN queue'[x] :
            \E j \in DOMAIN queue[x] : queue'[x][i] = queue[x][j]
  BY <1>1, Headless DEF StopInv
<1>4. TypeOK'
  BY <1>1 DEF TypeOK, MeetNull, timers
<1>5. Shape'
  BY <1>1, <1>3 DEF StopInv, Shape, timers
<1>6. OnlyWhenTold'
  BY <1>1, <1>2, <1>3 DEF StopInv, OnlyWhenTold, timers
<1>7. Waited'
  BY <1>1, <1>2 DEF StopInv, Waited, timers
<1>8. HandedOverIsRun'
  BY <1>1, <1>3 DEF StopInv, HandedOverIsRun
<1>9. LastCallSaves'
  BY <1>1 DEF StopInv, LastCallSaves, timers
<1> QED
  BY <1>4, <1>5, <1>6, <1>7, <1>8, <1>9 DEF StopInv

\* A handler ends with nothing in its queue.
LEMMA DrainedKeeps == ASSUME StopInv, NEW h \in Handlers, Drained(h) PROVE StopInv'
<1>1. /\ TypeOK /\ main' = main /\ running = h /\ running' = Idle /\ queue[h] = <<>>
      /\ handler' = [handler EXCEPT ![h] = IF h \in asked THEN "finished" ELSE @]
      /\ UNCHANGED <<queue, asked, timers, events, pushed>>
  BY DEF StopInv, Drained
<1>2. ASSUME NEW step PROVE Past(step)' <=> Past(step)
  BY <1>1, PastKept
<1>3. \A x \in Handlers : handler'[x] = IF x = h /\ h \in asked THEN "finished" ELSE handler[x]
  BY <1>1 DEF StopInv, Shape
<1>4. TypeOK'
  <2>1. \A x \in Handlers : Idle # x
    BY DEF Handlers, Idle
  <2> QED
    BY <1>1, <1>3, <2>1 DEF TypeOK, timers
<1>5. Shape'
  BY <1>1 DEF StopInv, Shape, timers
<1>6. OnlyWhenTold'
  BY <1>1, <1>2 DEF StopInv, OnlyWhenTold, timers
<1>7. Waited'
  <2>1. ASSUME NEW x \in Handlers, Past(<<"wait", x>>)' PROVE handler'[x] = "finished"
    BY <1>2, <1>3, <2>1 DEF StopInv, Waited
  <2>2. \A t \in Timers : Past(<<"wait", t>>)' => timer'[t] = "finished"
    BY <1>1, <1>2 DEF StopInv, Waited, timers
  <2> QED
    BY <2>1, <2>2 DEF Waited
<1>8. HandedOverIsRun'
  <2>1. DOMAIN queue[h] = {}
    BY <1>1
  <2> QED
    BY <1>1, <1>3, <2>1 DEF StopInv, HandedOverIsRun
<1>9. LastCallSaves'
  BY <1>1 DEF StopInv, LastCallSaves, timers
<1> QED
  BY <1>4, <1>5, <1>6, <1>7, <1>8, <1>9 DEF StopInv

LEMMA HandlerStepKeeps == ASSUME StopInv, NEW h \in Handlers, HandlerStep(h) PROVE StopInv'
  BY ResumeKeeps, RunTaskKeeps, MeetNullKeeps, DrainedKeeps DEF HandlerStep

----------------------------------------------------------------------------
(* The timers.                                                             *)

\* A timer ends when it was told to, and then has just saved; one that has
\* ended does not come back.
LEMMA WakeUpKeeps == ASSUME StopInv, NEW t \in Timers, WakeUp(t) PROVE StopInv'
<1>1. /\ TypeOK /\ main' = main /\ timer[t] = "waiting" /\ events' = events \ {t}
      /\ UNCHANGED <<running, handlers, stopping, paused, pushed>>
  BY DEF StopInv, WakeUp
<1>2. ASSUME NEW step PROVE Past(step)' <=> Past(step)
  BY <1>1, PastKept
<1>3. \/ t \in stopping /\ Finish(t)
      \/ UNCHANGED <<timer, unsaved>>
      \/ Callback(t)
  BY DEF WakeUp
<1>4. unsaved' \subseteq unsaved
  BY <1>3 DEF Finish, Callback
<1>5. /\ timer' \in [Timers -> {"waiting", "busy", "finished"}]
      /\ \A x \in Timers : x # t => timer'[x] = timer[x]
      /\ timer'[t] = "busy" => t \in Yields
      /\ timer'[t] = "finished" => t \in stopping /\ (t \in LastCallOnStop => t \notin unsaved')
  <2>1. timer \in [Timers -> {"waiting", "busy", "finished"}]
    BY DEF StopInv, Shape
  <2>2. CASE t \in stopping /\ Finish(t)
    BY <2>1, <2>2 DEF Finish
  <2>3. CASE UNCHANGED <<timer, unsaved>>
    BY <1>1, <2>1, <2>3
  <2>4. CASE Callback(t)
    BY <1>1, <2>1, <2>4 DEF Callback
  <2> QED
    BY <1>3, <2>2, <2>3, <2>4
<1>6. TypeOK'
  BY <1>1, <1>4, <1>5 DEF TypeOK, handlers
<1>7. Shape'
  BY <1>1, <1>5 DEF StopInv, Shape, handlers
<1>8. OnlyWhenTold'
  BY <1>1, <1>2 DEF StopInv, OnlyWhenTold, handlers
<1>9. Waited'
  <2>1. ASSUME NEW x \in Timers, Past(<<"wait", x>>)' PROVE timer'[x] = "finished"
    BY <1>1, <1>2, <1>5, <2>1 DEF StopInv, Waited
  <2>2. \A h \in Handlers : Past(<<"wait", h>>)' => handler'[h] = "finished"
    BY <1>1, <1>2 DEF StopInv, Waited, handlers
  <2> QED
    BY <2>1, <2>2 DEF Waited
<1>10. HandedOverIsRun'
  BY <1>1 DEF StopInv, HandedOverIsRun, handlers
<1>11. LastCallSaves'
  <2> SUFFICES ASSUME NEW x \in LastCallOnStop, timer'[x] = "finished"
               PROVE  x \notin unsaved'
    BY DEF LastCallSaves
  <2>1. x \in Timers
    BY DEF Timers
  <2> QED
    BY <1>4, <1>5, <2>1 DEF StopInv, LastCallSaves
<1> QED
  BY <1>6, <1>7, <1>8, <1>9, <1>10, <1>11 DEF StopInv

LEMMA CallbackReturnsKeeps == ASSUME StopInv, NEW t \in Timers, CallbackReturns(t) PROVE StopInv'
<1>1. /\ TypeOK /\ main' = main /\ timer[t] = "busy" /\ timer' = [timer EXCEPT ![t] = "waiting"]
      /\ UNCHANGED <<running, handlers, stopping, events, paused, pushed>>
  BY DEF StopInv, CallbackReturns
<1>2. ASSUME NEW step PROVE Past(step)' <=> Past(step)
  BY <1>1, PastKept
<1>3. unsaved' \subseteq unsaved
  BY DEF CallbackReturns
<1>4. \A x \in Timers : timer'[x] = IF x = t THEN "waiting" ELSE timer[x]
  BY <1>1 DEF StopInv, Shape
<1>5. TypeOK'
  BY <1>1, <1>3, <1>4 DEF TypeOK, handlers
<1>6. Shape'
  BY <1>1 DEF StopInv, Shape, handlers
<1>7. OnlyWhenTold'
  BY <1>1, <1>2 DEF StopInv, OnlyWhenTold, handlers
<1>8. Waited'
  <2>1. ASSUME NEW x \in Timers, Past(<<"wait", x>>)' PROVE timer'[x] = "finished"
    BY <1>1, <1>2, <1>4, <2>1 DEF StopInv, Waited
  <2>2. \A h \in Handlers : Past(<<"wait", h>>)' => handler'[h] = "finished"
    BY <1>1, <1>2 DEF StopInv, Waited, handlers
  <2> QED
    BY <2>1, <2>2 DEF Waited
<1>9. HandedOverIsRun'
  BY <1>1 DEF StopInv, HandedOverIsRun, handlers
<1>10. LastCallSaves'
  <2>1. LastCallOnStop \subseteq Timers
    BY DEF Timers
  <2> QED
    BY <1>3, <1>4, <2>1 DEF StopInv, LastCallSaves
<1> QED
  BY <1>5, <1>6, <1>7, <1>8, <1>9, <1>10 DEF StopInv

LEMMA TimerStepKeeps == ASSUME StopInv, NEW t \in Timers, TimerStep(t) PROVE StopInv'
  BY WakeUpKeeps, CallbackReturnsKeeps DEF TimerStep

----------------------------------------------------------------------------
(* What is proved.                                                         *)

LEMMA StopNext == StopInv /\ [Next]_vars => StopInv'
<1> SUFFICES ASSUME StopInv, [Next]_vars PROVE StopInv'
  OBVIOUS
<1>1. CASE Interrupt
  BY <1>1, InterruptKeeps
<1>2. CASE StopStep
  BY <1>2, StopStepKeeps
<1>3. CASE PushStep
  BY <1>3, PushStepKeeps
<1>4. CASE \E h \in Handlers : HandlerStep(h)
  BY <1>4, HandlerStepKeeps
<1>5. CASE \E t \in Timers : TimerStep(t)
  BY <1>5, TimerStepKeeps
<1>6. CASE UNCHANGED vars
  <2>1. ASSUME NEW step PROVE Past(step)' <=> Past(step)
    BY <1>6, PastKept DEF vars
  <2>2. (TypeOK /\ Shape /\ HandedOverIsRun /\ LastCallSaves)'
    BY <1>6 DEF StopInv, TypeOK, Shape, HandedOverIsRun, LastCallSaves, vars, handlers, timers
  <2>3. OnlyWhenTold'
    BY <1>6, <2>1 DEF StopInv, OnlyWhenTold, vars, handlers, timers
  <2>4. Waited'
    BY <1>6, <2>1 DEF StopInv, Waited, vars, handlers, timers
  <2> QED
    BY <2>2, <2>3, <2>4 DEF StopInv
<1> QED
  BY <1>1, <1>2, <1>3, <1>4, <1>5, <1>6 DEF Next

\* A timer that saves and is waited for has saved what there was.
LEMMA StopInvImplies == StopInv => NothingCutShort /\ CleanStopSaves
<1> SUFFICES ASSUME StopInv PROVE NothingCutShort /\ CleanStopSaves
  OBVIOUS
<1>1. ASSUME Down, NEW x \in Handlers \cup Timers PROVE Past(<<"wait", x>>)
  BY <1>1, QuitIsLast DEF StopInv
<1>2. NothingCutShort
  BY <1>1 DEF NothingCutShort, StopInv, Waited
<1>3. LastCallOnStop \subseteq Timers
  BY DEF Timers
<1>4. CleanStopSaves
  BY <1>1, <1>3 DEF CleanStopSaves, StopInv, Waited, LastCallSaves
<1> QED
  BY <1>2, <1>4

\* The inductive invariant: what the order of the stop calls guarantees at every
\* point of a stop (PoolBackend::stop, TaskHandlerCoroutine::stop, CPeriodicTimer).
THEOREM StopInvHolds == Spec => []StopInv
  BY StopInit, StopNext, PTL DEF Spec

\* A handler and a timer end only when they were told to, the callbacks that wait
\* are those that ask the node, and the thread is in one coroutine at a time.
THEOREM TypeCorrect == Spec => []TypeOK
<1>1. StopInv => TypeOK
  BY DEF StopInv
<1> QED
  BY <1>1, StopInvHolds, PTL

\* However many tasks there are, and however the threads interleave, the stopping
\* thread gets past no coroutine in the middle of something and quits last.
THEOREM NothingCutShortHolds == Spec => []NothingCutShort
  BY StopInvHolds, StopInvImplies, PTL

\* Every task of HTTP and worker threads is run before its handler ends, because
\* they are joined before the null task goes into the queue.
THEOREM HandedOverIsRunHolds == Spec => []HandedOverIsRun
<1>1. StopInv => HandedOverIsRun
  BY DEF StopInv
<1> QED
  BY <1>1, StopInvHolds, PTL

\* A clean stop writes all work, because PoolBackend waits for its own handler
\* before AccountingDb and StatisticDb stop the timers that save.
THEOREM CleanStopSavesHolds == Spec => []CleanStopSaves
  BY StopInvHolds, StopInvImplies, PTL
=============================================================================
