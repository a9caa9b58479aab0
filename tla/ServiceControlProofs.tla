------------------------ MODULE ServiceControlProofs ------------------------
EXTENDS ServiceControl, TLAPS

Apcs == {"beat", "wake", "exit", "empty"}

(* The queue of APCs, and the states still to be reported. *)
LEMMA QueueGrows == \A q \in Seq(Apcs), a \in Apcs : Append(q, a) \in Seq(Apcs)
  OBVIOUS

LEMMA QueueEmpty == << >> \in Seq(Apcs)
  OBVIOUS

LEMMA QueueShrinks ==
  \A q \in Seq(Apcs) : q # << >> => Head(q) \in Apcs /\ Tail(q) \in Seq(Apcs)
  OBVIOUS

Todos == {<< >>, <<"pause_pending", "paused">>, <<"paused">>, <<"continue_pending", "running">>,
          <<"running">>, <<"stop_pending">>}

LEMMA TodoShrinks ==
  ASSUME NEW t \in Todos, t # << >> PROVE Head(t) \in States /\ Tail(t) \in Todos
<1>1. \A a, b : Head(<<a, b>>) = a /\ Tail(<<a, b>>) = <<b>>
  OBVIOUS
<1>2. \A a : Head(<<a>>) = a /\ Tail(<<a>>) = << >>
  OBVIOUS
<1>3. Tail(t) \in Todos
  BY <1>1, <1>2, Zenon DEF Todos
<1>4. CASE t = <<"pause_pending", "paused">> \/ t = <<"continue_pending", "running">>
  BY <1>1, <1>3, <1>4 DEF States
<1>5. CASE t \in {<<"paused">>, <<"running">>, <<"stop_pending">>}
  BY <1>2, <1>3, <1>5 DEF States
<1> QED
  BY <1>4, <1>5 DEF Todos

Types == TypeStatus /\ TypeSleepers /\ TypeWorkers /\ TypeTimer /\ TypeProcess /\ TypeStart

(* What a step leaves alone keeps its type. *)
LEMMA Kept ==
  /\ TypeStatus /\ UNCHANGED <<scm, main, handler>> => TypeStatus'
  /\ TypeSleepers /\ UNCHANGED sleeper => TypeSleepers'
  /\ TypeWorkers /\ UNCHANGED worker => TypeWorkers'
  /\ TypeTimer /\ UNCHANGED <<timer, slot>> => TypeTimer'
  /\ TypeProcess /\ UNCHANGED <<process, inputs, faults, trouble>> => TypeProcess'
  /\ TypeStart /\ UNCHANGED <<main, sleeper, timer>> => TypeStart'
<1>1. TypeStatus /\ UNCHANGED <<scm, main, handler>> => TypeStatus'
  BY DEF TypeStatus, scm, main, handler
<1>2. TypeSleepers /\ UNCHANGED sleeper => TypeSleepers'
  BY DEF TypeSleepers, sleeper
<1>3. TypeWorkers /\ UNCHANGED worker => TypeWorkers'
  BY DEF TypeWorkers, worker
<1>4. TypeTimer /\ UNCHANGED <<timer, slot>> => TypeTimer'
  BY DEF TypeTimer, timer
<1>5. TypeProcess /\ UNCHANGED <<process, inputs, faults, trouble>> => TypeProcess'
  BY DEF TypeProcess, process
<1>6. TypeStart /\ UNCHANGED <<main, sleeper, timer>> => TypeStart'
  BY DEF TypeStart, main, sleeper, timer
<1> QED
  BY <1>1, <1>2, <1>3, <1>4, <1>5, <1>6

LEMMA FaultCounted ==
  ASSUME TypeProcess, NEW b \in BOOLEAN, Fault(b) PROVE faults' \in 0..MaxFaults
  BY BoundsAssumption DEF Fault, TypeProcess

(* Every step keeps the types. *)
LEMMA TypeStep == TypeOK /\ [Next]_vars => TypeOK'
<1> SUFFICES ASSUME Types PROVE Step \/ UNCHANGED vars => Types'
  BY DEF TypeOK, Types, Next, vars
<1>1. ASSUME NEW ok \in BOOLEAN, InitService(ok) PROVE Types'
  <2>1. TypeStatus'
    BY <1>1 DEF InitService, States, TypeStatus, Types, scm, main, handler
  <2>2. TypeProcess'
    <3>1. trouble' \subseteq Troubles
      BY <1>1 DEF InitService, Named, Types, TypeProcess, Troubles
    <3>2. faults' \in 0..MaxFaults
      BY <1>1, FaultCounted DEF InitService, Types
    <3> QED
      BY <1>1, <3>1, <3>2 DEF InitService, Types, TypeProcess, process
  <2>3. TypeStart'
    BY <1>1 DEF InitService, Types, TypeStart, main, sleeper, timer
  <2>4. TypeSleepers' /\ TypeWorkers' /\ TypeTimer'
    BY <1>1, Kept DEF InitService, Types
  <2> QED
    BY <2>1, <2>2, <2>3, <2>4 DEF Types
<1>2. ASSUME NEW ok \in BOOLEAN, CreateEvent(ok) PROVE Types'
  <2>1. TypeStatus'
    BY <1>2 DEF CreateEvent, States, TypeStatus, Types, scm, main, handler
  <2>2. TypeProcess'
    <3>1. trouble' \subseteq Troubles
      BY <1>2 DEF CreateEvent, Named, Types, TypeProcess, Troubles
    <3>2. faults' \in 0..MaxFaults
      BY <1>2, FaultCounted DEF CreateEvent, Types
    <3> QED
      BY <1>2, <3>1, <3>2 DEF CreateEvent, Types, TypeProcess, process
  <2>3. TypeStart'
    BY <1>2 DEF CreateEvent, Types, TypeStart, main, sleeper, timer
  <2>4. TypeSleepers' /\ TypeWorkers' /\ TypeTimer'
    BY <1>2, Kept DEF CreateEvent, Types
  <2> QED
    BY <2>1, <2>2, <2>3, <2>4 DEF Types
<1>3. ASSUME NEW ok \in BOOLEAN, StartProcess(ok) PROVE Types'
  <2>1. TypeStatus'
    BY <1>3 DEF StartProcess, TypeStatus, Types, scm, main, handler
  <2>2. TypeProcess'
    <3>1. trouble' \subseteq Troubles
      BY <1>3 DEF StartProcess, Types, TypeProcess, Troubles
    <3>2. faults' \in 0..MaxFaults
      BY <1>3, FaultCounted DEF StartProcess, Types
    <3> QED
      BY <1>3, <3>1, <3>2 DEF StartProcess, Types, TypeProcess, process
  <2>3. TypeStart'
    BY <1>3 DEF StartProcess, Types, TypeStart, main, sleeper, timer
  <2>4. TypeSleepers' /\ TypeWorkers' /\ TypeTimer'
    BY <1>3, Kept DEF StartProcess, Types
  <2> QED
    BY <2>1, <2>2, <2>3, <2>4 DEF Types
<1>4. ASSUME NEW ok \in BOOLEAN, ResetIpAddress(ok) PROVE Types'
  <2>1. TypeStatus'
    BY <1>4 DEF ResetIpAddress, TypeStatus, Types, scm, main, handler
  <2>2. TypeProcess'
    <3>1. trouble' \subseteq Troubles
      BY <1>4 DEF ResetIpAddress, Named, Types, TypeProcess, Troubles
    <3>2. faults' \in 0..MaxFaults
      BY <1>4, FaultCounted DEF ResetIpAddress, Types
    <3> QED
      BY <1>4, <3>1, <3>2 DEF ResetIpAddress, Types, TypeProcess, process
  <2>3. TypeStart'
    BY <1>4 DEF ResetIpAddress, Types, TypeStart, main, sleeper, timer
  <2>4. TypeSleepers' /\ TypeWorkers' /\ TypeTimer'
    BY <1>4, Kept DEF ResetIpAddress, Types
  <2> QED
    BY <2>1, <2>2, <2>3, <2>4 DEF Types
<1>5. ASSUME NEW ok \in BOOLEAN, CreateTimerThread(ok) PROVE Types'
  <2>1. TypeStatus'
    BY <1>5 DEF CreateTimerThread, TypeStatus, Types, scm, main, handler
  <2>2. TypeTimer'
    <3>1. htimer' \in BOOLEAN /\ texit' \in BOOLEAN
      BY <1>5 DEF CreateTimerThread
    <3>2. tpc' = tpc \/ (tpc' = "start" /\ tpost = "none")
      BY <1>5 DEF CreateTimerThread, Types, TypeTimer, TypeStart
    <3> QED
      BY <1>5, <3>1, <3>2 DEF CreateTimerThread, Types, TypeTimer
  <2>3. TypeProcess'
    <3>1. trouble' \subseteq Troubles
      BY <1>5 DEF CreateTimerThread, Types, TypeProcess, Troubles
    <3>2. faults' \in 0..MaxFaults
      BY <1>5, FaultCounted DEF CreateTimerThread, Types
    <3> QED
      BY <1>5, <3>1, <3>2 DEF CreateTimerThread, Types, TypeProcess, process
  <2>4. TypeStart'
    BY <1>5 DEF CreateTimerThread, Types, TypeStart, main, sleeper, timer
  <2>5. TypeSleepers' /\ TypeWorkers'
    BY <1>5, Kept DEF CreateTimerThread, Types
  <2> QED
    BY <2>1, <2>2, <2>3, <2>4, <2>5 DEF Types
<1>6. ASSUME NEW ok \in BOOLEAN, InitSleepThread(ok) PROVE Types'
  <2>1. TypeStatus'
    BY <1>6 DEF InitSleepThread, TypeStatus, Types, scm, main, handler
  <2>2. TypeSleepers'
    BY <1>6 DEF InitSleepThread, CreateSleepThread, Create, TypeSleepers, Types, sleeper
  <2>3. TypeProcess'
    <3>1. trouble' \subseteq Troubles
      BY <1>6 DEF InitSleepThread, Types, TypeProcess, Troubles
    <3>2. faults' \in 0..MaxFaults
      BY <1>6, FaultCounted DEF InitSleepThread, Types
    <3> QED
      BY <1>6, <3>1, <3>2 DEF InitSleepThread, Types, TypeProcess, process
  <2>4. TypeStart'
    BY <1>6
    DEF InitSleepThread, CreateSleepThread, Create, Types, TypeStart, main, sleeper, timer,
        TypeSleepers
  <2>5. TypeWorkers' /\ TypeTimer'
    BY <1>6, Kept DEF InitSleepThread, Types
  <2> QED
    BY <2>1, <2>2, <2>3, <2>4, <2>5 DEF Types
<1>7. ASSUME NEW ok \in BOOLEAN, InitWorkerThread(ok) PROVE Types'
  <2>1. TypeStatus'
    BY <1>7 DEF InitWorkerThread, TypeStatus, Types, scm, main, handler
  <2>2. TypeWorkers'
    BY <1>7 DEF InitWorkerThread, CreateWorkerThread, Create, TypeWorkers, Types, worker
  <2>3. TypeProcess'
    <3>1. trouble' \subseteq Troubles
      BY <1>7 DEF InitWorkerThread, Named, Types, TypeProcess, Troubles
    <3>2. faults' \in 0..MaxFaults
      BY <1>7, FaultCounted DEF InitWorkerThread, Types
    <3> QED
      BY <1>7, <3>1, <3>2 DEF InitWorkerThread, Types, TypeProcess, process
  <2>4. TypeStart'
    BY <1>7 DEF InitWorkerThread, Types, TypeStart, main, sleeper, timer
  <2>5. TypeSleepers' /\ TypeTimer'
    BY <1>7, Kept DEF InitWorkerThread, Types
  <2> QED
    BY <2>1, <2>2, <2>3, <2>4, <2>5 DEF Types
<1>8. ASSUME LoopServiceReport PROVE Types'
  <2>1. TypeStatus'
    BY <1>8 DEF LoopServiceReport, Report, States, TypeStatus, Types, scm, main, handler
  <2>2. TypeStart'
    BY <1>8 DEF LoopServiceReport, Types, TypeStart, main, sleeper, timer
  <2>3. TypeSleepers' /\ TypeWorkers' /\ TypeTimer' /\ TypeProcess'
    BY <1>8, Kept DEF LoopServiceReport, Types
  <2> QED
    BY <2>1, <2>2, <2>3 DEF Types
<1>9. ASSUME LoopServiceStore PROVE Types'
  <2>1. TypeStatus'
    BY <1>9 DEF LoopServiceStore, States, TypeStatus, Types, scm, main, handler
  <2>2. TypeStart'
    BY <1>9 DEF LoopServiceStore, Types, TypeStart, main, sleeper, timer
  <2>3. TypeSleepers' /\ TypeWorkers' /\ TypeTimer' /\ TypeProcess'
    BY <1>9, Kept DEF LoopServiceStore, Types
  <2> QED
    BY <2>1, <2>2, <2>3 DEF Types
<1>10. ASSUME LoopServiceWait PROVE Types'
  <2>1. TypeStatus'
    BY <1>10 DEF LoopServiceWait, TypeStatus, Types, scm, main, handler
  <2>2. TypeStart'
    BY <1>10 DEF LoopServiceWait, Types, TypeStart, main, sleeper, timer
  <2>3. TypeSleepers' /\ TypeWorkers' /\ TypeTimer' /\ TypeProcess'
    BY <1>10, Kept DEF LoopServiceWait, Types
  <2> QED
    BY <2>1, <2>2, <2>3 DEF Types
<1>11. ASSUME StopSleepThread PROVE Types'
  <2>1. TypeStatus'
    BY <1>11 DEF StopSleepThread, TypeStatus, Types, scm, main, handler
  <2>2. TypeSleepers'
    BY <1>11 DEF StopSleepThread, Terminated, TypeSleepers, Types, sleeper
  <2>3. TypeTimer'
    BY <1>11, QueueGrows DEF StopSleepThread, Apcs, TypeTimer, Types, timer
  <2>4. TypeStart'
    BY <1>11
    DEF StopSleepThread, Terminated, Alive, Types, TypeStart, main, sleeper, timer,
        TypeSleepers
  <2>5. TypeWorkers' /\ TypeProcess'
    BY <1>11, Kept DEF StopSleepThread, Types
  <2> QED
    BY <2>1, <2>2, <2>3, <2>4, <2>5 DEF Types
<1>12. ASSUME StopTimerThread PROVE Types'
  <2>1. TypeStatus'
    BY <1>12 DEF StopTimerThread, TypeStatus, Types, scm, main, handler
  <2>2. TypeTimer'
    BY <1>12, QueueGrows DEF StopTimerThread, Apcs, TypeTimer, Types, timer
  <2>3. TypeStart'
    BY <1>12 DEF StopTimerThread, Types, TypeStart, main, sleeper, timer
  <2>4. TypeSleepers' /\ TypeWorkers' /\ TypeProcess'
    BY <1>12, Kept DEF StopTimerThread, Types
  <2> QED
    BY <2>1, <2>2, <2>3, <2>4 DEF Types
<1>13. ASSUME StopWorkerThread PROVE Types'
  <2>1. TypeStatus'
    BY <1>13 DEF StopWorkerThread, TypeStatus, Types, scm, main, handler
  <2>2. TypeWorkers'
    BY <1>13 DEF StopWorkerThread, TypeWorkers, Types, worker
  <2>3. TypeStart'
    BY <1>13 DEF StopWorkerThread, Types, TypeStart, main, sleeper, timer
  <2>4. TypeSleepers' /\ TypeTimer' /\ TypeProcess'
    BY <1>13, Kept DEF StopWorkerThread, Types
  <2> QED
    BY <2>1, <2>2, <2>3, <2>4 DEF Types
<1>14. ASSUME CloseThreads PROVE Types'
  <2>1. TypeStatus'
    BY <1>14 DEF CloseThreads, TypeStatus, Types, scm, main, handler
  <2>2. TypeSleepers'
    BY <1>14 DEF CloseThreads, TypeSleepers, Types, sleeper
  <2>3. TypeWorkers'
    BY <1>14 DEF CloseThreads, TypeWorkers, Types, worker
  <2>4. TypeTimer'
    BY <1>14 DEF CloseThreads, TypeTimer, Types, timer
  <2>5. TypeStart'
    BY <1>14 DEF CloseThreads, Types, TypeStart, main, sleeper, timer,
        TypeSleepers
  <2>6. TypeProcess'
    BY <1>14, Kept DEF CloseThreads, Types
  <2> QED
    BY <2>1, <2>2, <2>3, <2>4, <2>5, <2>6 DEF Types
<1>15. ASSUME NEW ok \in BOOLEAN, StopProcess(ok) PROVE Types'
  <2>1. TypeStatus'
    BY <1>15 DEF StopProcess, TypeStatus, Types, scm, main, handler
  <2>2. TypeProcess'
    <3>1. trouble' \subseteq Troubles
      BY <1>15 DEF StopProcess, Named, Types, TypeProcess, Troubles
    <3>2. faults' \in 0..MaxFaults
      BY <1>15, FaultCounted DEF StopProcess, Types
    <3> QED
      BY <1>15, <3>1, <3>2 DEF StopProcess, Types, TypeProcess, process
  <2>3. TypeStart'
    BY <1>15 DEF StopProcess, Types, TypeStart, main, sleeper, timer
  <2>4. TypeSleepers' /\ TypeWorkers' /\ TypeTimer'
    BY <1>15, Kept DEF StopProcess, Types
  <2> QED
    BY <2>1, <2>2, <2>3, <2>4 DEF Types
<1>16. ASSUME StopServiceReport PROVE Types'
  <2>1. TypeStatus'
    BY <1>16 DEF StopServiceReport, Report, States, TypeStatus, Types, scm, main, handler
  <2>2. TypeStart'
    BY <1>16 DEF StopServiceReport, Types, TypeStart, main, sleeper, timer
  <2>3. TypeSleepers' /\ TypeWorkers' /\ TypeTimer' /\ TypeProcess'
    BY <1>16, Kept DEF StopServiceReport, Types
  <2> QED
    BY <2>1, <2>2, <2>3 DEF Types
<1>17. ASSUME StopServiceStore PROVE Types'
  <2>1. TypeStatus'
    BY <1>17 DEF StopServiceStore, States, TypeStatus, Types, scm, main, handler
  <2>2. TypeStart'
    BY <1>17 DEF StopServiceStore, Types, TypeStart, main, sleeper, timer
  <2>3. TypeSleepers' /\ TypeWorkers' /\ TypeTimer' /\ TypeProcess'
    BY <1>17, Kept DEF StopServiceStore, Types
  <2> QED
    BY <2>1, <2>2, <2>3 DEF Types
<1>18. ASSUME NEW c \in Controls, Control(c) PROVE Types'
  <2>1. TypeStatus'
    BY <1>18 DEF Control, Reports, Controls, TypeStatus, Types, scm, main, handler
  <2>2. TypeProcess'
    BY <1>18, BoundsAssumption DEF Control, TypeProcess, Types, process
  <2>3. TypeStart'
    BY <1>18 DEF Control, Types, TypeStart, main, sleeper, timer
  <2>4. TypeSleepers' /\ TypeWorkers' /\ TypeTimer'
    BY <1>18, Kept DEF Control, Types
  <2> QED
    BY <2>1, <2>2, <2>3, <2>4 DEF Types
<1>19. ASSUME HandlerReport PROVE Types'
  <2>1. TypeStatus'
    BY <1>19, TodoShrinks
    DEF HandlerReport, Report, States, Todos, TypeStatus, Types, scm, main, handler
  <2>2. TypeSleepers' /\ TypeWorkers' /\ TypeTimer' /\ TypeProcess' /\ TypeStart'
    BY <1>19, Kept DEF HandlerReport, Types
  <2> QED
    BY <2>1, <2>2 DEF Types
<1>20. ASSUME HandlerStore PROVE Types'
  <2>1. TypeStatus'
    <3>1. status' \in States
      BY <1>20 DEF HandlerStore, Types, TypeStatus
    <3> QED
      BY <1>20, <3>1 DEF HandlerStore, Types, TypeStatus, main, handler
  <2>2. TypeSleepers' /\ TypeWorkers' /\ TypeTimer' /\ TypeProcess' /\ TypeStart'
    BY <1>20, Kept DEF HandlerStore, Types
  <2> QED
    BY <2>1, <2>2 DEF Types
<1>21. ASSUME NEW i \in Threads, SleepStart(i) PROVE Types'
  <2>1. TypeSleepers'
    BY <1>21 DEF SleepStart, Goto, TypeSleepers, Types, sleeper
  <2>2. TypeStart'
    BY <1>21 DEF SleepStart, Goto, Types, TypeStart, main, sleeper, timer,
        TypeSleepers
  <2>3. TypeStatus' /\ TypeWorkers' /\ TypeTimer' /\ TypeProcess'
    BY <1>21, Kept DEF SleepStart, Types
  <2> QED
    BY <2>1, <2>2, <2>3 DEF Types
<1>22. ASSUME NEW i \in Threads, SleepTest(i) PROVE Types'
  <2>1. TypeSleepers'
    BY <1>22 DEF SleepTest, Goto, TypeSleepers, Types, sleeper
  <2>2. TypeStart'
    BY <1>22 DEF SleepTest, Goto, Types, TypeStart, main, sleeper, timer,
        TypeSleepers
  <2>3. TypeStatus' /\ TypeWorkers' /\ TypeTimer' /\ TypeProcess'
    BY <1>22, Kept DEF SleepTest, Types
  <2> QED
    BY <2>1, <2>2, <2>3 DEF Types
<1>23. ASSUME NEW i \in Threads, SleepWait(i) PROVE Types'
  <2>1. TypeSleepers'
    BY <1>23 DEF SleepWait, Goto, TypeSleepers, Types, sleeper
  <2>2. TypeTimer'
    BY <1>23 DEF SleepWait, TypeTimer, Types, timer
  <2>3. TypeStart'
    BY <1>23 DEF SleepWait, Goto, Types, TypeStart, main, sleeper, timer,
        TypeSleepers
  <2>4. TypeStatus' /\ TypeWorkers' /\ TypeProcess'
    BY <1>23, Kept DEF SleepWait, Types
  <2> QED
    BY <2>1, <2>2, <2>3, <2>4 DEF Types
<1>24. ASSUME NEW i \in Threads, SleepCheck(i) PROVE Types'
  <2>1. TypeSleepers'
    BY <1>24 DEF SleepCheck, Goto, TypeSleepers, Types, sleeper
  <2>2. TypeStart'
    BY <1>24 DEF SleepCheck, Goto, Types, TypeStart, main, sleeper, timer,
        TypeSleepers
  <2>3. TypeStatus' /\ TypeWorkers' /\ TypeTimer' /\ TypeProcess'
    BY <1>24, Kept DEF SleepCheck, Types
  <2> QED
    BY <2>1, <2>2, <2>3 DEF Types
<1>25. ASSUME NEW i \in Threads, SleepPause(i) PROVE Types'
  <2>1. TypeStatus'
    <3>1. status' \in States
      BY <1>25 DEF SleepPause, Types, TypeStatus, States
    <3> QED
      BY <1>25, <3>1 DEF SleepPause, Types, TypeStatus, main, handler
  <2>2. TypeSleepers'
    BY <1>25 DEF SleepPause, Goto, TypeSleepers, Types, sleeper
  <2>3. TypeStart'
    BY <1>25 DEF SleepPause, Goto, Types, TypeStart, main, sleeper, timer,
        TypeSleepers
  <2>4. TypeWorkers' /\ TypeTimer' /\ TypeProcess'
    BY <1>25, Kept DEF SleepPause, Types
  <2> QED
    BY <2>1, <2>2, <2>3, <2>4 DEF Types
<1>26. ASSUME NEW i \in Threads, SleepResume(i) PROVE Types'
  <2>1. TypeStatus'
    <3>1. status' \in States
      BY <1>26 DEF SleepResume, Types, TypeStatus, States
    <3> QED
      BY <1>26, <3>1 DEF SleepResume, Types, TypeStatus, main, handler
  <2>2. TypeSleepers'
    BY <1>26 DEF SleepResume, Goto, TypeSleepers, Types, sleeper
  <2>3. TypeStart'
    BY <1>26 DEF SleepResume, Goto, Types, TypeStart, main, sleeper, timer,
        TypeSleepers
  <2>4. TypeWorkers' /\ TypeTimer' /\ TypeProcess'
    BY <1>26, Kept DEF SleepResume, Types
  <2> QED
    BY <2>1, <2>2, <2>3, <2>4 DEF Types
<1>27. ASSUME NEW i \in Threads, WorkerEnds(i) PROVE Types'
  <2>1. TypeWorkers'
    BY <1>27 DEF WorkerEnds, TypeWorkers, Types, worker
  <2>2. TypeStatus' /\ TypeSleepers' /\ TypeTimer' /\ TypeProcess' /\ TypeStart'
    BY <1>27, Kept DEF WorkerEnds, Types
  <2> QED
    BY <2>1, <2>2 DEF Types
<1>28. ASSUME PostOther PROVE Types'
  <2>1. TypeTimer'
    BY <1>28 DEF PostOther, TypeTimer, Types, timer
  <2>2. TypeProcess'
    BY <1>28, BoundsAssumption DEF PostOther, TypeProcess, Types, process
  <2>3. TypeStart'
    BY <1>28 DEF PostOther, Types, TypeStart, main, sleeper, timer
  <2>4. TypeStatus' /\ TypeSleepers' /\ TypeWorkers'
    BY <1>28, Kept DEF PostOther, Types
  <2> QED
    BY <2>1, <2>2, <2>3, <2>4 DEF Types
<1>29. ASSUME NEW ok \in BOOLEAN, TimerStart(ok) PROVE Types'
  <2>1. TypeTimer'
    BY <1>29 DEF TimerStart, TypeTimer, Types, timer
  <2>2. TypeProcess'
    <3>1. trouble' \subseteq Troubles
      BY <1>29 DEF TimerStart, Named, Types, TypeProcess, Troubles
    <3>2. faults' \in 0..MaxFaults
      BY <1>29, FaultCounted DEF TimerStart, Types
    <3> QED
      BY <1>29, <3>1, <3>2 DEF TimerStart, Types, TypeProcess, process
  <2>3. TypeStart'
    BY <1>29 DEF TimerStart, Types, TypeStart, main, sleeper, timer
  <2>4. TypeStatus' /\ TypeSleepers' /\ TypeWorkers'
    BY <1>29, Kept DEF TimerStart, Types
  <2> QED
    BY <2>1, <2>2, <2>3, <2>4 DEF Types
<1>30. ASSUME TimerTest PROVE Types'
  <2>1. TypeTimer'
    BY <1>30 DEF TimerTest, TypeTimer, Types, timer
  <2>2. TypeProcess'
    <3>1. trouble' \subseteq Troubles
      BY <1>30 DEF TimerTest, Named, Types, TypeProcess, Troubles
    <3> QED
      BY <1>30, <3>1 DEF TimerTest, Types, TypeProcess, process
  <2>3. TypeStart'
    BY <1>30 DEF TimerTest, Types, TypeStart, main, sleeper, timer
  <2>4. TypeStatus' /\ TypeSleepers' /\ TypeWorkers'
    BY <1>30, Kept DEF TimerTest, Types
  <2> QED
    BY <2>1, <2>2, <2>3, <2>4 DEF Types
<1>31. ASSUME TimerBeat PROVE Types'
  <2>1. TypeTimer'
    <3>0. beats < MaxBeats /\ beats' = beats + 1
      BY <1>31 DEF TimerBeat
    <3>3. beats \in 0..MaxBeats
      BY DEF Types, TypeTimer
    <3>1. beats' \in 0..MaxBeats
      BY <3>0, <3>3, BoundsAssumption
    <3>2. apcs' \in Seq(Apcs)
      BY <1>31, QueueGrows DEF TimerBeat, Types, TypeTimer, Apcs
    <3> QED
      BY <1>31, <3>1, <3>2 DEF TimerBeat, Types, TypeTimer, Apcs
  <2>2. TypeStart'
    BY <1>31 DEF TimerBeat, Types, TypeStart, main, sleeper, timer
  <2>3. TypeStatus' /\ TypeSleepers' /\ TypeWorkers' /\ TypeProcess'
    BY <1>31, Kept DEF TimerBeat, Types
  <2> QED
    BY <2>1, <2>2, <2>3 DEF Types
<1>32. ASSUME TimerRun PROVE Types'
  <2>1. TypeTimer'
    BY <1>32, QueueShrinks DEF TimerRun, Apcs, TypeTimer, Types, timer
  <2>2. TypeStart'
    BY <1>32 DEF TimerRun, Types, TypeStart, main, sleeper, timer
  <2>3. TypeStatus' /\ TypeSleepers' /\ TypeWorkers' /\ TypeProcess'
    BY <1>32, Kept DEF TimerRun, Types
  <2> QED
    BY <2>1, <2>2, <2>3 DEF Types
<1>33. ASSUME TimerPost PROVE Types'
  <2>1. TypeTimer'
    BY <1>33 DEF TimerPost, TypeTimer, Types, timer
  <2>2. TypeStart'
    BY <1>33 DEF TimerPost, Types, TypeStart, main, sleeper, timer
  <2>3. TypeStatus' /\ TypeSleepers' /\ TypeWorkers' /\ TypeProcess'
    BY <1>33, Kept DEF TimerPost, Types
  <2> QED
    BY <2>1, <2>2, <2>3 DEF Types
<1>34. ASSUME TimerReturn PROVE Types'
  <2>1. TypeTimer'
    BY <1>34 DEF TimerReturn, TypeTimer, Types, timer
  <2>2. TypeStart'
    BY <1>34 DEF TimerReturn, Types, TypeStart, main, sleeper, timer
  <2>3. TypeStatus' /\ TypeSleepers' /\ TypeWorkers' /\ TypeProcess'
    BY <1>34, Kept DEF TimerReturn, Types
  <2> QED
    BY <2>1, <2>2, <2>3 DEF Types
<1>35. ASSUME TimerQueryProcess PROVE Types'
  <2>1. TypeTimer'
    BY <1>35 DEF TimerQueryProcess, TypeTimer, Types, timer
  <2>2. TypeStart'
    BY <1>35 DEF TimerQueryProcess, Types, TypeStart, main, sleeper, timer
  <2>3. TypeStatus' /\ TypeSleepers' /\ TypeWorkers' /\ TypeProcess'
    BY <1>35, Kept DEF TimerQueryProcess, Types
  <2> QED
    BY <2>1, <2>2, <2>3 DEF Types
<1>36. ASSUME NEW ok \in BOOLEAN, TimerCreateProcess(ok) PROVE Types'
  <2>1. TypeTimer'
    BY <1>36 DEF TimerCreateProcess, TypeTimer, Types, timer
  <2>2. TypeProcess'
    <3>1. trouble' \subseteq Troubles
      BY <1>36 DEF TimerCreateProcess, Named, Types, TypeProcess, Troubles
    <3>2. faults' \in 0..MaxFaults
      BY <1>36, FaultCounted DEF TimerCreateProcess, Types
    <3> QED
      BY <1>36, <3>1, <3>2 DEF TimerCreateProcess, Types, TypeProcess, process
  <2>3. TypeStart'
    BY <1>36 DEF TimerCreateProcess, Types, TypeStart, main, sleeper, timer
  <2>4. TypeStatus' /\ TypeSleepers' /\ TypeWorkers'
    BY <1>36, Kept DEF TimerCreateProcess, Types
  <2> QED
    BY <2>1, <2>2, <2>3, <2>4 DEF Types
<1>37. ASSUME TimerConnect PROVE Types'
  <2>1. TypeTimer'
    BY <1>37 DEF TimerConnect, TypeTimer, Types, timer
  <2>2. TypeStart'
    BY <1>37 DEF TimerConnect, Types, TypeStart, main, sleeper, timer
  <2>3. TypeStatus' /\ TypeSleepers' /\ TypeWorkers' /\ TypeProcess'
    BY <1>37, Kept DEF TimerConnect, Types
  <2> QED
    BY <2>1, <2>2, <2>3 DEF Types
<1>38. ASSUME TestSleepThread PROVE Types'
  <2>1. TypeTimer'
    BY <1>38 DEF TestSleepThread, TypeTimer, Types, timer
  <2>2. TypeStart'
    BY <1>38 DEF TestSleepThread, Types, TypeStart, main, sleeper, timer
  <2>3. TypeStatus' /\ TypeSleepers' /\ TypeWorkers' /\ TypeProcess'
    BY <1>38, Kept DEF TestSleepThread, Types
  <2> QED
    BY <2>1, <2>2, <2>3 DEF Types
<1>39. ASSUME WakeSleepThread PROVE Types'
  <2>1. TypeSleepers'
    BY <1>39 DEF WakeSleepThread, Terminated, TypeSleepers, Types, sleeper
  <2>2. TypeTimer'
    BY <1>39, QueueGrows DEF WakeSleepThread, Apcs, TypeTimer, Types, timer
  <2>3. TypeStart'
    BY <1>39
    DEF WakeSleepThread, Terminated, Alive, Types, TypeStart, main, sleeper, timer,
        TypeSleepers
  <2>4. TypeStatus' /\ TypeWorkers' /\ TypeProcess'
    BY <1>39, Kept DEF WakeSleepThread, Types
  <2> QED
    BY <2>1, <2>2, <2>3, <2>4 DEF Types
<1>40. ASSUME NEW ok \in BOOLEAN, MakeSleepThread(ok) PROVE Types'
  <2>1. TypeSleepers'
    BY <1>40 DEF MakeSleepThread, CreateSleepThread, Create, TypeSleepers, Types, sleeper
  <2>2. TypeTimer'
    BY <1>40 DEF MakeSleepThread, TypeTimer, Types, timer
  <2>3. TypeProcess'
    <3>1. trouble' \subseteq Troubles
      BY <1>40 DEF MakeSleepThread, Named, Types, TypeProcess, Troubles
    <3>2. faults' \in 0..MaxFaults
      BY <1>40, FaultCounted DEF MakeSleepThread, Types
    <3> QED
      BY <1>40, <3>1, <3>2 DEF MakeSleepThread, Types, TypeProcess, process
  <2>4. TypeStart'
    BY <1>40
    DEF MakeSleepThread, CreateSleepThread, Create, Types, TypeStart, main, sleeper, timer,
        TypeSleepers
  <2>5. TypeStatus' /\ TypeWorkers'
    BY <1>40, Kept DEF MakeSleepThread, Types
  <2> QED
    BY <2>1, <2>2, <2>3, <2>4, <2>5 DEF Types
<1>41. ASSUME TestWorkerThread PROVE Types'
  <2>1. TypeTimer'
    BY <1>41 DEF TestWorkerThread, TypeTimer, Types, timer
  <2>2. TypeStart'
    BY <1>41 DEF TestWorkerThread, Types, TypeStart, main, sleeper, timer
  <2>3. TypeStatus' /\ TypeSleepers' /\ TypeWorkers' /\ TypeProcess'
    BY <1>41, Kept DEF TestWorkerThread, Types
  <2> QED
    BY <2>1, <2>2, <2>3 DEF Types
<1>42. ASSUME WakeWorkerThread PROVE Types'
  <2>1. TypeWorkers'
    BY <1>42 DEF WakeWorkerThread, Alive, TypeWorkers, Types, worker
  <2>2. TypeTimer'
    BY <1>42 DEF WakeWorkerThread, TypeTimer, Types, timer
  <2>3. TypeStart'
    BY <1>42 DEF WakeWorkerThread, Types, TypeStart, main, sleeper, timer
  <2>4. TypeStatus' /\ TypeSleepers' /\ TypeProcess'
    BY <1>42, Kept DEF WakeWorkerThread, Types
  <2> QED
    BY <2>1, <2>2, <2>3, <2>4 DEF Types
<1>43. ASSUME NEW ok \in BOOLEAN, MakeWorkerThread(ok) PROVE Types'
  <2>1. TypeWorkers'
    BY <1>43 DEF MakeWorkerThread, CreateWorkerThread, Create, TypeWorkers, Types, worker
  <2>2. TypeTimer'
    BY <1>43 DEF MakeWorkerThread, TypeTimer, Types, timer
  <2>3. TypeProcess'
    <3>1. trouble' \subseteq Troubles
      BY <1>43 DEF MakeWorkerThread, Named, Types, TypeProcess, Troubles
    <3>2. faults' \in 0..MaxFaults
      BY <1>43, FaultCounted DEF MakeWorkerThread, Types
    <3> QED
      BY <1>43, <3>1, <3>2 DEF MakeWorkerThread, Types, TypeProcess, process
  <2>4. TypeStart'
    BY <1>43 DEF MakeWorkerThread, Types, TypeStart, main, sleeper, timer
  <2>5. TypeStatus' /\ TypeSleepers'
    BY <1>43, Kept DEF MakeWorkerThread, Types
  <2> QED
    BY <2>1, <2>2, <2>3, <2>4, <2>5 DEF Types
<1>44. ASSUME TransportDies PROVE Types'
  <2>1. TypeProcess'
    <3>1. trouble' \subseteq Troubles
      BY <1>44 DEF TransportDies, Named, Types, TypeProcess, Troubles
    <3>2. faults' \in 0..MaxFaults
      BY <1>44, FaultCounted DEF TransportDies, Types
    <3> QED
      BY <1>44, <3>1, <3>2 DEF TransportDies, Types, TypeProcess, process
  <2>2. TypeStatus' /\ TypeSleepers' /\ TypeWorkers' /\ TypeTimer' /\ TypeStart'
    BY <1>44, Kept DEF TransportDies, Types
  <2> QED
    BY <2>1, <2>2 DEF Types
<1>45. ASSUME UNCHANGED vars PROVE Types'
  BY <1>45, Kept DEF vars, Types
<1> QED
  BY <1>1, <1>2, <1>3, <1>4, <1>5, <1>6, <1>7, <1>8, <1>9, <1>10, <1>11, <1>12, <1>13, <1>14,
     <1>15, <1>16, <1>17, <1>18, <1>19, <1>20, <1>21, <1>22, <1>23, <1>24, <1>25, <1>26, <1>27,
     <1>28, <1>29, <1>30, <1>31, <1>32, <1>33, <1>34, <1>35, <1>36, <1>37, <1>38, <1>39, <1>40,
     <1>41, <1>42, <1>43, <1>44, <1>45
  DEF Step, ServiceMain, Handler, Sleep, Timer

(* The types of every instance of the service. *)
THEOREM TypeCorrect == Spec => []TypeOK
<1>1. Init => TypeOK
  <2> SUFFICES ASSUME Init PROVE TypeOK
    OBVIOUS
  <2>1. TypeStatus /\ TypeStart
    BY DEF Init, TypeStatus, TypeStart, States
  <2>2. TypeSleepers /\ TypeWorkers
    BY DEF Init, TypeSleepers, TypeWorkers
  <2>3. TypeTimer
    <3>1. apcs \in Seq({"beat", "wake", "exit", "empty"})
      BY QueueEmpty, Zenon DEF Init, Apcs
    <3>2. beats \in 0..MaxBeats
      BY BoundsAssumption DEF Init
    <3>3. /\ tpc = "none" /\ htimer = FALSE /\ texit = FALSE
          /\ tpost = "none" /\ slot = "none"
      BY DEF Init
    <3> QED
      BY <3>1, <3>2, <3>3, Zenon DEF TypeTimer
  <2>4. TypeProcess
    BY BoundsAssumption DEF Init, TypeProcess, Troubles
  <2> QED
    BY <2>1, <2>2, <2>3, <2>4 DEF TypeOK, Init
<1> QED
  BY <1>1, TypeStep, PTL DEF Spec

-----------------------------------------------------------------------------
(* Creating a thread does nothing, or adds one for the null handle. *)
Fresh(pc, handle, pcn, handlen) ==
  /\ \A j \in Threads : pcn[j] = pc[j] \/ j = handlen
  /\ handlen # handle => handle \notin Threads

LEMMA Created ==
  ASSUME NEW can_create, NEW ok \in BOOLEAN, TypeSleepers, TypeWorkers
  PROVE  /\ CreateSleepThread(can_create, ok) => Fresh(spc, hsleep, spc', hsleep')
         /\ CreateWorkerThread(can_create, ok) => Fresh(wpc, hworker, wpc', hworker')
<1>0. 0 \notin Threads
  BY DEF Threads
<1>1. CreateSleepThread(can_create, ok) => Fresh(spc, hsleep, spc', hsleep')
  BY <1>0 DEF CreateSleepThread, Create, Fresh, TypeSleepers
<1>2. CreateWorkerThread(can_create, ok) => Fresh(wpc, hworker, wpc', hworker')
  BY <1>0 DEF CreateWorkerThread, Create, Fresh, TypeWorkers
<1> QED
  BY <1>1, <1>2

(* ThreadsAreAlone, thread by thread. *)
Alone ==
  ~Stopping =>
    \A i \in Threads : /\ spc[i] \notin {"none", "ended"} => i = hsleep
                       /\ wpc[i] \notin {"none", "ended"} => i = hworker

LEMMA AloneStep == Alone /\ TypeOK /\ [Next]_vars => Alone'
<1> SUFFICES ASSUME Alone, Types PROVE Step \/ UNCHANGED vars => Alone'
  BY DEF TypeOK, Types, Next, vars
<1> DEFINE Same == UNCHANGED <<spc, hsleep, wpc, hworker>> /\ (Stopping => Stopping')
<1>0. Same => Alone'
  BY DEF Alone
<1>1. ASSUME NEW ok \in BOOLEAN,
             \/ InitService(ok) \/ CreateEvent(ok) \/ StartProcess(ok) \/ ResetIpAddress(ok)
             \/ CreateTimerThread(ok) \/ StopProcess(ok)
      PROVE  Alone'
  <2>1. Same
    BY <1>1 DEF InitService, CreateEvent, StartProcess, ResetIpAddress, CreateTimerThread,
                StopProcess, Stopping, sleeper, worker
  <2> QED
    BY <2>1, <1>0
<1>2. ASSUME NEW ok \in BOOLEAN, InitSleepThread(ok) PROVE Alone'
  <2>1. UNCHANGED <<wpc, hworker>> /\ mpc = "sleep"
    BY <1>2 DEF InitSleepThread, worker
  <2>2. Fresh(spc, hsleep, spc', hsleep')
    BY <1>2, Created DEF InitSleepThread, CreateSleepThread, Types, TypeSleepers
  <2> QED
    BY <2>1, <2>2 DEF Fresh, Alone, Stopping
<1>3. ASSUME NEW ok \in BOOLEAN, InitWorkerThread(ok) PROVE Alone'
  <2>1. UNCHANGED <<spc, hsleep>> /\ mpc = "worker"
    BY <1>3 DEF InitWorkerThread, sleeper
  <2>2. Fresh(wpc, hworker, wpc', hworker')
    BY <1>3, Created DEF InitWorkerThread, Types
  <2> QED
    BY <2>1, <2>2 DEF Fresh, Alone, Stopping
<1>4. ASSUME \/ LoopServiceReport \/ LoopServiceStore \/ LoopServiceWait \/ StopServiceReport
             \/ StopServiceStore
      PROVE  Alone'
  <2>1. Same
    BY <1>4 DEF LoopServiceReport, LoopServiceStore, LoopServiceWait, StopServiceReport,
                StopServiceStore, Stopping, sleeper, worker
  <2> QED
    BY <2>1, <1>0
<1>5. ASSUME StopSleepThread \/ StopTimerThread \/ StopWorkerThread \/ CloseThreads
      PROVE  Alone'
  BY <1>5 DEF StopSleepThread, StopTimerThread, StopWorkerThread, CloseThreads, Alone,
              Stopping
<1>6. ASSUME (\E c \in Controls : Control(c)) \/ Handler \/ PostOther \/ TransportDies
      PROVE  Alone'
  <2>1. Same
    BY <1>6 DEF Control, Handler, HandlerReport, HandlerStore, PostOther, TransportDies, Stopping,
                main, sleeper, worker
  <2> QED
    BY <2>1, <1>0
<1>7. ASSUME NEW i \in Threads, Sleep(i) PROVE Alone'
  <2>1. \A j \in Threads : spc'[j] = spc[j] \/ (j = i /\ spc[i] \notin {"none", "ended"})
    BY <1>7 DEF Sleep, SleepStart, SleepTest, SleepWait, SleepCheck, SleepPause, SleepResume, Goto,
                Types, TypeSleepers
  <2>2. UNCHANGED <<hsleep, wpc, hworker, mpc>>
    BY <1>7 DEF Sleep, SleepStart, SleepTest, SleepWait, SleepCheck, SleepPause, SleepResume, main,
                worker
  <2> QED
    BY <2>1, <2>2 DEF Alone, Stopping
<1>8. ASSUME NEW i \in Threads, WorkerEnds(i) PROVE Alone'
  BY <1>8 DEF WorkerEnds, Alone, Stopping, Types, TypeWorkers, main, sleeper
<1>9. ASSUME \/ TimerTest \/ TimerBeat \/ TimerRun \/ TimerPost \/ TimerReturn \/ TimerQueryProcess
             \/ TimerConnect \/ TestSleepThread \/ TestWorkerThread
             \/ \E ok \in BOOLEAN : TimerStart(ok) \/ TimerCreateProcess(ok)
      PROVE  Alone'
  <2>1. Same
    BY <1>9 DEF TimerTest, TimerBeat, TimerRun, TimerPost, TimerReturn, TimerQueryProcess,
                TimerConnect, TestSleepThread, TestWorkerThread, TimerStart, TimerCreateProcess,
                Stopping, main, sleeper, worker
  <2> QED
    BY <2>1, <1>0
<1>10. ASSUME WakeSleepThread PROVE Alone'
  <2>1. UNCHANGED <<wpc, hworker, mpc>>
    BY <1>10 DEF WakeSleepThread, worker, main
  <2>2. CASE htimer
    BY <1>10, <2>1, <2>2 DEF WakeSleepThread, Alone, Stopping
  <2>3. CASE ~htimer
    <3>1. spc' = Terminated(spc, hsleep)
      BY <1>10, <2>3 DEF WakeSleepThread
    <3>2. \A i \in Threads : \/ spc'[i] = spc[i] /\ (i = hsleep => spc'[i] \in {"none", "ended"})
                             \/ spc'[i] = "ended"
      BY <3>1 DEF Terminated, Alive
    <3> QED
      BY <2>1, <3>2 DEF Alone, Stopping
  <2> QED
    BY <2>2, <2>3
<1>11. ASSUME NEW ok \in BOOLEAN, MakeSleepThread(ok) PROVE Alone'
  <2>1. UNCHANGED <<wpc, hworker, mpc>>
    BY <1>11 DEF MakeSleepThread, worker, main
  <2>2. Fresh(spc, hsleep, spc', hsleep')
    BY <1>11, Created DEF MakeSleepThread, CreateSleepThread, Types, TypeSleepers
  <2> QED
    BY <2>1, <2>2 DEF Fresh, Alone, Stopping
<1>12. ASSUME WakeWorkerThread PROVE Alone'
  <2>1. UNCHANGED <<spc, hsleep, mpc, wpc>>
    BY <1>12 DEF WakeWorkerThread, sleeper, main
  <2>2. hworker' = hworker \/ hworker \notin Alive(wpc)
    BY <1>12 DEF WakeWorkerThread
  <2> QED
    BY <2>1, <2>2 DEF Alone, Stopping, Alive
<1>13. ASSUME NEW ok \in BOOLEAN, MakeWorkerThread(ok) PROVE Alone'
  <2>1. UNCHANGED <<spc, hsleep, mpc>>
    BY <1>13 DEF MakeWorkerThread, sleeper, main
  <2>2. Fresh(wpc, hworker, wpc', hworker')
    BY <1>13, Created DEF MakeWorkerThread, Types
  <2> QED
    BY <2>1, <2>2 DEF Fresh, Alone, Stopping
<1>14. ASSUME UNCHANGED vars PROVE Alone'
  BY <1>14 DEF vars, main, sleeper, worker, Alone, Stopping
<1> QED
  BY <1>1, <1>2, <1>3, <1>4, <1>5, <1>6, <1>7, <1>8, <1>9, <1>10, <1>11, <1>12, <1>13, <1>14
  DEF Step, ServiceMain, Timer

(* However many callbacks run and calls fail, the two threads that create   *)
(* SleepThreads and WorkerThreads never leave one behind that lives and has *)
(* lost its handle, until the service is told to stop.                      *)
THEOREM ThreadsHaveHandles == Spec => []ThreadsAreAlone
<1>1. Init => Alone
  BY DEF Init, Alone
<1>2. Alone => ThreadsAreAlone
  BY DEF Alone, ThreadsAreAlone, Alive
<1> QED
  BY <1>1, <1>2, AloneStep, TypeCorrect, PTL DEF Spec

-----------------------------------------------------------------------------
(* What the service manager has been told, place by place of ServiceMain ... *)
Early == {"event", "process", "address", "timer", "sleep", "worker", "loop"}
Late == {"stop_sleep", "stop_timer", "stop_worker", "close_worker", "close_timer", "close_sleep",
         "kill"}

Begun ==
  /\ mpc = "init" => reported = "none"
  /\ reported = "none" => mpc \in {"init", "returned"}
  /\ mpc \in Early => reported = "start_pending"
  /\ reported = "start_pending" => mpc \in Early \cup {"report", "returned"}
  /\ reported \in {"none", "start_pending"} => todo = << >> /\ ~event
  /\ mpc \in Late => event
  /\ mpc = "report" => event \/ reported = "start_pending"

(* ... and of the control handler. *)
Pausing == {<<"pause_pending", "paused">>, <<"continue_pending", "running">>}

Handled ==
  /\ todo \in Pausing => reported \in {"running", "paused"} /\ ~event
  /\ todo = <<"paused">> => reported = "pause_pending" /\ ~event
  /\ todo = <<"running">> => reported = "continue_pending" /\ ~event
  /\ todo = <<"stop_pending">> => reported \in {"running", "paused", "stopped"} /\ event
  /\ todo = << >> => reported \notin {"pause_pending", "continue_pending"}
  /\ event => reported \in {"running", "paused", "stop_pending", "stopped"}
  /\ event /\ todo = << >> => reported \in {"stop_pending", "stopped"}

Life == Begun /\ Handled
Obeys == Service!Next \/ UNCHANGED Service!service

(* The states still to be reported are told apart. *)
LEMMA TodosDiffer ==
  /\ << >> \notin Pausing /\ \A a : <<a>> # << >> /\ <<a>> \notin Pausing
  /\ \A a, b : <<a>> = <<b>> => a = b
  /\ \A a, b : <<a, b>> # << >>
  /\ \A a, b, c : <<a, b>> # <<c>>
  /\ <<"pause_pending", "paused">> # <<"continue_pending", "running">>
<1>1. \A a, b, c : <<a, b>> # <<c>>
  OBVIOUS
<1>2. \A a, b : <<a, b>> # << >> /\ <<a>> # << >>
  OBVIOUS
<1>3. \A a, b : <<a>> = <<b>> => a = b
  OBVIOUS
<1>4. <<"pause_pending", "paused">> # <<"continue_pending", "running">>
  OBVIOUS
<1> QED
  BY <1>1, <1>2, <1>3, <1>4, Zenon DEF Pausing

(* Steps that neither report, set the event nor enter or leave a place that *)
(* matters. *)
LEMMA MainMoves ==
  ASSUME Life, UNCHANGED <<reported, todo, event>>,
         \/ mpc' = mpc
         \/ mpc \in Early /\ mpc' \in Early
         \/ mpc \in Early /\ mpc' \in {"report", "returned"}
         \/ mpc = "init" /\ mpc' = "returned"
         \/ mpc = "wait" /\ event /\ mpc' \in Late
         \/ mpc \in Late /\ mpc' \in Late \cup {"report"}
         \/ mpc = "store_running" /\ mpc' = "wait"
         \/ mpc = "store_stopped" /\ mpc' = "returned"
  PROVE  Life' /\ Obeys
<1>1. Handled' /\ Obeys
  BY DEF Life, Handled, Obeys, Service!service
<1>2. Begun'
  BY DEF Life, Begun, Early, Late
<1> QED
  BY <1>1, <1>2 DEF Life

(* Steps of the handler. *)
LEMMA ReportObeys ==
  ASSUME Life, UNCHANGED <<mpc, event>>, todo # << >>,
         \/ /\ ~event /\ reported \in {"running", "paused"}
            /\ \/ reported' = "pause_pending" /\ todo' = <<"paused">>
               \/ reported' = "continue_pending" /\ todo' = <<"running">>
         \/ /\ ~event /\ todo' = << >>
            /\ \/ reported = "pause_pending" /\ reported' = "paused"
               \/ reported = "continue_pending" /\ reported' = "running"
         \/ /\ event /\ todo' = << >>
            /\ \/ reported \in {"running", "paused"} /\ reported' = "stop_pending"
               \/ reported = "stopped" /\ reported' = "stopped"
  PROVE  Life' /\ Obeys
<1>1. Begun'
  BY DEF Life, Begun, Early, Late
<1>2. Handled'
  BY TodosDiffer DEF Life, Handled
<1>3. CASE ~event
  <2>1. <<reported, reported'>> \in Service!Pauses
    BY <1>3 DEF Service!Pauses
  <2>2. reported # "none" /\ reported' # "none"
    BY <1>3
  <2>3. Service!Pause
    BY <1>3, <2>1, <2>2 DEF Service!Pause
  <2> QED
    BY <1>1, <1>2, <2>3 DEF Life, Obeys, Service!Next
<1>4. CASE event
  BY <1>1, <1>2, <1>4 DEF Life, Obeys, Service!Next, Service!Stop, Service!service
<1> QED
  BY <1>3, <1>4

LEMMA LifeStarts == Init => Life
<1>1. ASSUME Init PROVE Begun
  BY <1>1 DEF Init, Begun, Early, Late
<1>2. ASSUME Init PROVE Handled
  BY <1>2, TodosDiffer DEF Init, Handled
<1> QED
  BY <1>1, <1>2 DEF Life

LEMMA LifeStep == Life /\ TypeOK /\ [Next]_vars => Life' /\ Obeys
<1> SUFFICES ASSUME Life, Types PROVE Step \/ UNCHANGED vars => Life' /\ Obeys
  BY DEF TypeOK, Types, Next, vars
<1>0. ASSUME UNCHANGED <<reported, mpc, todo, event>> PROVE Life' /\ Obeys
  BY <1>0, MainMoves
<1>1. ASSUME NEW ok \in BOOLEAN, InitService(ok) PROVE Life' /\ Obeys
  <2>1. UNCHANGED <<todo, event>> /\ mpc = "init" /\ reported = "none" /\ todo = << >> /\ ~event
    BY <1>1 DEF InitService, handler, Life, Begun
  <2>2. CASE ok
    <3>1. reported' = "start_pending" /\ mpc' = "event"
      BY <1>1, <2>2 DEF InitService
    <3>2. Begun'
      BY <2>1, <3>1 DEF Begun, Early, Late
    <3>3. Handled'
      BY <2>1, <3>1, TodosDiffer DEF Handled
    <3>4. Obeys
      BY <2>1, <3>1 DEF Obeys, Service!service
    <3> QED
      BY <3>2, <3>3, <3>4 DEF Life
  <2>3. CASE ~ok
    BY <1>1, <2>1, <2>3, MainMoves DEF InitService, scm
  <2> QED
    BY <2>2, <2>3
<1>2. ASSUME NEW ok \in BOOLEAN, CreateEvent(ok) PROVE Life' /\ Obeys
  <2>1. /\ UNCHANGED <<todo, event>> /\ mpc = "event" /\ reported = "start_pending"
        /\ todo = << >> /\ ~event
    BY <1>2 DEF CreateEvent, handler, Life, Begun, Early
  <2>2. CASE ok
    BY <1>2, <2>1, <2>2, MainMoves DEF CreateEvent, scm, Early
  <2>3. CASE ~ok
    <3>1. reported' = "stop_pending" /\ mpc' = "returned"
      BY <1>2, <2>3 DEF CreateEvent
    <3>2. Begun'
      BY <2>1, <3>1 DEF Begun, Early, Late
    <3>3. Handled'
      BY <2>1, <3>1, TodosDiffer DEF Handled
    <3>4. Obeys
      BY <2>1, <3>1 DEF Obeys, Service!Next, Service!Start
    <3> QED
      BY <3>2, <3>3, <3>4 DEF Life
  <2> QED
    BY <2>2, <2>3
<1>3. ASSUME NEW ok \in BOOLEAN,
             \/ StartProcess(ok) \/ ResetIpAddress(ok) \/ CreateTimerThread(ok)
             \/ InitSleepThread(ok) \/ InitWorkerThread(ok)
      PROVE  Life' /\ Obeys
  <2>1. /\ UNCHANGED <<reported, todo, event>>
        /\ mpc \in Early /\ mpc' \in Early \cup {"report", "returned"}
    BY <1>3 DEF StartProcess, ResetIpAddress, CreateTimerThread, InitSleepThread,
                InitWorkerThread, scm, handler, Early
  <2> QED
    BY <2>1, MainMoves
<1>4. ASSUME LoopServiceReport PROVE Life' /\ Obeys
  <2>1. /\ UNCHANGED <<todo, event>> /\ mpc = "loop" /\ reported = "start_pending"
        /\ todo = << >> /\ ~event
    BY <1>4 DEF LoopServiceReport, handler, Life, Begun, Early
  <2>2. reported' = "running" /\ mpc' = "store_running"
    BY <1>4, <2>1 DEF LoopServiceReport, Report, Accepted
  <2>3. Begun'
    BY <2>1, <2>2 DEF Begun, Early, Late
  <2>4. Handled'
    BY <2>1, <2>2, TodosDiffer DEF Handled
  <2>5. Obeys
    BY <2>1, <2>2 DEF Obeys, Service!Next, Service!Start
  <2> QED
    BY <2>3, <2>4, <2>5 DEF Life
<1>5. ASSUME LoopServiceStore \/ LoopServiceWait PROVE Life' /\ Obeys
  BY <1>5, MainMoves DEF LoopServiceStore, LoopServiceWait, handler, scm, Late
<1>6. ASSUME \/ StopSleepThread \/ StopTimerThread \/ StopWorkerThread \/ CloseThreads
             \/ \E ok \in BOOLEAN : StopProcess(ok)
      PROVE  Life' /\ Obeys
  <2>1. /\ UNCHANGED <<reported, todo, event>>
        /\ mpc \in Late /\ mpc' \in Late \cup {"report"}
    BY <1>6 DEF StopSleepThread, StopTimerThread, StopWorkerThread, CloseThreads, StopProcess,
                scm, handler, Late
  <2> QED
    BY <2>1, MainMoves
<1>7. ASSUME StopServiceReport PROVE Life' /\ Obeys
  <2>1. UNCHANGED <<todo, event>> /\ mpc = "report" /\ mpc' = "store_stopped"
    BY <1>7 DEF StopServiceReport, handler
  <2>2. reported' = "stopped"
    BY <1>7 DEF StopServiceReport, Report, Accepted
  <2>3. Begun'
    BY <2>1, <2>2 DEF Begun, Early, Late
  <2>4. \/ event /\ reported \in {"running", "paused", "stop_pending", "stopped"}
        \/ reported = "start_pending" /\ todo = << >> /\ ~event
    BY <2>1 DEF Life, Begun, Handled
  <2>5. Handled'
    BY <2>1, <2>2, <2>4, TodosDiffer DEF Life, Handled
  <2>6. Obeys
    BY <2>1, <2>2, <2>4 DEF Obeys, Service!Next, Service!Start, Service!Stop, Service!service
  <2> QED
    BY <2>3, <2>5, <2>6 DEF Life
<1>8. ASSUME StopServiceStore PROVE Life' /\ Obeys
  BY <1>8, MainMoves DEF StopServiceStore, handler
<1>9. ASSUME NEW c \in Controls, Control(c) PROVE Life' /\ Obeys
  <2>1. /\ UNCHANGED <<reported, mpc>> /\ reported \in {"running", "paused"}
        /\ todo = << >> /\ todo' = Reports(c) /\ event' = (event \/ c = "stop")
        /\ event = FALSE
    BY <1>9 DEF Control, Handling, scm, Life, Handled, Types, TypeStatus
  <2>2. CASE c = "stop"
    <3>1. todo' = <<"stop_pending">> /\ event'
      BY <2>1, <2>2 DEF Reports
    <3>2. Handled'
      BY <2>1, <3>1, TodosDiffer DEF Handled
    <3>3. Begun'
      BY <2>1, <3>1 DEF Life, Begun, Early, Late
    <3>4. Obeys
      BY <2>1, <3>1 DEF Obeys, Service!Next, Service!Tell, Service!service, Types, TypeStatus
    <3> QED
      BY <3>2, <3>3, <3>4 DEF Life
  <2>3. CASE c # "stop"
    <3>1. todo' \in Pausing /\ ~event'
      BY <2>1, <2>3 DEF Reports, Controls, Pausing
    <3>2. Handled'
      BY <2>1, <3>1, TodosDiffer DEF Handled
    <3>3. Begun'
      BY <2>1, <2>3, <3>1 DEF Life, Begun, Early, Late
    <3>4. Obeys
      <4>1. event' = FALSE
        BY <2>1, <2>3
      <4> QED
        BY <2>1, <4>1 DEF Obeys, Service!service
    <3> QED
      BY <3>2, <3>3, <3>4 DEF Life
  <2> QED
    BY <2>2, <2>3
<1>10. ASSUME HandlerReport PROVE Life' /\ Obeys
  <2>1. /\ UNCHANGED <<mpc, event>> /\ todo # << >> /\ todo' = Tail(todo)
        /\ reported' = IF reported # "stopped" THEN Head(todo) ELSE reported
    BY <1>10 DEF HandlerReport, Report, Accepted, main
  <2>2. \A a : Head(<<a>>) = a /\ Tail(<<a>>) = << >>
    OBVIOUS
  <2>3. \A a, b : Head(<<a, b>>) = a /\ Tail(<<a, b>>) = <<b>>
    OBVIOUS
  <2>4. todo \in Pausing \cup {<<"paused">>, <<"running">>, <<"stop_pending">>}
    BY <2>1 DEF Types, TypeStatus, Pausing
  <2>5. CASE todo = <<"pause_pending", "paused">>
    <3>1. /\ reported \in {"running", "paused"} /\ ~event
          /\ reported' = "pause_pending" /\ todo' = <<"paused">>
      BY <2>1, <2>3, <2>5 DEF Life, Handled, Pausing
    <3> QED
      BY <2>1, <3>1, ReportObeys
  <2>6. CASE todo = <<"continue_pending", "running">>
    <3>1. /\ reported \in {"running", "paused"} /\ ~event
          /\ reported' = "continue_pending" /\ todo' = <<"running">>
      BY <2>1, <2>3, <2>6 DEF Life, Handled, Pausing
    <3> QED
      BY <2>1, <3>1, ReportObeys
  <2>7. CASE todo = <<"paused">>
    <3>1. /\ reported = "pause_pending" /\ ~event
          /\ reported' = "paused" /\ todo' = << >>
      BY <2>1, <2>2, <2>7 DEF Life, Handled
    <3> QED
      BY <2>1, <3>1, ReportObeys
  <2>8. CASE todo = <<"running">>
    <3>1. /\ reported = "continue_pending" /\ ~event
          /\ reported' = "running" /\ todo' = << >>
      BY <2>1, <2>2, <2>8 DEF Life, Handled
    <3> QED
      BY <2>1, <3>1, ReportObeys
  <2>9. CASE todo = <<"stop_pending">>
    <3>1. /\ event /\ todo' = << >>
          /\ \/ reported \in {"running", "paused"} /\ reported' = "stop_pending"
             \/ reported = "stopped" /\ reported' = "stopped"
      BY <2>1, <2>2, <2>9 DEF Life, Handled
    <3> QED
      BY <2>1, <3>1, ReportObeys
  <2> QED
    BY <2>4, <2>5, <2>6, <2>7, <2>8, <2>9 DEF Pausing
<1>11. ASSUME HandlerStore PROVE Life' /\ Obeys
  BY <1>0, <1>11 DEF HandlerStore, main
<1>12. ASSUME NEW i \in Threads, Sleep(i) \/ WorkerEnds(i) PROVE Life' /\ Obeys
  BY <1>0, <1>12 DEF Sleep, SleepStart, SleepTest, SleepWait, SleepCheck, SleepPause, SleepResume,
                     WorkerEnds, scm, main, handler
<1>13. ASSUME Timer \/ TimerBeat \/ PostOther \/ TransportDies PROVE Life' /\ Obeys
  BY <1>0, <1>13
  DEF Timer, TimerTest, TimerRun, TimerPost, TimerReturn, TimerQueryProcess, TimerConnect,
      TestSleepThread, WakeSleepThread, TestWorkerThread, WakeWorkerThread, TimerStart,
      TimerCreateProcess, MakeSleepThread, MakeWorkerThread, TimerBeat, PostOther, TransportDies,
      scm, main, handler
<1>14. ASSUME UNCHANGED vars PROVE Life' /\ Obeys
  BY <1>0, <1>14 DEF vars, scm, main, handler
<1> QED
  BY <1>1, <1>2, <1>3, <1>4, <1>5, <1>6, <1>7, <1>8, <1>9, <1>10, <1>11, <1>12, <1>13, <1>14
  DEF Step, ServiceMain, Handler

(* The service as the service manager sees it: one orderly life, whatever   *)
(* the handler, ServiceMain, the timer callback and failing calls do, and   *)
(* in whichever order: ServiceControl implements ServiceStates.             *)
THEOREM ServiceImplemented == Spec => ImplementsService
<1>1. Init => Life /\ Service!Init
  BY LifeStarts DEF Init, Service!Init
<1>2. Life /\ TypeOK /\ [Next]_vars => Life'
  BY LifeStep
<1>3. Life /\ TypeOK /\ [Next]_vars => [Service!Next]_(Service!service)
  BY LifeStep DEF Obeys
<1> QED
  BY <1>1, <1>2, <1>3, TypeCorrect, PTL DEF Spec, ImplementsService, Service!Spec

-----------------------------------------------------------------------------
(* The transport process, from the moment ServiceMain has its handle: the   *)
(* callback creates one only when none is there, and only the death of the  *)
(* first can make the one that runs another than that of the handle.        *)
Over == {"report", "store_stopped", "returned"}
Excuses == {"unstarted", "no_address", "refused", "died", "revived"}

TransportFate ==
  /\ tpc = "create" => transport = 0
  /\ hprocess # 0 /\ mpc \notin Over => transport = hprocess \/ "died" \in trouble
  /\ mpc \in Over => transport = 0 \/ Excused(Excuses)

(* Steps that neither start nor end a process. *)
LEMMA FateKept ==
  ASSUME TransportFate, UNCHANGED <<transport, hprocess>>, trouble \subseteq trouble',
         tpc' = "create" => tpc = "create" \/ transport = 0,
         mpc' \in Over => mpc \in Over \/ Excused(Excuses)',
         mpc \in Over => mpc' \in Over
  PROVE  TransportFate'
<1>1. Excused(Excuses) => Excused(Excuses)'
  BY DEF Excused
<1> QED
  BY <1>1 DEF TransportFate

LEMMA Remembered == \A names, happens : Named(names, happens) => trouble \subseteq trouble'
  BY DEF Named

LEMMA FateStep == TransportFate /\ TypeOK /\ [Next]_vars => TransportFate'
<1> SUFFICES ASSUME TransportFate, Types PROVE Step \/ UNCHANGED vars => TransportFate'
  BY DEF TypeOK, Types, Next, vars
<1>1. ASSUME NEW ok \in BOOLEAN, InitService(ok) \/ CreateEvent(ok) \/ ResetIpAddress(ok)
      PROVE  TransportFate'
  <2>1. /\ UNCHANGED <<transport, hprocess, tpc>>
        /\ mpc \notin Over /\ trouble \subseteq trouble'
    BY <1>1, Remembered DEF InitService, CreateEvent, ResetIpAddress, process, timer, Over
  <2>2. mpc' \in Over => Excused(Excuses)'
    BY <1>1 DEF InitService, CreateEvent, ResetIpAddress, Over, Excused, Excuses, Named
  <2> QED
    BY <2>1, <2>2, FateKept
<1>2. ASSUME NEW ok \in BOOLEAN, StartProcess(ok) PROVE TransportFate'
  <2>1. tpc' # "create" /\ mpc' = "address" /\ mpc = "process" /\ trouble' = trouble
    BY <1>2 DEF StartProcess, timer, Types, TypeStart
  <2>2. CASE ok
    BY <1>2, <2>1, <2>2 DEF StartProcess, TransportFate, Over
  <2>3. CASE ~ok
    BY <1>2, <2>1, <2>3 DEF StartProcess, TransportFate, Over, process
  <2> QED
    BY <2>2, <2>3
<1>3. ASSUME NEW ok \in BOOLEAN,
             CreateTimerThread(ok) \/ InitSleepThread(ok)
      PROVE  TransportFate'
  <2>1. /\ UNCHANGED <<transport, hprocess, trouble>> /\ mpc \notin Over /\ mpc' \notin Over
        /\ tpc' = "create" => tpc = "create"
    BY <1>3 DEF CreateTimerThread, InitSleepThread, process, timer, Over
  <2> QED
    BY <2>1, FateKept
<1>4. ASSUME NEW ok \in BOOLEAN, InitWorkerThread(ok) PROVE TransportFate'
  <2>1. /\ UNCHANGED <<transport, hprocess, tpc>> /\ mpc \notin Over
        /\ trouble \subseteq trouble'
    BY <1>4, Remembered DEF InitWorkerThread, process, timer, Over
  <2>2. mpc' \in Over => Excused(Excuses)'
    BY <1>4 DEF InitWorkerThread, Over, Excused, Excuses, Named
  <2> QED
    BY <2>1, <2>2, FateKept
<1>5. ASSUME \/ LoopServiceReport \/ LoopServiceStore \/ LoopServiceWait \/ StopSleepThread
             \/ StopTimerThread \/ StopWorkerThread \/ CloseThreads \/ StopServiceReport
             \/ StopServiceStore
      PROVE  TransportFate'
  <2>1. /\ UNCHANGED <<transport, hprocess, trouble, tpc>>
        /\ mpc \in Over <=> mpc' \in Over
    BY <1>5 DEF LoopServiceReport, LoopServiceStore, LoopServiceWait, StopSleepThread,
                StopTimerThread, StopWorkerThread, CloseThreads, StopServiceReport,
                StopServiceStore, process, timer, Over
  <2> QED
    BY <2>1, FateKept
<1>6. ASSUME NEW ok \in BOOLEAN, StopProcess(ok) PROVE TransportFate'
  <2>1. mpc = "kill" /\ mpc' = "report" /\ tpc' = tpc /\ trouble \subseteq trouble'
    BY <1>6, Remembered DEF StopProcess, timer
  <2>2. tpc' = "create" => transport' = 0
    BY <1>6, <2>1 DEF StopProcess, TransportFate
  <2>3. CASE ok
    BY <1>6, <2>1, <2>2, <2>3 DEF StopProcess, TransportFate, Over, Excused, Excuses
  <2>4. CASE ~ok
    <3>1. Excused(Excuses)'
      BY <1>6, <2>4 DEF StopProcess, Named, Excused, Excuses
    <3> QED
      BY <2>1, <2>2, <3>1 DEF TransportFate, Over
  <2> QED
    BY <2>3, <2>4
<1>7. ASSUME NEW ok \in BOOLEAN, TimerCreateProcess(ok) PROVE TransportFate'
  <2>1. /\ tpc = "create" /\ tpc' = "connect" /\ UNCHANGED <<hprocess, mpc>>
        /\ trouble \subseteq trouble' /\ transport = 0
    BY <1>7, Remembered DEF TimerCreateProcess, main, TransportFate
  <2>2. CASE ok
    <3>1. mpc \in Over => Excused(Excuses)'
      BY <1>7, <2>2 DEF TimerCreateProcess, Named, Stopping, Over, Excused, Excuses
    <3> QED
      BY <2>1, <3>1 DEF TransportFate
  <2>3. CASE ~ok
    BY <1>7, <2>1, <2>3, FateKept DEF TimerCreateProcess
  <2> QED
    BY <2>2, <2>3
<1>8. ASSUME TransportDies PROVE TransportFate'
  <2>1. transport' = 0 /\ UNCHANGED <<hprocess, mpc>> /\ (hprocess # 0 => "died" \in trouble')
    BY <1>8 DEF TransportDies, Named, main
  <2> QED
    BY <2>1 DEF TransportFate
<1>9. ASSUME TimerQueryProcess PROVE TransportFate'
  <2>1. UNCHANGED <<transport, hprocess, mpc, trouble>> /\ (tpc' = "create" => transport = 0)
    BY <1>9 DEF TimerQueryProcess, process, main
  <2> QED
    BY <2>1, FateKept
<1>10. ASSUME \/ TimerTest \/ TimerRun \/ TimerPost \/ TimerReturn \/ TimerConnect
              \/ TestSleepThread \/ WakeSleepThread \/ TestWorkerThread \/ WakeWorkerThread
              \/ \E ok \in BOOLEAN : TimerStart(ok) \/ MakeSleepThread(ok) \/ MakeWorkerThread(ok)
       PROVE  TransportFate'
  <2>1. UNCHANGED <<transport, hprocess, mpc>> /\ tpc' # "create"
    BY <1>10 DEF TimerTest, TimerRun, TimerPost, TimerReturn, TimerConnect, TestSleepThread,
                 WakeSleepThread, TestWorkerThread, WakeWorkerThread, TimerStart,
                 MakeSleepThread, MakeWorkerThread, process, main
  <2>2. trouble \subseteq trouble'
    BY <1>10, Remembered
    DEF TimerTest, TimerRun, TimerPost, TimerReturn, TimerConnect, TestSleepThread,
        WakeSleepThread, TestWorkerThread, WakeWorkerThread, TimerStart, MakeSleepThread,
        MakeWorkerThread
  <2> QED
    BY <2>1, <2>2, FateKept
<1>11. ASSUME \/ \E c \in Controls : Control(c)
              \/ \E i \in Threads : Sleep(i) \/ WorkerEnds(i)
              \/ Handler \/ TimerBeat \/ PostOther \/ UNCHANGED vars
       PROVE  TransportFate'
  <2>1. UNCHANGED <<transport, hprocess, mpc, trouble, tpc>>
    BY <1>11 DEF Control, Handler, HandlerReport, HandlerStore, Sleep, SleepStart, SleepTest,
                 SleepWait, SleepCheck, SleepPause, SleepResume, WorkerEnds, TimerBeat, PostOther,
                 vars, process, main, timer
  <2> QED
    BY <2>1, FateKept
<1> QED
  BY <1>1, <1>2, <1>3, <1>4, <1>5, <1>6, <1>7, <1>8, <1>9, <1>10, <1>11
  DEF Step, ServiceMain, Timer

(* However the processes die and are started again, the service leaves a    *)
(* transport process behind only for one of the reasons it can name.        *)
THEOREM TransportIsStopped == Spec => []TransportStopped
<1>1. Init => TransportFate
  BY DEF Init, TransportFate, Over
<1>2. TransportFate => TransportStopped
  BY DEF TransportFate, TransportStopped, Over, Excuses
<1> QED
  BY <1>1, <1>2, FateStep, TypeCorrect, PTL DEF Spec

-----------------------------------------------------------------------------
(* The end of the service: the handle of the TimerThread is null before it  *)
(* is made and after it is closed only; ServiceMain returns after STOPPED   *)
(* or before RUNNING, and then the handler changes nothing any more.        *)
Closing ==
  /\ ~htimer => tpc = "none" \/ mpc \in {"close_sleep", "kill"} \cup Over
  /\ mpc \in {"store_stopped", "returned"} =>
       \/ reported = "stopped"
       \/ reported \in {"none", "start_pending", "stop_pending"} /\ todo = << >>
  /\ reported \in {"none", "start_pending"} => hset = "none"

(* Steps of the threads and of the system. *)
LEMMA ClosingKept ==
  ASSUME Closing, UNCHANGED <<htimer, mpc, reported, todo, hset>>,
         tpc = "none" => tpc' = "none"
  PROVE  Closing'
  BY DEF Closing

LEMMA ClosingStep == Closing /\ Life /\ TypeOK /\ [Next]_vars => Closing'
<1> SUFFICES ASSUME Closing, Life, Types PROVE Step \/ UNCHANGED vars => Closing'
  BY DEF TypeOK, Types, Next, vars
<1>1. ASSUME NEW ok \in BOOLEAN, InitService(ok) PROVE Closing'
  <2>1. /\ mpc = "init" /\ reported = "none" /\ todo = << >> /\ hset = "none" /\ tpc = "none"
        /\ UNCHANGED <<todo, hset, htimer, tpc>>
    BY <1>1 DEF InitService, handler, timer, Life, Begun, Closing, Types, TypeStart
  <2> QED
    BY <1>1, <2>1 DEF InitService, Closing, scm
<1>2. ASSUME NEW ok \in BOOLEAN, CreateEvent(ok) PROVE Closing'
  <2>1. /\ mpc = "event" /\ todo = << >> /\ tpc = "none" /\ reported = "start_pending"
        /\ UNCHANGED <<todo, hset, htimer, tpc>>
    BY <1>2 DEF CreateEvent, handler, timer, Life, Begun, Early, Types, TypeStart
  <2> QED
    BY <1>2, <2>1 DEF CreateEvent, Closing, scm
<1>3. ASSUME NEW ok \in BOOLEAN,
             StartProcess(ok) \/ ResetIpAddress(ok) \/ CreateTimerThread(ok)
      PROVE  Closing'
  <2>1. /\ mpc \in {"process", "address", "timer"} /\ mpc' \notin {"store_stopped", "returned"}
        /\ tpc = "none" /\ (tpc' = "none" \/ htimer')
        /\ UNCHANGED <<reported, todo, hset>>
    BY <1>3 DEF StartProcess, ResetIpAddress, CreateTimerThread, handler, timer, scm, Types,
                TypeStart
  <2> QED
    BY <2>1 DEF Closing
<1>4. ASSUME NEW ok \in BOOLEAN, InitSleepThread(ok) \/ InitWorkerThread(ok) PROVE Closing'
  <2>1. /\ mpc \in {"sleep", "worker"} /\ reported = "start_pending" /\ todo = << >>
        /\ UNCHANGED <<reported, todo, hset, htimer, tpc>>
    BY <1>4 DEF InitSleepThread, InitWorkerThread, handler, timer, scm, Life, Begun, Early
  <2> QED
    BY <2>1 DEF Closing, Over
<1>5. ASSUME LoopServiceReport \/ StopServiceReport PROVE Closing'
  <2>1. /\ UNCHANGED <<todo, hset, htimer, tpc>>
        /\ \/ mpc = "loop" /\ mpc' = "store_running" /\ reported' = "running"
           \/ mpc = "report" /\ mpc' = "store_stopped" /\ reported' = "stopped"
    BY <1>5 DEF LoopServiceReport, StopServiceReport, Report, Accepted, handler, timer, Life,
                Begun, Early
  <2> QED
    BY <2>1 DEF Closing, Over
<1>6. ASSUME LoopServiceStore \/ LoopServiceWait \/ StopServiceStore PROVE Closing'
  <2>1. /\ UNCHANGED <<reported, todo, hset, htimer, tpc>>
        /\ \/ mpc = "store_running" /\ mpc' = "wait"
           \/ mpc = "wait" /\ mpc' = "stop_sleep"
           \/ mpc = "store_stopped" /\ mpc' = "returned"
    BY <1>6 DEF LoopServiceStore, LoopServiceWait, StopServiceStore, handler, timer, scm
  <2> QED
    BY <2>1 DEF Closing, Over
<1>7. ASSUME \/ StopSleepThread \/ StopTimerThread \/ StopWorkerThread \/ CloseThreads
             \/ \E ok \in BOOLEAN : StopProcess(ok)
      PROVE  Closing'
  <2>1. /\ UNCHANGED <<reported, todo, hset, tpc>> /\ mpc' \notin {"store_stopped", "returned"}
        /\ htimer' = htimer \/ mpc' = "close_sleep"
        /\ mpc = "close_sleep" => mpc' = "kill"
        /\ mpc = "kill" => mpc' = "report"
        /\ mpc \notin Over
    BY <1>7 DEF StopSleepThread, StopTimerThread, StopWorkerThread, CloseThreads, StopProcess,
                handler, timer, scm, Over
  <2> QED
    BY <2>1 DEF Closing, Over
<1>8. ASSUME NEW c \in Controls, Control(c) PROVE Closing'
  BY <1>8 DEF Control, Closing, scm, timer
<1>9. ASSUME HandlerReport PROVE Closing'
  <2>1. todo # << >> /\ UNCHANGED <<mpc, htimer, tpc>>
    BY <1>9 DEF HandlerReport, main, timer
  <2>2. /\ reported \notin {"none", "start_pending"}
        /\ mpc \in {"store_stopped", "returned"} => reported = "stopped"
    BY <2>1 DEF Closing, Life, Begun
  <2>3. /\ reported' \notin {"none", "start_pending"}
        /\ reported = "stopped" => reported' = "stopped"
    <3>1. Head(todo) \notin {"none", "start_pending"}
      BY <2>1 DEF Types, TypeStatus
    <3> QED
      BY <1>9, <2>2, <3>1 DEF HandlerReport, Report, Accepted
  <2> QED
    BY <2>1, <2>2, <2>3 DEF Closing
<1>10. ASSUME HandlerStore PROVE Closing'
  BY <1>10 DEF HandlerStore, Closing, main, timer
<1>11. ASSUME NEW i \in Threads, Sleep(i) \/ WorkerEnds(i) PROVE Closing'
  <2>1. UNCHANGED <<htimer, mpc, reported, todo, hset, tpc>>
    BY <1>11 DEF Sleep, SleepStart, SleepTest, SleepWait, SleepCheck, SleepPause, SleepResume,
                 WorkerEnds, scm, main, handler, timer
  <2> QED
    BY <2>1, ClosingKept
<1>12. ASSUME Timer PROVE Closing'
  <2>1. UNCHANGED <<htimer, mpc, reported, todo, hset>> /\ tpc # "none"
    BY <1>12
    DEF Timer, TimerTest, TimerRun, TimerPost, TimerReturn, TimerQueryProcess, TimerConnect,
        TestSleepThread, WakeSleepThread, TestWorkerThread, WakeWorkerThread, TimerStart,
        TimerCreateProcess, MakeSleepThread, MakeWorkerThread, scm, main, handler
  <2> QED
    BY <2>1, ClosingKept
<1>13. ASSUME TimerBeat \/ PostOther \/ TransportDies \/ UNCHANGED vars PROVE Closing'
  <2>1. UNCHANGED <<htimer, mpc, reported, todo, hset, tpc>>
    BY <1>13 DEF TimerBeat, PostOther, TransportDies, vars, scm, main, handler, timer
  <2> QED
    BY <2>1, ClosingKept
<1> QED
  BY <1>1, <1>2, <1>3, <1>4, <1>5, <1>6, <1>7, <1>8, <1>9, <1>10, <1>11, <1>12, <1>13
  DEF Step, ServiceMain, Handler

(* The status that is kept and the one that was reported, while no two      *)
(* threads change them at the same time.                                    *)
Settled ==
  /\ mset # "none" => reported = mset
  /\ hset # "none" => reported = hset
  /\ mset = "none" /\ hset = "none" /\ ~Dispatching =>
       status = IF reported = "none" THEN "stopped" ELSE reported
  /\ Dispatching => reported = "running" /\ status \in {"running", "paused"}
  /\ Dispatching /\ status = "paused" => \E i \in Threads : spc[i] = "resume"

Agrees == /\ ~overlapped => ~Overlap
          /\ ~overlapped => Settled

(* Steps that leave alone the status and the threads that change it. *)
LEMMA SettledKept ==
  ASSUME Settled, UNCHANGED <<reported, status, mset, hset>>,
         \A i \in Threads : spc'[i] \in {"pause", "resume"} \/ spc[i] \in {"pause", "resume"} =>
                            spc'[i] = spc[i]
  PROVE  Settled'
<1>1. Dispatching' <=> Dispatching
  BY DEF Dispatching
<1> QED
  BY <1>1 DEF Settled

(* A SleepThread that changes the status is not terminated: the stop is not *)
(* reported before it has come.                                             *)
LEMMA NotDispatched ==
  ASSUME Life, Closing, Types, Settled, ~Overlap,
         mpc = "stop_sleep" \/ (~htimer /\ tpc # "none")
  PROVE  ~Dispatching
<1>1. mpc \in {"stop_sleep", "close_sleep", "kill", "report", "store_stopped", "returned"}
  BY DEF Closing, Over
<1> SUFFICES ASSUME Dispatching PROVE FALSE
  OBVIOUS
<1>2. ~Handling /\ mset = "none"
  BY DEF Overlap
<1>3. todo = << >>
  BY <1>2 DEF Handling
<1>4. mpc # "store_stopped"
  BY <1>2 DEF Types, TypeStatus
<1>5. mpc \in {"stop_sleep", "close_sleep", "kill"} => event
  BY DEF Life, Begun, Late
<1>6. event => reported \in {"stop_pending", "stopped"}
  BY <1>3 DEF Life, Handled
<1>7. mpc = "report" => event \/ reported = "start_pending"
  BY DEF Life, Begun
<1>8. reported = "running"
  BY DEF Settled
<1> QED
  BY <1>1, <1>4, <1>5, <1>6, <1>7, <1>8 DEF Closing

LEMMA SettledStep ==
  ASSUME Life, Closing, Types, Settled, ~Overlap, ~Overlap', Step
  PROVE  Settled'
<1> DEFINE Apart == \A i \in Threads :
             spc'[i] \in {"pause", "resume"} \/ spc[i] \in {"pause", "resume"} => spc'[i] = spc[i]
<1>a. (mset # "none" => ~Dispatching) /\ (mset' # "none" => ~Dispatching')
  BY DEF Overlap
<1>b. (Handling => mset = "none" /\ ~Dispatching) /\ (Handling' => mset' = "none" /\ ~Dispatching')
  BY DEF Overlap
<1>c. spc' = spc => Dispatching' = Dispatching
  BY DEF Dispatching
<1>d. spc' = spc /\ (\E i \in Threads : spc[i] = "resume") => \E i \in Threads : spc'[i] = "resume"
  OBVIOUS
<1>1. ASSUME NEW ok \in BOOLEAN, InitService(ok) \/ CreateEvent(ok) PROVE Settled'
  <2>1. /\ mset = "none" /\ hset = "none" /\ UNCHANGED <<mset, hset, spc>>
        /\ \/ UNCHANGED <<reported, status>>
           \/ reported' # "none" /\ reported' = status'
    BY <1>1 DEF InitService, CreateEvent, handler, sleeper, scm, Life, Begun, Early, Closing, Types,
                TypeStatus
  <2>2. ~Dispatching
    BY <1>1 DEF InitService, CreateEvent, Types, TypeStart, Dispatching
  <2> QED
    BY <2>1, <2>2, <1>c DEF Settled
<1>2. ASSUME NEW ok \in BOOLEAN,
             \/ StartProcess(ok) \/ ResetIpAddress(ok) \/ CreateTimerThread(ok)
             \/ InitWorkerThread(ok) \/ StopProcess(ok)
      PROVE  Settled'
  <2>1. UNCHANGED <<reported, status, mset, hset, spc>>
    BY <1>2 DEF StartProcess, ResetIpAddress, CreateTimerThread, InitWorkerThread, StopProcess,
                scm, handler, sleeper
  <2> QED
    BY <2>1, SettledKept
<1>3. ASSUME NEW ok \in BOOLEAN, InitSleepThread(ok) \/ MakeSleepThread(ok) PROVE Settled'
  <2>1. UNCHANGED <<reported, status, mset, hset>>
    BY <1>3 DEF InitSleepThread, MakeSleepThread, scm, main, handler
  <2>2. Apart
    BY <1>3 DEF InitSleepThread, MakeSleepThread, CreateSleepThread, Create, Types, TypeSleepers
  <2> QED
    BY <2>1, <2>2, SettledKept
<1>4. ASSUME LoopServiceReport \/ StopServiceReport PROVE Settled'
  <2>1. mset' # "none" /\ reported' = mset' /\ UNCHANGED hset
    BY <1>4 DEF LoopServiceReport, StopServiceReport, Report, Accepted, handler, Life, Begun, Early
  <2>2. ~Handling' /\ ~Dispatching'
    BY <2>1, <1>a, <1>b
  <2> QED
    BY <2>1, <2>2 DEF Settled, Handling
<1>5. ASSUME LoopServiceStore \/ StopServiceStore PROVE Settled'
  <2>1. /\ mset # "none" /\ reported = mset /\ UNCHANGED <<reported, hset, spc>>
        /\ status' = mset /\ mset' = "none"
    BY <1>5 DEF LoopServiceStore, StopServiceStore, Settled, handler, sleeper, Types, TypeStatus
  <2>2. hset = "none" /\ ~Dispatching'
    BY <2>1, <1>a, <1>b, <1>c DEF Handling
  <2> QED
    BY <2>1, <2>2 DEF Settled
<1>6. ASSUME \/ LoopServiceWait \/ StopTimerThread \/ StopWorkerThread \/ CloseThreads
             \/ \E c \in Controls : Control(c)
             \/ \E i \in Threads : WorkerEnds(i)
             \/ TimerBeat \/ PostOther \/ TransportDies
      PROVE  Settled'
  <2>1. UNCHANGED <<reported, status, mset, hset, spc>>
    BY <1>6 DEF LoopServiceWait, StopTimerThread, StopWorkerThread, CloseThreads, Control,
                WorkerEnds, TimerBeat, PostOther, TransportDies, scm, main, handler, sleeper
  <2> QED
    BY <2>1, SettledKept
<1>7. ASSUME HandlerReport PROVE Settled'
  <2>1. Handling /\ mset = "none" /\ ~Dispatching /\ hset = "none"
    BY <1>7, <1>b DEF HandlerReport, Handling
  <2>2. UNCHANGED <<mset, spc, status>>
    BY <1>7 DEF HandlerReport, main, sleeper
  <2>3. CASE Accepted
    <3>1. reported' = hset' /\ Head(todo) \in States
      BY <1>7, <2>3, TodoShrinks DEF HandlerReport, Report, Types, TypeStatus, Todos
    <3>2. hset' # "none"
      BY <1>7, <2>3, <3>1 DEF HandlerReport, States
    <3> QED
      BY <2>1, <2>2, <3>1, <3>2, <1>c DEF Settled
  <2>4. CASE ~Accepted
    <3>1. UNCHANGED <<reported, hset>>
      BY <1>7, <2>1, <2>4 DEF HandlerReport, Report
    <3> QED
      BY <2>2, <3>1, SettledKept
  <2> QED
    BY <2>3, <2>4
<1>8. ASSUME HandlerStore PROVE Settled'
  <2>1. mset = "none" /\ ~Dispatching /\ reported = hset /\ hset # "none"
    BY <1>8, <1>b DEF HandlerStore, Handling, Settled
  <2>2. UNCHANGED <<mset, spc, reported>> /\ status' = hset /\ hset' = "none"
    BY <1>8 DEF HandlerStore, main, sleeper
  <2> QED
    BY <2>1, <2>2, <1>c DEF Settled
<1>9. ASSUME NEW i \in Threads, SleepStart(i) \/ SleepTest(i) \/ SleepWait(i) PROVE Settled'
  <2>1. UNCHANGED <<reported, status, mset, hset>>
    BY <1>9 DEF SleepStart, SleepTest, SleepWait, scm, main, handler
  <2>2. Apart
    BY <1>9 DEF SleepStart, SleepTest, SleepWait, Goto, Types, TypeSleepers
  <2> QED
    BY <2>1, <2>2, SettledKept
<1>10. ASSUME NEW i \in Threads, SleepCheck(i) PROVE Settled'
  <2>1. UNCHANGED <<reported, status, mset, hset, todo>> /\ spc[i] = "check"
    BY <1>10 DEF SleepCheck, scm, main, handler
  <2>2. CASE status = "running"
    <3>1. spc' = [spc EXCEPT ![i] = "pause"]
      BY <1>10, <2>2 DEF SleepCheck, Goto
    <3>2. Dispatching'
      BY <3>1 DEF Dispatching, Types, TypeSleepers
    <3>3. mset = "none" /\ hset = "none"
      BY <2>1, <3>2 DEF Overlap, Handling
    <3>4. reported = "running"
      BY <2>2, <3>3 DEF Settled, Types, TypeStatus
    <3> QED
      BY <2>1, <2>2, <3>3, <3>4 DEF Settled
  <2>3. CASE status # "running"
    <3>1. Apart
      BY <1>10, <2>3 DEF SleepCheck, Goto, Types, TypeSleepers
    <3> QED
      BY <2>1, <3>1, SettledKept
  <2> QED
    BY <2>2, <2>3
<1>11. ASSUME NEW i \in Threads, SleepPause(i) PROVE Settled'
  <2>1. /\ UNCHANGED <<reported, mset, hset>> /\ spc[i] = "pause"
        /\ reported = "running" /\ mset = "none" /\ hset = "none"
        /\ status \in {"running", "paused"}
    <3>1. Dispatching
      BY <1>11 DEF SleepPause, Dispatching
    <3> QED
      BY <1>11, <3>1 DEF SleepPause, main, handler, Settled, Overlap, Handling
  <2>2. CASE status' = "paused" /\ Goto(i, "resume")
    <3>1. spc'[i] = "resume"
      BY <2>2 DEF Goto, Types, TypeSleepers
    <3>2. Dispatching'
      BY <3>1 DEF Dispatching
    <3> QED
      BY <2>1, <2>2, <3>1, <3>2 DEF Settled
  <2>3. CASE UNCHANGED status /\ Goto(i, "test")
    <3>1. status = "paused" => \E j \in Threads : spc'[j] = "resume"
      <4>1. SUFFICES ASSUME status = "paused" PROVE \E j \in Threads : spc'[j] = "resume"
        OBVIOUS
      <4>2. PICK j \in Threads : spc[j] = "resume"
        BY <2>1, <4>1 DEF Settled, Dispatching
      <4>3. spc'[j] = "resume"
        BY <2>1, <2>3, <4>2 DEF Goto, Types, TypeSleepers
      <4> QED
        BY <4>3
    <3>2. ~Dispatching' => status # "paused"
      BY <3>1 DEF Dispatching
    <3> QED
      BY <2>1, <2>3, <3>1, <3>2 DEF Settled
  <2> QED
    BY <1>11, <2>2, <2>3 DEF SleepPause
<1>12. ASSUME NEW i \in Threads, SleepResume(i) PROVE Settled'
  <2>1. Dispatching
    BY <1>12 DEF SleepResume, Dispatching
  <2>2. /\ UNCHANGED <<reported, mset, hset>> /\ status' = "running"
        /\ reported = "running" /\ mset = "none" /\ hset = "none"
    BY <1>12, <2>1 DEF SleepResume, main, handler, Settled, Overlap, Handling
  <2> QED
    BY <2>2 DEF Settled
<1>13. ASSUME StopSleepThread \/ WakeSleepThread PROVE Settled'
  <2>1. UNCHANGED <<reported, status, mset, hset>>
    BY <1>13 DEF StopSleepThread, WakeSleepThread, scm, main, handler
  <2>2. CASE spc' = spc
    BY <2>1, <2>2, SettledKept
  <2>3. CASE spc' # spc
    <3>1. spc' = Terminated(spc, hsleep) /\ (mpc = "stop_sleep" \/ (~htimer /\ tpc # "none"))
      BY <1>13, <2>3 DEF StopSleepThread, WakeSleepThread
    <3>2. ~Dispatching
      BY <3>1, NotDispatched
    <3>3. Apart
      BY <3>1, <3>2 DEF Terminated, Dispatching
    <3> QED
      BY <2>1, <3>3, SettledKept
  <2> QED
    BY <2>2, <2>3
<1>14. ASSUME \/ TimerTest \/ TimerRun \/ TimerPost \/ TimerReturn \/ TimerQueryProcess
              \/ TimerConnect \/ TestSleepThread \/ TestWorkerThread \/ WakeWorkerThread
              \/ \E ok \in BOOLEAN : \/ TimerStart(ok) \/ TimerCreateProcess(ok)
                                     \/ MakeWorkerThread(ok)
       PROVE  Settled'
  <2>1. UNCHANGED <<reported, status, mset, hset, spc>>
    BY <1>14 DEF TimerTest, TimerRun, TimerPost, TimerReturn, TimerQueryProcess, TimerConnect,
                 TestSleepThread, TestWorkerThread, WakeWorkerThread, TimerStart,
                 TimerCreateProcess, MakeWorkerThread, scm, main, handler, sleeper
  <2> QED
    BY <2>1, SettledKept
<1> QED
  BY <1>1, <1>2, <1>3, <1>4, <1>5, <1>6, <1>7, <1>8, <1>9, <1>10, <1>11, <1>12, <1>13, <1>14
  DEF Step, ServiceMain, Handler, Timer, Sleep

LEMMA AgreesStep == Agrees /\ Closing /\ Life /\ TypeOK /\ [Next]_vars => Agrees'
<1> SUFFICES ASSUME Agrees, Closing, Life, Types, [Next]_vars PROVE Agrees'
  BY DEF TypeOK, Types
<1>1. CASE Next
  <2>1. Step /\ overlapped' = (overlapped \/ Overlap')
    BY <1>1 DEF Next
  <2>2. SUFFICES ASSUME ~overlapped' PROVE ~Overlap' /\ Settled'
    BY DEF Agrees
  <2>3. ~overlapped /\ ~Overlap'
    BY <2>1, <2>2
  <2> QED
    BY <2>1, <2>3, SettledStep DEF Agrees
<1>2. CASE UNCHANGED vars
  <2>1. UNCHANGED <<reported, status, mset, hset, spc, todo, overlapped>>
    BY <1>2 DEF vars, scm, main, handler, sleeper
  <2>2. Overlap' = Overlap
    BY <2>1 DEF Overlap, Handling, Dispatching
  <2> QED
    BY <2>1, <2>2, SettledKept DEF Agrees
<1> QED
  BY <1>1, <1>2

(* The status kept agrees with the one reported whenever nobody is changing *)
(* it, unless two threads have been changing it at the same time: neither a *)
(* refused report nor a SleepThread terminated while the service is paused  *)
(* for its reason can part them.                                            *)
THEOREM StatusAgrees == Spec => []StatusIsReported
<1>1. Init => Life
  BY LifeStarts
<1>2. Init => Closing /\ Agrees
  BY DEF Init, Closing, Agrees, Settled, Overlap, Handling, Dispatching
<1>3. Agrees /\ TypeOK => StatusIsReported
  BY DEF Agrees, Settled, StatusIsReported, Handling
<1>4. Life /\ TypeOK /\ [Next]_vars => Life'
  BY LifeStep
<1> QED
  BY <1>1, <1>2, <1>3, <1>4, ClosingStep, AgreesStep, TypeCorrect, PTL DEF Spec

-----------------------------------------------------------------------------
(* The reason to end: what is in the queue stays there until it is run. *)
LEMMA QueuedGrows ==
  ASSUME NEW a \in Apcs, apcs \in Seq(Apcs), apcs' = Append(apcs, a)
  PROVE  Queued(a)' /\ apcs' # << >> /\ (Queued("exit") => Queued("exit")')
<1>1. /\ Len(apcs) \in Nat /\ DOMAIN apcs = 1..Len(apcs)
      /\ DOMAIN apcs' = 1..(Len(apcs) + 1)
      /\ apcs'[Len(apcs) + 1] = a
      /\ \A k \in 1..Len(apcs) : apcs'[k] = apcs[k]
  OBVIOUS
<1>2. Queued(a)' /\ (Queued("exit") => Queued("exit")')
  BY <1>1 DEF Queued
<1>3. apcs' # << >>
  OBVIOUS
<1> QED
  BY <1>2, <1>3

LEMMA QueuedShrinks ==
  ASSUME apcs \in Seq(Apcs), apcs # << >>, apcs' = Tail(apcs), Head(apcs) # "exit", Queued("exit")
  PROVE  Queued("exit")'
<1>1. PICK k \in DOMAIN apcs : apcs[k] = "exit"
  BY DEF Queued
<1>2. k \in 2..Len(apcs)
  BY <1>1
<1>3. k - 1 \in DOMAIN apcs' /\ apcs'[k - 1] = "exit"
  BY <1>1, <1>2
<1> QED
  BY <1>3 DEF Queued

(* What ServiceMain has seen to, place by place of its stop. *)
Told1 == {"stop_timer", "stop_worker", "close_worker", "close_timer", "close_sleep", "kill"}
         \cup Over
Told2 == Told1 \ {"stop_timer"}
Told3 == Told2 \ {"stop_worker"}
Live(i) == spc[i] \notin {"none", "ended"}
Unheard == {"unstarted", "no_address", "respawned", "unheard"}

Heard ==
  /\ mpc = "stop_sleep" => \A i \in Threads : Live(i) => i = hsleep
  /\ mpc \in Told1 =>
       \A i \in Threads : Live(i) => ExitComing /\ \A j \in Threads : Live(j) => i = j
  /\ mpc \in Told2 => texit /\ (tpc = "sleep" => apcs # << >>)
  /\ mpc \in Told3 => wexit

Hears == Excused(Unheard) \/ Heard

(* Steps that start no thread and take no reason from the queue. *)
LEMMA HearsKept ==
  ASSUME Hears, trouble \subseteq trouble',
         mpc' = mpc \/ (mpc \in Told3 /\ mpc' \in Told3),
         hsleep' = hsleep \/ mpc # "stop_sleep",
         \A i \in Threads : Live(i)' => Live(i),
         ExitComing => ExitComing' \/ \A i \in Threads : ~Live(i)',
         texit => texit', wexit => wexit',
         tpc' = "sleep" /\ texit => tpc = "sleep",
         apcs # << >> => tpc' # "sleep" \/ apcs' # << >>
  PROVE  Hears'
<1>1. Excused(Unheard) => Excused(Unheard)'
  BY DEF Excused
<1>2. SUFFICES ASSUME Heard PROVE Heard'
  BY <1>1 DEF Hears
<1>3. mpc' \in Told1 => mpc \in Told1
  BY DEF Told3, Told2
<1>4. mpc' \in Told2 => mpc \in Told2
  BY DEF Told3
<1>5. mpc' \in Told3 => mpc \in Told3
  OBVIOUS
<1>6. mpc' = "stop_sleep" => mpc = "stop_sleep"
  BY DEF Told3, Told2, Told1, Over
<1>7. (mpc = "stop_sleep" => \A i \in Threads : Live(i) => i = hsleep)'
  BY <1>2, <1>6 DEF Heard
<1>8. (mpc \in Told1 =>
         \A i \in Threads : Live(i) => ExitComing /\ \A j \in Threads : Live(j) => i = j)'
  BY <1>2, <1>3 DEF Heard
<1>9. (mpc \in Told2 => texit /\ (tpc = "sleep" => apcs # << >>))'
  BY <1>2, <1>4 DEF Heard
<1>10. (mpc \in Told3 => wexit)'
  BY <1>2, <1>5 DEF Heard
<1> QED
  BY <1>7, <1>8, <1>9, <1>10 DEF Heard

LEMMA HearsStep == Hears /\ Alone /\ Closing /\ TypeOK /\ [Next]_vars => Hears'
<1> SUFFICES ASSUME Hears, Alone, Closing, Types PROVE Step \/ UNCHANGED vars => Hears'
  BY DEF TypeOK, Types, Next, vars
<1>a. mpc' \notin Told1 \cup {"stop_sleep"} => Hears'
  BY DEF Hears, Heard, Told2, Told3
<1>b. UNCHANGED <<slot, tpost, tpc, apcs>> => ExitComing' = ExitComing
  BY DEF ExitComing, Queued
<1>c. spc' = spc => \A i \in Threads : Live(i)' = Live(i)
  BY DEF Live
<1>1. ASSUME NEW ok \in BOOLEAN,
             \/ InitService(ok) \/ CreateEvent(ok) \/ StartProcess(ok) \/ ResetIpAddress(ok)
             \/ CreateTimerThread(ok) \/ InitSleepThread(ok) \/ InitWorkerThread(ok)
      PROVE  Hears'
  <2>1. mpc' \in Told1 \cup {"stop_sleep"} => trouble' \cap {"unstarted", "no_address"} # {}
    BY <1>1 DEF InitService, CreateEvent, StartProcess, ResetIpAddress, CreateTimerThread,
                InitSleepThread, InitWorkerThread, Named, Told1, Over
  <2> QED
    BY <2>1, <1>a DEF Hears, Excused, Unheard
<1>2. ASSUME LoopServiceReport \/ LoopServiceStore PROVE Hears'
  BY <1>2, <1>a DEF LoopServiceReport, LoopServiceStore, Told1, Over
<1>3. ASSUME LoopServiceWait PROVE Hears'
  <2>1. mpc = "wait" /\ mpc' = "stop_sleep" /\ UNCHANGED <<spc, hsleep>>
    BY <1>3 DEF LoopServiceWait, sleeper
  <2>2. \A i \in Threads : Live(i) => i = hsleep
    BY <2>1 DEF Alone, Stopping, Live
  <2> QED
    BY <2>1, <2>2, <1>c DEF Hears, Heard, Told1, Told2, Told3, Over
<1>4. ASSUME StopSleepThread PROVE Hears'
  <2>1. mpc = "stop_sleep" /\ mpc' = "stop_timer" /\ UNCHANGED <<hsleep, tpc, trouble>>
    BY <1>4 DEF StopSleepThread
  <2>2. SUFFICES ASSUME Heard PROVE Heard'
    BY <2>1 DEF Hears, Excused
  <2>3. CASE tpc # "ended"
    <3>1. apcs' = Append(apcs, "exit") /\ spc' = spc
      BY <1>4, <2>3 DEF StopSleepThread
    <3>2. ExitComing'
      BY <2>1, <2>3, <3>1, QueuedGrows DEF ExitComing, Apcs, Types, TypeTimer
    <3> QED
      BY <2>1, <2>2, <3>1, <3>2, <1>c DEF Heard, Told1, Told2, Told3, Over
  <2>4. CASE tpc = "ended"
    <3>1. spc' = Terminated(spc, hsleep)
      BY <1>4, <2>4 DEF StopSleepThread
    <3>2. \A i \in Threads : ~Live(i)'
      BY <2>1, <2>2, <3>1 DEF Terminated, Alive, Heard, Live
    <3> QED
      BY <2>1, <3>2 DEF Heard, Told1, Told2, Told3, Over
  <2> QED
    BY <2>3, <2>4
<1>5. ASSUME StopTimerThread PROVE Hears'
  <2>1. /\ mpc = "stop_timer" /\ mpc' = "stop_worker" /\ texit' = TRUE
        /\ UNCHANGED <<spc, tpc, trouble, slot, tpost>>
    BY <1>5 DEF StopTimerThread, sleeper
  <2>2. SUFFICES ASSUME Heard PROVE Heard'
    BY <2>1 DEF Hears, Excused
  <2>3. \/ tpc # "ended" /\ apcs' = Append(apcs, "wake")
        \/ tpc = "ended" /\ apcs' = apcs
    BY <1>5 DEF StopTimerThread
  <2>4. (ExitComing => ExitComing') /\ (tpc = "sleep" => apcs' # << >>)
    BY <2>1, <2>3, <1>b, QueuedGrows DEF ExitComing, Apcs, Types, TypeTimer
  <2> QED
    BY <2>1, <2>2, <2>4, <1>c DEF Heard, Told1, Told2, Told3, Over
<1>6. ASSUME StopWorkerThread PROVE Hears'
  <2>1. /\ mpc = "stop_worker" /\ mpc' = "close_worker" /\ wexit' = TRUE
        /\ UNCHANGED <<spc, tpc, trouble, slot, tpost, apcs, texit>>
    BY <1>6 DEF StopWorkerThread, sleeper, timer
  <2>2. SUFFICES ASSUME Heard PROVE Heard'
    BY <2>1 DEF Hears, Excused
  <2> QED
    BY <2>1, <2>2, <1>b, <1>c DEF Heard, Told1, Told2, Told3, Over
<1>7. ASSUME \/ CloseThreads \/ StopServiceReport \/ StopServiceStore
             \/ \E ok \in BOOLEAN : StopProcess(ok)
      PROVE  Hears'
  <2>1. /\ mpc \in Told3 /\ mpc' \in Told3 /\ UNCHANGED <<spc, tpc, slot, tpost, apcs, texit, wexit>>
        /\ trouble \subseteq trouble'
    BY <1>7, Remembered DEF CloseThreads, StopServiceReport, StopServiceStore, StopProcess, sleeper,
                timer, worker, Told1, Told2, Told3, Over
  <2>2. mpc # "stop_sleep"
    BY <2>1 DEF Told3, Told2, Told1, Over
  <2> QED
    BY <2>1, <2>2, <1>b, <1>c, HearsKept
<1>8. ASSUME (\E c \in Controls : Control(c)) \/ Handler \/ TransportDies \/ UNCHANGED vars
      PROVE  Hears'
  <2>1. /\ UNCHANGED <<mpc, hsleep, spc, tpc, slot, tpost, apcs, texit, wexit>>
        /\ trouble \subseteq trouble'
    BY <1>8, Remembered DEF Control, Handler, HandlerReport, HandlerStore, TransportDies, vars, main,
                sleeper, timer, worker
  <2> QED
    BY <2>1, <1>b, <1>c, HearsKept
<1>9. ASSUME NEW i \in Threads, Sleep(i) PROVE Hears'
  <2>1. /\ UNCHANGED <<mpc, hsleep, tpc, tpost, apcs, texit, wexit, trouble>>
        /\ \A j \in Threads : Live(j)' => Live(j)
    BY <1>9 DEF Sleep, SleepStart, SleepTest, SleepWait, SleepCheck, SleepPause, SleepResume, Goto,
                Types, TypeSleepers, Live, main, timer, worker
  <2>2. CASE SleepWait(i) /\ slot = "exit__thread"
    <3>1. Live(i) /\ ~Live(i)' /\ \A j \in Threads \ {i} : Live(j)' => Live(j)
      BY <2>1, <2>2 DEF SleepWait, Goto, Live, Types, TypeSleepers
    <3>2. CASE Excused(Unheard)
      BY <2>1, <3>2 DEF Hears, Excused
    <3>3. CASE Heard
      <4>1. mpc \in Told1 => \A j \in Threads : ~Live(j)'
        BY <3>1, <3>3 DEF Heard
      <4>2. Heard'
        BY <2>1, <3>3, <4>1 DEF Heard
      <4> QED
        BY <4>2 DEF Hears
    <3> QED
      BY <3>2, <3>3 DEF Hears
  <2>3. CASE ~(SleepWait(i) /\ slot = "exit__thread")
    <3>1. slot = "exit__thread" => slot' = slot
      BY <1>9, <2>3 DEF Sleep, SleepStart, SleepTest, SleepCheck, SleepPause, SleepResume
    <3>2. ExitComing => ExitComing'
      BY <2>1, <3>1 DEF ExitComing, Queued
    <3> QED
      BY <2>1, <3>2, HearsKept
  <2> QED
    BY <2>2, <2>3
<1>10. ASSUME NEW i \in Threads, WorkerEnds(i) PROVE Hears'
  <2>1. UNCHANGED <<mpc, hsleep, spc, tpc, slot, tpost, apcs, texit, wexit, trouble>>
    BY <1>10 DEF WorkerEnds, main, sleeper, timer
  <2> QED
    BY <2>1, <1>b, <1>c, HearsKept
<1>11. ASSUME PostOther PROVE Hears'
  <2>1. UNCHANGED <<mpc, hsleep, spc, tpc, tpost, apcs, texit, wexit, trouble>> /\ slot = "none"
    BY <1>11 DEF PostOther, main, sleeper, timer, worker
  <2>2. ExitComing => ExitComing'
    BY <2>1 DEF ExitComing, Queued
  <2> QED
    BY <2>1, <2>2, <1>c, HearsKept
<1>12. ASSUME NEW ok \in BOOLEAN, TimerStart(ok) PROVE Hears'
  <2>1. /\ UNCHANGED <<mpc, hsleep, spc, slot, tpost, apcs, texit, wexit>>
        /\ trouble \subseteq trouble' /\ tpc = "start" /\ tpc' = IF ok THEN "test" ELSE "ended"
    BY <1>12, Remembered DEF TimerStart, main, sleeper, worker
  <2>2. CASE ~ok /\ Queued("exit")
    BY <1>12, <2>2 DEF TimerStart, Named, Hears, Excused, Unheard
  <2>3. CASE ~(~ok /\ Queued("exit"))
    <3>1. ExitComing => ExitComing'
      BY <2>1, <2>3 DEF ExitComing, Queued
    <3> QED
      BY <2>1, <3>1, <1>c, HearsKept
  <2> QED
    BY <2>2, <2>3
<1>13. ASSUME TimerTest PROVE Hears'
  <2>1. /\ UNCHANGED <<mpc, hsleep, spc, slot, tpost, apcs, texit, wexit>>
        /\ trouble \subseteq trouble' /\ tpc = "test" /\ tpc' = IF texit THEN "ended" ELSE "sleep"
    BY <1>13, Remembered DEF TimerTest, main, sleeper, worker
  <2>2. CASE texit /\ Queued("exit")
    BY <1>13, <2>2 DEF TimerTest, Named, Hears, Excused, Unheard
  <2>3. CASE ~(texit /\ Queued("exit"))
    <3>1. ExitComing => ExitComing'
      BY <2>1, <2>3 DEF ExitComing, Queued
    <3> QED
      BY <2>1, <3>1, <1>c, HearsKept
  <2> QED
    BY <2>2, <2>3
<1>14. ASSUME TimerBeat PROVE Hears'
  <2>1. /\ UNCHANGED <<mpc, hsleep, spc, tpc, slot, tpost, texit, wexit, trouble>>
        /\ apcs' = Append(apcs, "beat")
    BY <1>14 DEF TimerBeat, main, sleeper, worker
  <2>2. apcs' # << >> /\ (ExitComing => ExitComing')
    BY <2>1, QueuedGrows DEF ExitComing, Apcs, Types, TypeTimer
  <2> QED
    BY <2>1, <2>2, <1>c, HearsKept
<1>15. ASSUME TimerRun PROVE Hears'
  <2>1. /\ UNCHANGED <<mpc, hsleep, spc, slot, texit, wexit, trouble>>
        /\ apcs # << >> /\ apcs' = Tail(apcs) /\ tpc' \notin {"sleep", "ended"}
        /\ tpost = "none" /\ (Head(apcs) = "exit" => tpost' = "exit__thread")
    BY <1>15 DEF TimerRun, main, sleeper, worker, Types, TypeTimer
  <2>2. ExitComing => ExitComing'
    BY <2>1, QueuedShrinks DEF ExitComing, Apcs, Types, TypeTimer
  <2> QED
    BY <2>1, <2>2, <1>c, HearsKept
<1>16. ASSUME TimerPost PROVE Hears'
  <2>1. /\ UNCHANGED <<mpc, hsleep, spc, apcs, texit, wexit, trouble>>
        /\ slot = "none" /\ slot' = tpost /\ tpc = "post" /\ tpc' = "drain"
    BY <1>16 DEF TimerPost, main, sleeper, worker
  <2>2. ExitComing => ExitComing'
    BY <2>1 DEF ExitComing, Queued
  <2> QED
    BY <2>1, <2>2, <1>c, HearsKept
<1>17. ASSUME \/ TimerReturn \/ TimerQueryProcess \/ TimerConnect \/ TestSleepThread
              \/ TestWorkerThread \/ WakeWorkerThread \/ \E ok \in BOOLEAN : TimerCreateProcess(ok)
       PROVE  Hears'
  <2>1. /\ UNCHANGED <<mpc, hsleep, spc, slot, tpost, apcs, texit, wexit>>
        /\ trouble \subseteq trouble' /\ tpc # "ended" /\ tpc' \notin {"sleep", "ended"}
    BY <1>17, Remembered DEF TimerReturn, TimerQueryProcess, TimerConnect, TestSleepThread,
                 TestWorkerThread, WakeWorkerThread, TimerCreateProcess, main, sleeper, worker
  <2>2. ExitComing => ExitComing'
    BY <2>1 DEF ExitComing, Queued
  <2> QED
    BY <2>1, <2>2, <1>c, HearsKept
<1>18. ASSUME WakeSleepThread PROVE Hears'
  <2>1. /\ UNCHANGED <<mpc, slot, tpost, texit, wexit, trouble>>
        /\ tpc = "wake_sleep" /\ tpc' \notin {"sleep", "ended"}
    BY <1>18 DEF WakeSleepThread, main, worker
  <2>2. CASE htimer
    <3>1. apcs' = Append(apcs, "empty") /\ UNCHANGED <<spc, hsleep>>
      BY <1>18, <2>2 DEF WakeSleepThread
    <3>2. ExitComing => ExitComing'
      BY <2>1, <3>1, QueuedGrows DEF ExitComing, Apcs, Types, TypeTimer
    <3> QED
      BY <2>1, <3>1, <3>2, <1>c, HearsKept
  <2>3. CASE ~htimer
    <3>1. spc' = Terminated(spc, hsleep) /\ apcs' = apcs
      BY <1>18, <2>3 DEF WakeSleepThread
    <3>2. mpc # "stop_sleep"
      BY <2>1, <2>3 DEF Closing, Over
    <3>3. \A i \in Threads : Live(i)' => Live(i)
      BY <3>1 DEF Terminated, Live
    <3>4. ExitComing => ExitComing'
      BY <2>1, <3>1 DEF ExitComing, Queued
    <3> QED
      BY <2>1, <3>2, <3>3, <3>4, HearsKept
  <2> QED
    BY <2>2, <2>3
<1>19. ASSUME NEW ok \in BOOLEAN, MakeSleepThread(ok) \/ MakeWorkerThread(ok) PROVE Hears'
  <2>1. /\ UNCHANGED <<mpc, slot, tpost, texit, apcs>>
        /\ trouble \subseteq trouble' /\ tpc # "ended" /\ tpc' \notin {"sleep", "ended"}
    BY <1>19, Remembered DEF MakeSleepThread, MakeWorkerThread, main
  <2>2. CASE ~Stopping
    BY <2>1, <2>2, <1>a DEF Stopping, Told1, Over
  <2>3. CASE ok /\ Stopping
    BY <1>19, <2>3 DEF MakeSleepThread, MakeWorkerThread, Named, Hears, Excused, Unheard
  <2>4. CASE ~ok
    <3>1. UNCHANGED <<spc, hsleep>> /\ (wexit => wexit')
      BY <1>19, <2>4 DEF MakeSleepThread, MakeWorkerThread, CreateSleepThread, CreateWorkerThread,
                         Create, sleeper, worker
    <3>2. ExitComing => ExitComing'
      BY <2>1 DEF ExitComing, Queued
    <3> QED
      BY <2>1, <3>1, <3>2, <1>c, HearsKept
  <2> QED
    BY <2>2, <2>3, <2>4
<1> QED
  BY <1>1, <1>2, <1>3, <1>4, <1>5, <1>6, <1>7, <1>8, <1>9, <1>10, <1>11, <1>12, <1>13, <1>14,
     <1>15, <1>16, <1>17, <1>18, <1>19
  DEF Step, ServiceMain, Timer

(* However the stop falls among the steps of the timer callback, a          *)
(* SleepThread left behind has its reason to end, a WorkerThread its flag   *)
(* and the TimerThread something that wakes it.                             *)
THEOREM ThreadsHearTheStop == Spec => []StopIsHeard
<1>1. Init => Life
  BY LifeStarts
<1>2. Init => Closing /\ Alone /\ Hears
  BY DEF Init, Closing, Alone, Hears, Heard, Told1, Told2, Told3, Over
<1>3. Hears => StopIsHeard
  BY DEF Hears, Heard, StopIsHeard, Live, Alive, Unheard, Told1, Told2, Told3, Over
<1>4. Life /\ TypeOK /\ [Next]_vars => Life'
  BY LifeStep
<1> QED
  BY <1>1, <1>2, <1>3, <1>4, AloneStep, ClosingStep, HearsStep, TypeCorrect, PTL DEF Spec

-----------------------------------------------------------------------------
(* Where the threads of the pool come to rest.  The guards of their steps.   *)
SleeperGoes(i) == \/ spc[i] \in {"start", "test", "check", "pause", "resume"}
                  \/ spc[i] = "wait" /\ slot # "none"
WorkerGoes(i) == wpc[i] = "alive" /\ wexit
TimerGoes == \/ tpc \notin {"none", "sleep", "post", "ended"}
             \/ tpc = "sleep" /\ apcs # << >>
             \/ tpc = "post" /\ slot = "none"
PoolRests == ~TimerGoes /\ \A i \in Threads : ~SleeperGoes(i) /\ ~WorkerGoes(i)

(* stop_threadpool waits for none of the threads it tells to end.  They end  *)
(* without it: at rest no SleepThread and no WorkerThread is left, and the   *)
(* TimerThread has ended, or spins in notify_reason on a reason that nobody  *)
(* takes any more.                                                           *)
StopEndsThreads ==
  mpc = "returned" /\ PoolRests =>
    \/ Excused(Unheard)
    \/ /\ Alive(spc) = {} /\ Alive(wpc) = {}
       /\ \/ tpc = "ended"
          \/ tpc = "post" /\ slot # "none"

(* init_threadpool goes on only with a TimerThread. *)
TimerIsMade ==
  tpc = "none" =>
    \/ mpc \in {"init", "event", "process", "address", "timer"}
    \/ mpc \in {"sleep", "worker"} /\ ~htimer
    \/ Excused({"unstarted", "no_address"})

LEMMA TimerIsMadeStep == TimerIsMade /\ TypeOK /\ [Next]_vars => TimerIsMade'
<1> SUFFICES ASSUME TimerIsMade, Types PROVE Step \/ UNCHANGED vars => TimerIsMade'
  BY DEF TypeOK, Types, Next, vars
<1>k. ASSUME tpc' = tpc \/ tpc' # "none", mpc' = mpc, htimer' = htimer \/ tpc # "none",
             trouble \subseteq trouble'
      PROVE  TimerIsMade'
  BY <1>k DEF TimerIsMade, Excused
<1>1. ASSUME NEW ok \in BOOLEAN,
             \/ InitService(ok) \/ CreateEvent(ok) \/ StartProcess(ok) \/ ResetIpAddress(ok)
             \/ CreateTimerThread(ok) \/ InitSleepThread(ok) \/ InitWorkerThread(ok)
      PROVE  TimerIsMade'
  BY <1>1 DEF InitService, CreateEvent, StartProcess, ResetIpAddress, CreateTimerThread,
              InitSleepThread, InitWorkerThread, Named, TimerIsMade, Excused, timer
<1>2. CASE \/ (\E ok \in BOOLEAN : StopProcess(ok)) \/ LoopServiceReport \/ LoopServiceStore
           \/ LoopServiceWait \/ StopSleepThread \/ StopTimerThread \/ StopWorkerThread
           \/ CloseThreads \/ StopServiceReport \/ StopServiceStore
  BY <1>2 DEF StopProcess, LoopServiceReport, LoopServiceStore, LoopServiceWait, StopSleepThread,
              StopTimerThread, StopWorkerThread, CloseThreads, StopServiceReport,
              StopServiceStore, Named, TimerIsMade, Excused, timer
<1>3. CASE Handler \/ (\E c \in Controls : Control(c)) \/ PostOther \/ TransportDies \/ TimerBeat
  BY <1>3, <1>k DEF Handler, HandlerReport, HandlerStore, Control, PostOther, TransportDies,
                    TimerBeat, Named, main, timer
<1>4. CASE \E i \in Threads : Sleep(i) \/ WorkerEnds(i)
  BY <1>4, <1>k DEF Sleep, SleepStart, SleepTest, SleepWait, SleepCheck, SleepPause, SleepResume,
                    WorkerEnds, main, timer
<1>5. CASE Timer
  <2>1. tpc' # "none" /\ mpc' = mpc /\ tpc # "none" /\ trouble \subseteq trouble'
    BY <1>5 DEF Timer, TimerStart, TimerTest, TimerRun, TimerPost, TimerReturn, TimerQueryProcess,
                TimerCreateProcess, TimerConnect, TestSleepThread, WakeSleepThread,
                MakeSleepThread, TestWorkerThread, WakeWorkerThread, MakeWorkerThread, Named, main
  <2> QED
    BY <2>1, <1>k
<1>6. CASE UNCHANGED vars
  BY <1>6, <1>k DEF vars, main, timer
<1> QED
  BY <1>1, <1>2, <1>3, <1>4, <1>5, <1>6 DEF Step, ServiceMain

(* However the stop falls among their steps, the threads that it told and    *)
(* did not wait for are gone when nothing moves any more.                    *)
THEOREM StoppedThreadsEnd == Spec => []StopEndsThreads
<1>1. Init => TimerIsMade
  BY DEF Init, TimerIsMade
<1>2. TypeOK /\ StopIsHeard /\ TimerIsMade => StopEndsThreads
  <2> SUFFICES ASSUME TypeOK, StopIsHeard, TimerIsMade, mpc = "returned", PoolRests,
                      ~Excused(Unheard)
               PROVE  /\ Alive(spc) = {} /\ Alive(wpc) = {}
                      /\ \/ tpc = "ended"
                         \/ tpc = "post" /\ slot # "none"
    BY DEF StopEndsThreads
  <2>1. /\ Alive(spc) = {} \/ ExitComing
        /\ Alive(wpc) = {} \/ wexit
        /\ tpc = "sleep" => apcs # << >>
    BY DEF StopIsHeard, Unheard
  <2>2. tpc # "none"
    BY DEF TimerIsMade, Excused, Unheard
  <2>3. tpc = "ended" \/ (tpc = "post" /\ slot # "none")
    BY <2>1, <2>2 DEF PoolRests, TimerGoes
  <2>4. Alive(wpc) = {}
    BY <2>1 DEF PoolRests, WorkerGoes, Alive, TypeOK, TypeWorkers
  <2>5. \A i \in Alive(spc) : spc[i] = "wait" /\ slot = "none"
    BY DEF PoolRests, SleeperGoes, Alive, TypeOK, TypeSleepers
  <2>6. ExitComing => tpc = "post" \/ slot # "none"
    BY <2>3 DEF ExitComing, TypeOK, TypeTimer
  <2>7. Alive(spc) = {}
    BY <2>1, <2>3, <2>5, <2>6
  <2> QED
    BY <2>3, <2>4, <2>7
<1> QED
  BY <1>1, <1>2, TimerIsMadeStep, ThreadsHearTheStop, TypeCorrect, PTL DEF Spec

=============================================================================
