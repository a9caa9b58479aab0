--------------------------- MODULE ServiceControl ---------------------------
(***************************************************************************)
(* The life of the service: ServiceMain starts the transport process and   *)
(* the threads, reports to the service manager that it runs, waits for the *)
(* stop event, tells the threads to end without waiting for them, stops    *)
(* the transport process and reports the end.  Meanwhile the control       *)
(* handler reports pauses and the stop, the SleepThread marks the service  *)
(* paused while it handles a reason, and the timer callback starts again   *)
(* whatever it finds missing.                                              *)
(*                                                                         *)
(* What the threads do otherwise is the matter of the other modules.  The  *)
(* values of the check points are left out.  The process, which ends after *)
(* STOPPED has been reported, may do so in any state: it is not a step.    *)
(*                                                                         *)
(* trouble and overlapped are history variables.                           *)
(***************************************************************************)
EXTENDS Naturals, Sequences, FiniteSets

CONSTANTS
  MaxInputs,      \* bound: pauses, continuations, reasons posted by the other threads
  MaxBeats,       \* bound: timer callbacks
  MaxFaults       \* bound: calls of the system that fail, transport processes that die

ASSUME BoundsAssumption ==
  MaxInputs \in Nat /\ MaxBeats \in Nat /\ MaxFaults \in Nat

States == {"stopped", "start_pending", "stop_pending", "running", "continue_pending",
           "pause_pending", "paused"}
Controls == {"pause", "continue", "stop"}       \* a shutdown is handled like a stop
Troubles == {"unstarted", "no_address", "refused", "revived", "respawned", "died", "unheard"}
Threads == 1..(MaxBeats + 1)                    \* of either kind: a callback makes one at most

VARIABLES
  reported,             \* the state the service manager knows
  status,               \* ss_current_status
  mpc, mset,            \* ServiceMain, and the state it has reported but not stored
  event,                \* hh_waitable_event is set
  todo, hset,           \* the control handler: the states to report, the one to store
  spc, hsleep, sexit,   \* the SleepThreads, hh_sleep_thread or 0, bb_sleep_thread_exit
  wpc, hworker, wexit,  \* the WorkerThreads likewise
  tpc, htimer, texit,   \* the TimerThread; its handle is not null
  apcs, tpost, beats,   \* its APC queue and the reason it posts
  slot,                 \* the global reason signal
  transport, spawned,   \* the transport process that runs, or 0, and how many there were
  hprocess,             \* ServiceMain's handle of one, or 0
  inputs, faults,
  overlapped,           \* two threads were changing the status at the same time
  trouble               \* why something may be alive that should be gone

scm == <<reported, status>>
main == <<mpc, mset, event>>
handler == <<todo, hset>>
sleeper == <<spc, hsleep, sexit>>
worker == <<wpc, hworker, wexit>>
timer == <<tpc, htimer, texit, apcs, tpost, beats>>
process == <<transport, spawned, hprocess>>

vars == <<scm, main, handler, sleeper, worker, timer, slot, process, inputs, faults,
          overlapped, trouble>>

Init ==
  /\ reported = "none" /\ status = "stopped"
  /\ mpc = "init" /\ mset = "none" /\ event = FALSE
  /\ todo = << >> /\ hset = "none"
  /\ spc = [i \in Threads |-> "none"] /\ hsleep = 0 /\ sexit = FALSE
  /\ wpc = [i \in Threads |-> "none"] /\ hworker = 0 /\ wexit = FALSE
  /\ tpc = "none" /\ htimer = FALSE /\ texit = FALSE
  /\ apcs = << >> /\ tpost = "none" /\ beats = 0
  /\ slot = "none"
  /\ transport \in 0..1 /\ spawned = transport  \* one of an earlier service may be left
  /\ hprocess = 0
  /\ inputs = 0 /\ faults = 0 /\ overlapped = FALSE /\ trouble = {}

Alive(pc) == {i \in Threads : pc[i] \notin {"none", "ended"}}
Dispatching == \E i \in Threads : spc[i] \in {"pause", "resume"}
Handling == todo # << >> \/ hset # "none"

(* The service is told to stop: ServiceMain has left loop_service. *)
Stopping == mpc \in {"stop_sleep", "stop_timer", "stop_worker", "close_worker", "close_timer",
                     "close_sleep", "kill", "report", "store_stopped", "returned"}

Fault(happens) ==
  /\ happens => faults < MaxFaults
  /\ faults' = IF happens THEN faults + 1 ELSE faults
Excused(names) == trouble \cap names # {}
Named(name, happens) == trouble' = IF happens THEN trouble \cup {name} ELSE trouble

(* SetServiceStatus of update_status: nothing is accepted after STOPPED. *)
Accepted == reported # "stopped"
Report(state) == reported' = IF Accepted THEN state ELSE reported

-----------------------------------------------------------------------------
(* Slips used to check that the properties bite. *)

(* The posted reason is not forgotten. *)
TimerPostKeeps ==
  /\ tpc = "post"
  /\ slot = "none" /\ slot' = tpost
  /\ tpc' = "drain"
  /\ UNCHANGED <<scm, main, handler, sleeper, worker, htimer, texit, apcs, tpost, beats, process,
                 inputs, faults, trouble>>

(* update_status without set_service_status. *)
HandlerReportOnly ==
  /\ todo # << >> /\ hset = "none"
  /\ Report(Head(todo))
  /\ todo' = Tail(todo)
  /\ UNCHANGED <<status, main, hset, sleeper, worker, timer, slot, process, inputs, faults,
                 trouble>>

(* The timer callback replaces a SleepThread that does not answer at once.  *)
TestSleepThreadAnew ==
  /\ tpc = "test_sleep"
  /\ hsleep' = 0 /\ tpc' = "make_sleep"
  /\ UNCHANGED <<scm, main, handler, spc, sexit, worker, htimer, texit, apcs, tpost, beats, slot,
                 process, inputs, faults, trouble>>

(* stop_process without query_process_id. *)
StopProcessOfHandle(ok) ==
  /\ mpc = "kill"
  /\ Fault(~ok)
  /\ transport' = IF ok /\ transport = hprocess THEN 0 ELSE transport
  /\ Named("refused", ~ok)
  /\ mpc' = "report"
  /\ UNCHANGED <<scm, mset, event, handler, sleeper, worker, timer, slot, spawned, hprocess, inputs>>

(* The SleepThread is stopped by its flag alone. *)
StopSleepThreadByFlag ==
  /\ mpc = "stop_sleep"
  /\ sexit' = TRUE
  /\ mpc' = "stop_timer"
  /\ UNCHANGED <<scm, mset, event, handler, spc, hsleep, worker, timer, slot, process, inputs,
                 faults, trouble>>

-----------------------------------------------------------------------------
(* init_service *)
InitService(ok) ==
  /\ mpc = "init"
  /\ Fault(~ok)
  /\ IF ok THEN reported' = "start_pending" /\ status' = "start_pending" /\ mpc' = "event"
           ELSE mpc' = "returned" /\ UNCHANGED scm
  /\ Named("unstarted", ~ok)
  /\ UNCHANGED <<mset, event, handler, sleeper, worker, timer, slot, process, inputs>>

CreateEvent(ok) ==
  /\ mpc = "event"
  /\ Fault(~ok)
  /\ IF ok THEN mpc' = "process" /\ UNCHANGED scm
           ELSE reported' = "stop_pending" /\ status' = "stop_pending" /\ mpc' = "returned"
  /\ Named("unstarted", ~ok)
  /\ UNCHANGED <<mset, event, handler, sleeper, worker, timer, slot, process, inputs>>

(* start_process: the process that runs is opened, or one is created. *)
StartProcess(ok) ==
  /\ mpc = "process"
  /\ Fault(~ok)
  /\ \/ ok /\ transport # 0 /\ hprocess' = transport /\ UNCHANGED <<transport, spawned>>
     \/ ok /\ transport = 0
        /\ spawned' = spawned + 1 /\ transport' = spawned + 1 /\ hprocess' = spawned + 1
     \/ ~ok /\ UNCHANGED process
  /\ mpc' = "address"
  /\ UNCHANGED <<scm, mset, event, handler, sleeper, worker, timer, slot, inputs, trouble>>

(* Without an address the service reports STOPPED at once. *)
ResetIpAddress(ok) ==
  /\ mpc = "address"
  /\ Fault(~ok)
  /\ mpc' = IF ok THEN "timer" ELSE "report"
  /\ Named("no_address", ~ok)
  /\ UNCHANGED <<scm, mset, event, handler, sleeper, worker, timer, slot, process, inputs>>

-----------------------------------------------------------------------------
(* init_threadpool *)
CreateTimerThread(ok) ==
  /\ mpc = "timer"
  /\ Fault(~ok)
  /\ htimer' = ok /\ texit' = ~ok
  /\ tpc' = IF ok THEN "start" ELSE tpc
  /\ mpc' = "sleep"
  /\ UNCHANGED <<scm, mset, event, handler, sleeper, worker, apcs, tpost, beats, slot, process,
                 inputs, trouble>>

(* _create_sleep_thread and _create_worker_thread, from the thread's pc, its *)
(* handle and its exit flag: the thread's number is the next one.            *)
Create(pc, handle, exit, entry, can_create, ok) ==
  \/ /\ handle = 0 /\ can_create /\ ok
     /\ \E i \in Threads :
          /\ pc[i] = "none" /\ \A j \in Threads : j < i => pc[j] # "none"
          /\ pc' = [pc EXCEPT ![i] = entry]
          /\ handle' = i
     /\ exit' = FALSE
  \/ /\ handle = 0 /\ can_create /\ ~ok
     /\ exit' = TRUE
     /\ UNCHANGED <<pc, handle>>
  \/ /\ handle # 0 \/ ~can_create
     /\ ok
     /\ exit' = FALSE
     /\ UNCHANGED <<pc, handle>>

CreateSleepThread(can_create, ok) == Create(spc, hsleep, sexit, "start", can_create, ok)
CreateWorkerThread(can_create, ok) == Create(wpc, hworker, wexit, "alive", can_create, ok)

(* Only with a transport process, pid > 0. *)
InitSleepThread(ok) ==
  /\ mpc = "sleep"
  /\ Fault(~ok)
  /\ CreateSleepThread(hprocess # 0, ok)
  /\ mpc' = "worker"
  /\ UNCHANGED <<scm, mset, event, handler, worker, timer, slot, process, inputs, trouble>>

(* init_threadpool succeeds when the TimerThread does; if not, ServiceMain  *)
(* returns without a report.                                                *)
InitWorkerThread(ok) ==
  /\ mpc = "worker"
  /\ Fault(~ok)
  /\ CreateWorkerThread(hprocess # 0, ok)
  /\ mpc' = IF htimer /\ ~texit THEN "loop" ELSE "returned"
  /\ Named("unstarted", ~htimer \/ texit)
  /\ UNCHANGED <<scm, mset, event, handler, sleeper, timer, slot, process, inputs>>

-----------------------------------------------------------------------------
(* loop_service: RUNNING, and the stop event. *)
LoopServiceReport ==
  /\ mpc = "loop"
  /\ Report("running") /\ mset' = "running" /\ mpc' = "store_running"
  /\ UNCHANGED <<status, event, handler, sleeper, worker, timer, slot, process, inputs, faults,
                 trouble>>

LoopServiceStore ==
  /\ mpc = "store_running"
  /\ status' = mset /\ mset' = "none" /\ mpc' = "wait"
  /\ UNCHANGED <<reported, event, handler, sleeper, worker, timer, slot, process, inputs, faults,
                 trouble>>

(* A slip: the wait for the event times out. *)
LoopServiceWaitTimed ==
  /\ mpc = "wait"
  /\ mpc' = "stop_sleep"
  /\ UNCHANGED <<scm, mset, event, handler, sleeper, worker, timer, slot, process, inputs, faults,
                 trouble>>

LoopServiceWait ==
  /\ mpc = "wait"
  /\ event
  /\ mpc' = "stop_sleep"
  /\ UNCHANGED <<scm, mset, event, handler, sleeper, worker, timer, slot, process, inputs, faults,
                 trouble>>

-----------------------------------------------------------------------------
(* stop_threadpool.  QueueUserAPC fails for a thread that has ended or a    *)
(* handle that is null; the thread is then terminated.                      *)
Terminated(pc, handle) == [i \in Threads |-> IF i = handle /\ i \in Alive(pc) THEN "ended"
                                             ELSE pc[i]]

StopSleepThread ==
  /\ mpc = "stop_sleep"
  /\ sexit' = TRUE
  /\ \/ tpc # "ended" /\ apcs' = Append(apcs, "exit") /\ UNCHANGED spc
     \/ tpc = "ended" /\ spc' = Terminated(spc, hsleep) /\ UNCHANGED apcs
  /\ mpc' = "stop_timer"
  /\ UNCHANGED <<scm, mset, event, handler, hsleep, worker, tpc, htimer, texit, tpost, beats,
                 slot, process, inputs, faults, trouble>>

StopTimerThread ==
  /\ mpc = "stop_timer"
  /\ texit' = TRUE
  /\ apcs' = IF tpc # "ended" THEN Append(apcs, "wake") ELSE apcs
  /\ mpc' = "stop_worker"
  /\ UNCHANGED <<scm, mset, event, handler, sleeper, worker, tpc, htimer, tpost, beats, slot,
                 process, inputs, faults, trouble>>

StopWorkerThread ==
  /\ mpc = "stop_worker"
  /\ wexit' = TRUE
  /\ mpc' = "close_worker"
  /\ UNCHANGED <<scm, mset, event, handler, sleeper, wpc, hworker, timer, slot, process, inputs,
                 faults, trouble>>

CloseThreads ==
  /\ \/ mpc = "close_worker" /\ hworker' = 0 /\ mpc' = "close_timer" /\ UNCHANGED <<hsleep, htimer>>
     \/ mpc = "close_timer" /\ htimer' = FALSE /\ mpc' = "close_sleep" /\ UNCHANGED <<hsleep, hworker>>
     \/ mpc = "close_sleep" /\ hsleep' = 0 /\ mpc' = "kill" /\ UNCHANGED <<htimer, hworker>>
  /\ UNCHANGED <<scm, mset, event, handler, spc, sexit, wpc, wexit, tpc, texit, apcs, tpost,
                 beats, slot, process, inputs, faults, trouble>>

(* stop_process, of the process that was opened or created at the start;    *)
(* without one, of the one that runs now.                                   *)
StopProcess(ok) ==
  /\ mpc = "kill"
  /\ Fault(~ok)
  /\ hprocess' = IF hprocess = 0 /\ ok THEN transport ELSE hprocess
  /\ transport' = IF ok /\ transport = hprocess' THEN 0 ELSE transport
  /\ Named("refused", ~ok)
  /\ mpc' = "report"
  /\ UNCHANGED <<scm, mset, event, handler, sleeper, worker, timer, slot, spawned, inputs>>

(* stop_service *)
StopServiceReport ==
  /\ mpc = "report"
  /\ Report("stopped") /\ mset' = "stopped" /\ mpc' = "store_stopped"
  /\ UNCHANGED <<status, event, handler, sleeper, worker, timer, slot, process, inputs, faults,
                 trouble>>

StopServiceStore ==
  /\ mpc = "store_stopped"
  /\ status' = mset /\ mset' = "none" /\ mpc' = "returned"
  /\ UNCHANGED <<reported, event, handler, sleeper, worker, timer, slot, process, inputs, faults,
                 trouble>>

ServiceMain == \/ \E ok \in BOOLEAN : \/ InitService(ok) \/ CreateEvent(ok) \/ StartProcess(ok)
                                      \/ ResetIpAddress(ok) \/ CreateTimerThread(ok)
                                      \/ InitSleepThread(ok) \/ InitWorkerThread(ok)
                                      \/ StopProcess(ok)
               \/ LoopServiceReport \/ LoopServiceStore \/ LoopServiceWait
               \/ StopSleepThread \/ StopTimerThread \/ StopWorkerThread \/ CloseThreads
               \/ StopServiceReport \/ StopServiceStore

-----------------------------------------------------------------------------
(* handler_proc_ex.  The service manager sends one control at a time, and   *)
(* none to a service that starts, stops or has stopped.  The stop event is  *)
(* set before the stop is reported.                                         *)
Reports(control) == CASE control = "pause"    -> <<"pause_pending", "paused">>
                      [] control = "continue" -> <<"continue_pending", "running">>
                      [] control = "stop"     -> <<"stop_pending">>

Control(control) ==
  /\ control # "stop" => inputs < MaxInputs
  /\ inputs' = IF control = "stop" THEN inputs ELSE inputs + 1
  /\ ~Handling
  /\ reported \in {"running", "paused"}
  /\ todo' = Reports(control)
  /\ event' = (event \/ control = "stop")
  /\ UNCHANGED <<scm, mpc, mset, hset, sleeper, worker, timer, slot, process, faults, trouble>>

HandlerReport ==
  /\ todo # << >> /\ hset = "none"
  /\ Report(Head(todo))
  /\ todo' = Tail(todo)
  /\ hset' = IF Accepted THEN Head(todo) ELSE "none"
  /\ UNCHANGED <<status, main, sleeper, worker, timer, slot, process, inputs, faults, trouble>>

HandlerStore ==
  /\ hset # "none"
  /\ status' = hset /\ hset' = "none"
  /\ UNCHANGED <<reported, main, todo, sleeper, worker, timer, slot, process, inputs, faults,
                 trouble>>

Handler == HandlerReport \/ HandlerStore

-----------------------------------------------------------------------------
(* The SleepThread i: connected or not, ... *)
Goto(i, pc) == spc' = [spc EXCEPT ![i] = pc]

SleepStart(i) ==
  /\ spc[i] = "start"
  /\ Goto(i, "test") \/ Goto(i, "ended")
  /\ UNCHANGED <<scm, main, handler, hsleep, sexit, worker, timer, slot, process, inputs, faults,
                 trouble>>

SleepTest(i) ==
  /\ spc[i] = "test"
  /\ Goto(i, IF sexit THEN "ended" ELSE "wait")
  /\ UNCHANGED <<scm, main, handler, hsleep, sexit, worker, timer, slot, process, inputs, faults,
                 trouble>>

SleepWait(i) ==
  /\ spc[i] = "wait"
  /\ slot # "none" /\ slot' = "none"
  /\ Goto(i, IF slot = "exit__thread" THEN "ended" ELSE "check")
  /\ UNCHANGED <<scm, main, handler, hsleep, sexit, worker, timer, process, inputs, faults,
                 trouble>>

(* ... the reason is dropped unless the service runs ... *)
SleepCheck(i) ==
  /\ spc[i] = "check"
  /\ Goto(i, IF status = "running" THEN "pause" ELSE "test")
  /\ UNCHANGED <<scm, main, handler, hsleep, sexit, worker, timer, slot, process, inputs, faults,
                 trouble>>

(* ... and is connected. *)
SleepPause(i) ==
  /\ spc[i] = "pause"
  /\ \/ status' = "paused" /\ Goto(i, "resume")
     \/ UNCHANGED status /\ Goto(i, "test")
  /\ UNCHANGED <<reported, main, handler, hsleep, sexit, worker, timer, slot, process, inputs,
                 faults, trouble>>

SleepResume(i) ==
  /\ spc[i] = "resume"
  /\ status' = "running"
  /\ Goto(i, "test")
  /\ UNCHANGED <<reported, main, handler, hsleep, sexit, worker, timer, slot, process, inputs,
                 faults, trouble>>

Sleep(i) == \/ SleepStart(i) \/ SleepTest(i) \/ SleepWait(i) \/ SleepCheck(i) \/ SleepPause(i)
            \/ SleepResume(i)

WorkerEnds(i) ==
  /\ wpc[i] = "alive"
  /\ wexit
  /\ wpc' = [wpc EXCEPT ![i] = "ended"]
  /\ UNCHANGED <<scm, main, handler, sleeper, hworker, wexit, timer, slot, process, inputs,
                 faults, trouble>>

PostOther ==
  /\ inputs < MaxInputs /\ inputs' = inputs + 1
  /\ slot = "none" /\ slot' = "other"
  /\ UNCHANGED <<scm, main, handler, sleeper, worker, timer, process, faults, trouble>>

-----------------------------------------------------------------------------
(* The TimerThread.  SleepEx returns when it has run every APC in the queue, *)
(* and then the flag is tested: the thread may end with APCs in the queue    *)
(* that nobody will run.                                                     *)
Queued(apc) == apc \in {apcs[k] : k \in DOMAIN apcs}

TimerStart(ok) ==
  /\ tpc = "start"
  /\ Fault(~ok)
  /\ tpc' = IF ok THEN "test" ELSE "ended"      \* SetWaitableTimerEx
  /\ Named("unheard", ~ok /\ Queued("exit"))
  /\ UNCHANGED <<scm, main, handler, sleeper, worker, htimer, texit, apcs, tpost, beats, slot,
                 process, inputs>>

TimerTest ==
  /\ tpc = "test"
  /\ tpc' = IF texit THEN "ended" ELSE "sleep"
  /\ Named("unheard", texit /\ Queued("exit"))
  /\ UNCHANGED <<scm, main, handler, sleeper, worker, htimer, texit, apcs, tpost, beats, slot,
                 process, inputs, faults>>

TimerBeat ==
  /\ beats < MaxBeats /\ beats' = beats + 1
  /\ tpc \notin {"none", "start", "ended"}
  /\ apcs' = Append(apcs, "beat")
  /\ UNCHANGED <<scm, main, handler, sleeper, worker, tpc, htimer, texit, tpost, slot, process,
                 inputs, faults, trouble>>

(* The callback does nothing in a service that does not run. *)
TimerRun ==
  /\ tpc \in {"sleep", "drain"}
  /\ apcs # << >> /\ apcs' = Tail(apcs)
  /\ \/ Head(apcs) = "beat" /\ status = "running" /\ tpc' = "query" /\ UNCHANGED tpost
     \/ Head(apcs) = "beat" /\ status # "running" /\ tpc' = "drain" /\ UNCHANGED tpost
     \/ Head(apcs) = "wake" /\ tpc' = "drain" /\ UNCHANGED tpost
     \/ Head(apcs) = "exit" /\ tpc' = "post" /\ tpost' = "exit__thread"
     \/ Head(apcs) = "empty" /\ tpc' = "post" /\ tpost' = "cmd__empty"
  /\ UNCHANGED <<scm, main, handler, sleeper, worker, htimer, texit, beats, slot, process, inputs,
                 faults, trouble>>

TimerPost ==
  /\ tpc = "post"
  /\ slot = "none" /\ slot' = tpost
  /\ tpost' = "none" /\ tpc' = "drain"
  /\ UNCHANGED <<scm, main, handler, sleeper, worker, htimer, texit, apcs, beats, process, inputs,
                 faults, trouble>>

TimerReturn ==
  /\ tpc = "drain"
  /\ apcs = << >>
  /\ tpc' = "test"
  /\ UNCHANGED <<scm, main, handler, sleeper, worker, htimer, texit, apcs, tpost, beats, slot,
                 process, inputs, faults, trouble>>

(* _TimerCallback: the transport process, ... *)
TimerQueryProcess ==
  /\ tpc = "query"
  /\ tpc' = IF transport # 0 THEN "connect" ELSE "create"
  /\ UNCHANGED <<scm, main, handler, sleeper, worker, htimer, texit, apcs, tpost, beats, slot,
                 process, inputs, faults, trouble>>

TimerCreateProcess(ok) ==
  /\ tpc = "create"
  /\ Fault(~ok)
  /\ IF ok THEN spawned' = spawned + 1 /\ transport' = spawned + 1
           ELSE UNCHANGED <<spawned, transport>>
  /\ Named("revived", ok /\ Stopping)
  /\ tpc' = "connect"
  /\ UNCHANGED <<scm, main, handler, sleeper, worker, htimer, texit, apcs, tpost, beats, slot,
                 hprocess, inputs>>

(* ... the connection, without which the callback returns, ... *)
TimerConnect ==
  /\ tpc = "connect"
  /\ tpc' \in {"test_sleep", "drain"}
  /\ UNCHANGED <<scm, main, handler, sleeper, worker, htimer, texit, apcs, tpost, beats, slot,
                 process, inputs, faults, trouble>>

(* ... test_sleep_thread, which looks at the handle only and asks the        *)
(* TimerThread itself, ...                                                   *)
TestSleepThread ==
  /\ tpc = "test_sleep"
  /\ tpc' = IF hsleep # 0 THEN "wake_sleep" ELSE "make_sleep"
  /\ UNCHANGED <<scm, main, handler, sleeper, worker, htimer, texit, apcs, tpost, beats, slot,
                 process, inputs, faults, trouble>>

WakeSleepThread ==
  /\ tpc = "wake_sleep"
  /\ \/ htimer /\ apcs' = Append(apcs, "empty") /\ tpc' = "test_worker" /\ UNCHANGED <<spc, hsleep>>
     \/ /\ ~htimer
        /\ spc' = Terminated(spc, hsleep) /\ hsleep' = 0
        /\ tpc' = "make_sleep"
        /\ UNCHANGED apcs
  /\ UNCHANGED <<scm, main, handler, sexit, worker, htimer, texit, tpost, beats, slot, process,
                 inputs, faults, trouble>>

MakeSleepThread(ok) ==
  /\ tpc = "make_sleep"
  /\ Fault(~ok)
  /\ CreateSleepThread(TRUE, ok)
  /\ Named("respawned", ok /\ Stopping)
  /\ tpc' = "test_worker"
  /\ UNCHANGED <<scm, main, handler, worker, htimer, texit, apcs, tpost, beats, slot, process,
                 inputs>>

(* ... and test_worker_thread, which asks the WorkerThread, or lets it work. *)
TestWorkerThread ==
  /\ tpc = "test_worker"
  /\ \/ hworker = 0 /\ tpc' = "make_worker"
     \/ hworker # 0 /\ tpc' \in {"wake_worker", "drain"}
  /\ UNCHANGED <<scm, main, handler, sleeper, worker, htimer, texit, apcs, tpost, beats, slot,
                 process, inputs, faults, trouble>>

WakeWorkerThread ==
  /\ tpc = "wake_worker"
  /\ \/ hworker \in Alive(wpc) /\ tpc' = "drain" /\ UNCHANGED hworker
     \/ hworker \notin Alive(wpc) /\ tpc' = "make_worker" /\ hworker' = 0
  /\ UNCHANGED <<scm, main, handler, sleeper, wpc, wexit, htimer, texit, apcs, tpost, beats, slot,
                 process, inputs, faults, trouble>>

MakeWorkerThread(ok) ==
  /\ tpc = "make_worker"
  /\ Fault(~ok)
  /\ CreateWorkerThread(TRUE, ok)
  /\ Named("respawned", ok /\ Stopping)
  /\ tpc' = "drain"
  /\ UNCHANGED <<scm, main, handler, sleeper, htimer, texit, apcs, tpost, beats, slot, process,
                 inputs>>

Timer == \/ TimerTest \/ TimerRun \/ TimerPost \/ TimerReturn \/ TimerQueryProcess \/ TimerConnect
         \/ TestSleepThread \/ WakeSleepThread \/ TestWorkerThread \/ WakeWorkerThread
         \/ \E ok \in BOOLEAN : \/ TimerStart(ok) \/ TimerCreateProcess(ok)
                                \/ MakeSleepThread(ok) \/ MakeWorkerThread(ok)

TransportDies ==
  /\ transport # 0 /\ transport' = 0
  /\ Fault(TRUE)
  /\ Named("died", hprocess # 0)
  /\ UNCHANGED <<scm, main, handler, sleeper, worker, timer, slot, spawned, hprocess, inputs>>

-----------------------------------------------------------------------------
Overlap == \/ Handling /\ mset # "none"
           \/ Dispatching /\ (Handling \/ mset # "none")

Step == \/ ServiceMain \/ Handler \/ Timer
        \/ \E i \in Threads : Sleep(i) \/ WorkerEnds(i)
        \/ \E c \in Controls : Control(c)
        \/ TimerBeat \/ PostOther \/ TransportDies

Next == Step /\ overlapped' = (overlapped \/ Overlap')

Spec == Init /\ [][Next]_vars

-----------------------------------------------------------------------------
TypeStatus ==
  /\ reported \in States \cup {"none"} /\ status \in States
  /\ mpc \in {"init", "event", "process", "address", "timer", "sleep", "worker", "loop",
              "store_running", "wait", "stop_sleep", "stop_timer", "stop_worker", "close_worker",
              "close_timer", "close_sleep", "kill", "report", "store_stopped", "returned"}
  /\ mset = CASE mpc = "store_running" -> "running"
              [] mpc = "store_stopped" -> "stopped"
              [] OTHER                 -> "none"
  /\ event \in BOOLEAN
  /\ todo \in {<< >>, <<"pause_pending", "paused">>, <<"paused">>,
               <<"continue_pending", "running">>, <<"running">>, <<"stop_pending">>}
  /\ hset \in States \cup {"none"}

TypeSleepers ==
  /\ spc \in [Threads -> {"none", "start", "test", "wait", "check", "pause", "resume", "ended"}]
  /\ hsleep \in Threads \cup {0} /\ sexit \in BOOLEAN

TypeWorkers ==
  /\ wpc \in [Threads -> {"none", "alive", "ended"}]
  /\ hworker \in Threads \cup {0} /\ wexit \in BOOLEAN

TypeTimer ==
  /\ tpc \in {"none", "start", "test", "sleep", "drain", "post", "query", "create", "connect",
              "test_sleep", "wake_sleep", "make_sleep", "test_worker", "wake_worker",
              "make_worker", "ended"}
  /\ htimer \in BOOLEAN /\ texit \in BOOLEAN
  /\ apcs \in Seq({"beat", "wake", "exit", "empty"}) /\ beats \in 0..MaxBeats
  /\ tpost \in {"none", "exit__thread", "cmd__empty"} /\ (tpc = "post" <=> tpost # "none")
  /\ slot \in {"none", "other", "exit__thread", "cmd__empty"}

TypeProcess ==
  /\ spawned \in Nat /\ transport \in 0..spawned /\ hprocess \in 0..spawned
  /\ inputs \in 0..MaxInputs /\ faults \in 0..MaxFaults
  /\ trouble \subseteq Troubles

TypeStart ==
  mpc \in {"init", "event", "process", "address", "timer"} =>
    tpc = "none" /\ \A i \in Threads : spc[i] = "none"

(* The types; a state to store, a reason to post belong to the place of     *)
(* their thread, a handle to a process or thread that was made, and no      *)
(* thread is there before it is made.                                       *)
TypeOK == /\ TypeStatus /\ TypeSleepers /\ TypeWorkers /\ TypeTimer /\ TypeProcess
          /\ TypeStart /\ overlapped \in BOOLEAN

(* When nobody is changing it, ss_current_status is the state reported,     *)
(* unless two threads once changed it at the same time.                     *)
StatusIsReported ==
  reported # "none" /\ ~Handling /\ mset = "none" /\ ~Dispatching /\ ~overlapped =>
    status = reported

(* Before the service is told to stop there is one SleepThread and one      *)
(* WorkerThread at most, although two threads create them, and every one    *)
(* that lives is the one of the handle.                                     *)
ThreadsAreAlone == ~Stopping => Alive(spc) \subseteq {hsleep} /\ Alive(wpc) \subseteq {hworker}

(* The transport process does not outlive the service, unless the service   *)
(* did not get to its end, could not open or end it, the process died while *)
(* ServiceMain held its handle, or was started again during the stop.       *)
TransportStopped ==
  mpc = "returned" =>
    transport = 0 \/ Excused({"unstarted", "no_address", "refused", "died", "revived"})

(* After the stop a SleepThread that lives has the reason to end coming, a  *)
(* WorkerThread has its flag, and the TimerThread does not sleep for ever:  *)
(* unless the timer callback made a thread in the meantime, or the          *)
(* TimerThread ended before it could pass the reason on.                    *)
ExitComing == \/ slot = "exit__thread" \/ tpost = "exit__thread"
              \/ tpc # "ended" /\ Queued("exit")

StopIsHeard ==
  mpc = "returned" =>
    \/ /\ Alive(spc) = {} \/ ExitComing
       /\ Alive(wpc) = {} \/ wexit
       /\ tpc = "sleep" => apcs # << >>
    \/ Excused({"unstarted", "no_address", "respawned", "unheard"})

(* Two threads report, one of them on behalf of another process, and the    *)
(* service manager sees one orderly life: from the start to STOPPED, pauses *)
(* announced before they are taken, no pause and no run after a stop, and   *)
(* nothing after STOPPED.                                                   *)
Service == INSTANCE ServiceStates WITH
             state <- IF reported = "none" THEN "start_pending" ELSE reported,
             told <- event

ImplementsService == Service!Spec
=============================================================================
