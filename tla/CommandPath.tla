----------------------------- MODULE CommandPath -----------------------------
(***************************************************************************)
(* A remote command from the NATS callback to the folder the WorkerThread  *)
(* watches: subject_command and on_command write the global                *)
(* g_current_command, the SleepThread dispatches the reason, the command   *)
(* thread runs the command and posts its result, the SleepThread moves     *)
(* g_work_folder and wakes the WorkerThread, which restarts its watcher.   *)
(*                                                                         *)
(* The reason signal is the mailbox of ReasonSignal (a post waits until    *)
(* the slot is empty), the command thread's wake flag that of WakeFlag.    *)
(* The NATS connection stays up; its loss belongs to ClientThreads.  A     *)
(* command without a name is answered and forgotten at once, and is not    *)
(* modelled.                                                               *)
(*                                                                         *)
(* acked, ran (the runs under a name that was sent) and lost are history   *)
(* variables; lost names what went wrong: a reason that came while the     *)
(* service was not running, a wake-up the worker ignored, a folder the     *)
(* worker could not save.                                                  *)
(***************************************************************************)
EXTENDS Naturals, Sequences, Functions

CONSTANTS
  Names,          \* the command names clients send
  Folders,        \* what the action of a command may name
  Existing,       \* those that exist on the disk
  InitFolder,     \* the folder saved by an earlier run
  None,           \* the empty string
  Torn,           \* what a string read in the middle of its assignment may hold
  MaxCommands,    \* bound: commands received
  MaxBeats,       \* bound: timer callbacks
  MaxControls     \* bound: pause and continue controls

ASSUME FoldersAssumption ==
  /\ Existing \subseteq Folders
  /\ InitFolder \in Existing
  /\ None \notin Folders /\ Torn \notin Folders /\ None # Torn
ASSUME BoundsAssumption ==
  MaxCommands \in Nat /\ MaxBeats \in Nat /\ MaxControls \in Nat

CMD_FOLDER == "modify-folder"
CMD_IGNORE == "modify-ignores"
Commands == [name : Names, action : Folders]
NoCommand == [name |-> None, action |-> None]

Reasons == {"recv_command", "cmd__empty", "cmd__error", "cmd_folder", "cmd_igonre"}

ASSUME NamesAssumption ==
  /\ None \notin Names \cup Reasons
  /\ Torn \notin Names \cup {CMD_FOLDER, CMD_IGNORE}

VARIABLES
  npc, ncmd,              \* the delivery thread of the command subscription
  name, action,           \* g_current_command
  slot,                   \* the global reason signal
  status,                 \* ss_current_status
  scm,                    \* the state the service manager asked for
  spc, sreason, sread,    \* the SleepThread
  flag,                   \* _command_signal
  cpc, ccmd, cresult,     \* the command thread
  registry,               \* the value "latest"
  work,                   \* g_work_folder
  apcs,                   \* APC queue of the WorkerThread
  wpc, wreason, wfolder,  \* the WorkerThread; wreason is global_reason_worker
  watching,               \* the folder of its watcher
  tpc,                    \* the TimerThread
  beats, controls,
  acked, ran, lost

callback == <<npc, ncmd, acked>>
current == <<name, action>>
sleep == <<spc, sreason, sread>>
command == <<cpc, ccmd, cresult, ran>>
worker == <<wpc, wreason, wfolder, watching>>
timer == <<tpc, beats>>
control == <<scm, controls>>

vars == <<callback, current, slot, status, control, sleep, flag, command,
          registry, work, apcs, worker, timer, lost>>

Init ==
  /\ npc = "idle" /\ ncmd = NoCommand
  /\ name = None /\ action = None
  /\ slot = None
  /\ status = "start_pending" /\ scm = "running"
  /\ spc = "wait" /\ sreason = None /\ sread = None
  /\ flag \in BOOLEAN          \* stop_threads of an earlier connection may have left it up
  /\ cpc = "wait" /\ ccmd = NoCommand /\ cresult = None
  /\ registry = InitFolder /\ work = InitFolder
  /\ apcs = << >>
  /\ wpc = "sleep" /\ wreason = "empty" /\ wfolder = InitFolder /\ watching = InitFolder
  /\ tpc = "idle"
  /\ beats = 0 /\ controls = 0
  /\ acked = << >> /\ ran = << >> /\ lost = {}

-----------------------------------------------------------------------------
(* Slips used to check that the properties bite. *)
SleepApplyReturns == \* "already watched" skips the resume as well
  /\ spc = "apply" /\ spc' = IF sread = work THEN "wait" ELSE "resume"
  /\ UNCHANGED <<callback, current, slot, status, control, sreason, sread, flag, command,
                 registry, work, apcs, worker, timer, lost>>

CommandClearNameKept == \* the name of a taken command is left in the slot
  /\ cpc = "clear_name" /\ cpc' = "clear_action"
  /\ UNCHANGED <<callback, current, slot, status, control, sleep, flag, ccmd, cresult, ran,
                 registry, work, apcs, worker, timer, lost>>

SleepApplySilent == \* reset_work_folder(false): the worker is not woken
  /\ spc = "apply" /\ spc' = "resume"
  /\ work' = IF sread \in Existing THEN sread ELSE work
  /\ UNCHANGED <<callback, current, slot, status, control, sreason, sread, flag, command,
                 registry, apcs, worker, timer, lost>>

CommandReadTorn == \* a torn name is what the unknown string happens to be
  /\ cpc = "test" /\ cpc' = "action" /\ ccmd' = [ccmd EXCEPT !.name = None]
  /\ UNCHANGED <<callback, current, slot, status, control, sleep, flag, cresult, ran,
                 registry, work, apcs, worker, timer, lost>>

-----------------------------------------------------------------------------
(* The callback of subject_command, and on_command. *)

(* The positive answer is published before the command is stored. *)
AckCommand(cmd) ==
  /\ npc = "idle"
  /\ Len(acked) < MaxCommands
  /\ ncmd' = cmd
  /\ acked' = Append(acked, cmd)
  /\ npc' = "name"
  /\ UNCHANGED <<current, slot, status, control, sleep, flag, command, registry, work,
                 apcs, worker, timer, lost>>

StoreName ==
  /\ npc = "name"
  /\ name' = ncmd.name
  /\ npc' = "action"
  /\ UNCHANGED <<ncmd, acked, action, slot, status, control, sleep, flag, command,
                 registry, work, apcs, worker, timer, lost>>

StoreAction ==
  /\ npc = "action"
  /\ action' = ncmd.action
  /\ npc' = "post"
  /\ UNCHANGED <<ncmd, acked, name, slot, status, control, sleep, flag, command,
                 registry, work, apcs, worker, timer, lost>>

PostRecvCommand ==
  /\ npc = "post"
  /\ slot = None
  /\ slot' = "recv_command"
  /\ npc' = "idle"
  /\ ncmd' = NoCommand
  /\ UNCHANGED <<acked, current, status, control, sleep, flag, command, registry,
                 work, apcs, worker, timer, lost>>

-----------------------------------------------------------------------------
(* The SleepThread. *)

SleepWait ==
  /\ spc = "wait"
  /\ slot # None
  /\ sreason' = slot
  /\ slot' = None
  /\ spc' = "check"
  /\ UNCHANGED <<callback, current, status, control, sread, flag, command, registry, work,
                 apcs, worker, timer, lost>>

(* A reason that arrives while the service is not running is forgotten. *)
SleepCheck ==
  /\ spc = "check"
  /\ \/ /\ status = "running"
        /\ spc' = "pause"
        /\ UNCHANGED lost
     \/ /\ status # "running"
        /\ spc' = "wait"
        /\ lost' = lost \cup {"reason"}
  /\ UNCHANGED <<callback, current, slot, status, control, sreason, sread, flag, command,
                 registry, work, apcs, worker, timer>>

(* set_service_status(SERVICE_PAUSED), meant to hold the timer back. *)
SleepPause ==
  /\ spc = "pause"
  /\ status' = "paused"
  /\ spc' = "dispatch"
  /\ UNCHANGED <<callback, current, slot, control, sreason, sread, flag, command, registry,
                 work, apcs, worker, timer, lost>>

(* The switch; a result other than cmd_folder is not acted upon. *)
SleepDispatch ==
  /\ spc = "dispatch"
  /\ flag' = (flag \/ sreason = "recv_command")
  /\ \/ /\ sreason = "cmd_folder"
        /\ sread' = registry
        /\ spc' = "apply"
     \/ /\ sreason # "cmd_folder"
        /\ spc' = "resume"
        /\ UNCHANGED sread
  /\ UNCHANGED <<callback, current, slot, status, control, sreason, command, registry, work,
                 apcs, worker, timer, lost>>

(* reset_work_folder(true), 50 ms after the registry was read. *)
SleepApply ==
  /\ spc = "apply"
  /\ \/ /\ sread \in Existing \ {work}
        /\ work' = sread
        /\ apcs' = Append(apcs, "folder")
     \/ /\ sread \notin Existing \ {work}
        /\ UNCHANGED <<work, apcs>>
  /\ spc' = "resume"
  /\ UNCHANGED <<callback, current, slot, status, control, sreason, sread, flag, command,
                 registry, worker, timer, lost>>

SleepResume ==
  /\ spc = "resume"
  /\ status' = "running"
  /\ spc' = "wait"
  /\ sreason' = None /\ sread' = None
  /\ UNCHANGED <<callback, current, slot, control, flag, command, registry,
                 work, apcs, worker, timer, lost>>

-----------------------------------------------------------------------------
(* The command thread: command_handle_result, the data read without a lock. *)

(* A string being assigned by another thread reads as anything. *)
Racy(value, assigning) == {value} \cup (IF assigning THEN {Torn} ELSE {})

CommandWait ==
  /\ cpc = "wait"
  /\ flag
  /\ flag' = FALSE
  /\ cpc' = "test"
  /\ UNCHANGED <<callback, current, slot, status, control, sleep, ccmd, cresult, ran,
                 registry, work, apcs, worker, timer, lost>>

CommandTestName ==
  /\ cpc = "test"
  /\ \E n \in Racy(name, npc = "name") :
       \/ /\ n = None
          /\ cresult' = "cmd__empty"
          /\ cpc' = "post"
          /\ UNCHANGED ccmd
       \/ /\ n # None
          /\ ccmd' = [ccmd EXCEPT !.name = n]
          /\ cpc' = "action"
          /\ UNCHANGED cresult
  /\ UNCHANGED <<callback, current, slot, status, control, sleep, flag, ran, registry, work,
                 apcs, worker, timer, lost>>

CommandReadAction ==
  /\ cpc = "action"
  /\ \E a \in Racy(action, npc = "action") : ccmd' = [ccmd EXCEPT !.action = a]
  /\ cpc' = "clear_name"
  /\ UNCHANGED <<callback, current, slot, status, control, sleep, flag, cresult, ran,
                 registry, work, apcs, worker, timer, lost>>

CommandClearName ==
  /\ cpc = "clear_name"
  /\ name' = None
  /\ cpc' = "clear_action"
  /\ UNCHANGED <<callback, action, slot, status, control, sleep, flag, ccmd, cresult, ran,
                 registry, work, apcs, worker, timer, lost>>

CommandClearAction ==
  /\ cpc = "clear_action"
  /\ action' = None
  /\ cpc' = "run"
  /\ UNCHANGED <<callback, name, slot, status, control, sleep, flag, ccmd, cresult, ran,
                 registry, work, apcs, worker, timer, lost>>

(* save_latest_folder may fail; the other commands have no effect at all. *)
CommandRun(saved) ==
  /\ cpc = "run"
  /\ \/ /\ ccmd.name = CMD_FOLDER /\ ccmd.action \in Existing /\ saved
        /\ registry' = ccmd.action
        /\ cresult' = "cmd_folder"
     \/ /\ ccmd.name = CMD_FOLDER /\ ~(ccmd.action \in Existing /\ saved)
        /\ cresult' = "cmd__error"
        /\ UNCHANGED registry
     \/ /\ ccmd.name # CMD_FOLDER
        /\ cresult' = IF ccmd.name = CMD_IGNORE THEN "cmd_igonre" ELSE "cmd__error"
        /\ UNCHANGED registry
  /\ ran' = IF ccmd.name \in Names THEN Append(ran, ccmd) ELSE ran
  /\ cpc' = "post"
  /\ UNCHANGED <<callback, current, slot, status, control, sleep, flag, ccmd, work, apcs,
                 worker, timer, lost>>

CommandPost ==
  /\ cpc = "post"
  /\ slot = None
  /\ slot' = cresult
  /\ cpc' = "wait"
  /\ ccmd' = NoCommand /\ cresult' = None
  /\ UNCHANGED <<callback, current, status, control, sleep, flag, ran,
                 registry, work, apcs, worker, timer, lost>>

-----------------------------------------------------------------------------
(* The WorkerThread. *)

(* SleepEx returns when every queued APC has run: the last one decides. *)
WorkerWake ==
  /\ wpc = "sleep"
  /\ apcs # << >>
  /\ wreason' = apcs[Len(apcs)]
  /\ lost' = IF wreason' # "folder" /\ "folder" \in Range(apcs) THEN lost \cup {"wakeup"} ELSE lost
  /\ apcs' = << >>
  /\ wpc' = "check"
  /\ UNCHANGED <<callback, current, slot, status, control, sleep, flag, command, registry,
                 work, wfolder, watching, timer>>

WorkerCheck ==
  /\ wpc = "check"
  /\ wpc' = IF status = "running" /\ wreason = "folder" THEN "read" ELSE "sleep"
  /\ lost' = IF status # "running" /\ wreason = "folder" THEN lost \cup {"wakeup"} ELSE lost
  /\ UNCHANGED <<callback, current, slot, status, control, sleep, flag, command, registry,
                 work, apcs, wreason, wfolder, watching, timer>>

(* The watcher is stopped and told the folder ... *)
WorkerRead ==
  /\ wpc = "read"
  /\ wfolder' = work
  /\ wpc' = "start"
  /\ UNCHANGED <<callback, current, slot, status, control, sleep, flag, command, registry,
                 work, apcs, wreason, watching, timer, lost>>

(* ... and started; a folder that is new to it is saved once more. *)
WorkerStart(saved) ==
  /\ wpc = "start"
  /\ watching' = wfolder
  /\ registry' = IF wfolder # watching /\ saved THEN wfolder ELSE registry
  /\ lost' = IF wfolder # watching /\ ~saved THEN lost \cup {"save"} ELSE lost
  /\ wpc' = "sleep"
  /\ UNCHANGED <<callback, current, slot, status, control, sleep, flag, command, work, apcs,
                 wreason, wfolder, timer>>

bb_worker_is_working == wpc \in {"read", "start"}

-----------------------------------------------------------------------------
(* The timer callback, and the service manager. *)

TimerCallback ==
  /\ tpc = "idle"
  /\ beats < MaxBeats
  /\ status = "running"
  /\ beats' = beats + 1
  /\ tpc' = "beat"
  /\ UNCHANGED <<callback, current, slot, status, control, sleep, flag, command, registry,
                 work, apcs, worker, lost>>

(* test_worker_thread. *)
TestWorkerThread ==
  /\ tpc = "beat"
  /\ apcs' = IF bb_worker_is_working THEN apcs ELSE Append(apcs, "empty")
  /\ tpc' = "post"
  /\ UNCHANGED <<beats, callback, current, slot, status, control, sleep, flag, command,
                 registry, work, worker, lost>>

(* test_sleep_thread: its APC runs on the timer thread after the callback. *)
TestSleepThread ==
  /\ tpc = "post"
  /\ slot = None
  /\ slot' = "cmd__empty"
  /\ tpc' = "idle"
  /\ UNCHANGED <<beats, callback, current, status, control, sleep, flag, command, registry,
                 work, apcs, worker, lost>>

(* loop_service; until then controls are not accepted. *)
LoopService ==
  /\ status = "start_pending"
  /\ status' = "running"
  /\ UNCHANGED <<callback, current, slot, control, sleep, flag, command, registry, work,
                 apcs, worker, timer, lost>>

HandlerProcEx(state) ==
  /\ status # "start_pending"
  /\ controls < MaxControls
  /\ controls' = controls + 1
  /\ scm # state
  /\ scm' = state
  /\ status' = state
  /\ UNCHANGED <<callback, current, slot, sleep, flag, command, registry, work, apcs,
                 worker, timer, lost>>

-----------------------------------------------------------------------------
Callback == StoreName \/ StoreAction \/ PostRecvCommand
Sleep == SleepWait \/ SleepCheck \/ SleepPause \/ SleepDispatch \/ SleepApply \/ SleepResume
Command == \/ CommandWait \/ CommandTestName \/ CommandReadAction \/ CommandClearName
           \/ CommandClearAction \/ CommandPost
           \/ \E saved \in BOOLEAN : CommandRun(saved)
Worker == WorkerWake \/ WorkerCheck \/ WorkerRead \/ \E saved \in BOOLEAN : WorkerStart(saved)
Timer == TestWorkerThread \/ TestSleepThread

Next == \/ \E cmd \in Commands : AckCommand(cmd)
        \/ Callback
        \/ Sleep
        \/ Command
        \/ Worker
        \/ TimerCallback
        \/ Timer
        \/ LoopService
        \/ \E state \in {"running", "paused"} : HandlerProcEx(state)

Spec == Init /\ [][Next]_vars

-----------------------------------------------------------------------------
TypeCallback ==
  /\ npc \in {"idle", "name", "action", "post"}
  /\ ncmd \in Commands \cup {NoCommand}
  /\ npc # "idle" => ncmd \in Commands
  /\ name \in Names \cup {None}
  /\ action \in Folders \cup {None}
  /\ acked \in Seq(Commands)

TypeSleep ==
  /\ slot \in Reasons \cup {None}
  /\ status \in {"start_pending", "running", "paused"}
  /\ scm \in {"running", "paused"} /\ controls \in 0..MaxControls
  /\ spc \in {"wait", "check", "pause", "dispatch", "apply", "resume"}
  /\ sreason \in Reasons \cup {None}
  /\ sread \in Existing \cup {None}
  /\ tpc \in {"idle", "beat", "post"} /\ beats \in 0..MaxBeats
  /\ lost \subseteq {"reason", "wakeup", "save"}

TypeCommand ==
  /\ flag \in BOOLEAN
  /\ cpc \in {"wait", "test", "action", "clear_name", "clear_action", "run", "post"}
  /\ ccmd \in [name : Names \cup {Torn, None}, action : Folders \cup {Torn, None}]
  /\ cpc \in {"action", "clear_name", "clear_action", "run"} => ccmd.name # None
  /\ cresult \in Reasons \cup {None}
  /\ cpc = "post" => cresult # None
  /\ ran \in Seq([name : Names, action : Folders \cup {Torn, None}])

TypeWorker ==
  /\ {registry, work, wfolder, watching} \subseteq Existing
  /\ apcs \in Seq({"folder", "empty"})
  /\ wpc \in {"sleep", "check", "read", "start"}
  /\ wreason \in {"folder", "empty"}

(* The types; a string taken from g_current_command may be torn, a folder   *)
(* that was saved or is watched exists, a result posted is a reason.        *)
TypeOK == TypeCallback /\ TypeSleep /\ TypeCommand /\ TypeWorker

(* However the callback overwrites the unlocked g_current_command, no       *)
(* command is run twice: each run under a name that was sent consumes a     *)
(* store of that name.                                                      *)
NoCommandRunsTwice == Len(ran) <= Len(acked)

(* The pause the SleepThread marks while it dispatches is always taken      *)
(* back: when it waits or looks at a reason, the status differs from        *)
(* running only because of the service manager, so that no reason is        *)
(* forgotten on account of an earlier one.                                  *)
PauseIsTakenBack ==
  spc \in {"wait", "check", "pause"} => status # "paused" \/ scm = "paused"

(* No thread has anything left to do. *)
Quiet ==
  /\ npc = "idle" /\ slot = None /\ spc = "wait" /\ ~flag /\ cpc = "wait"
  /\ apcs = << >> /\ wpc = "sleep" /\ tpc = "idle"

(* The registry, g_work_folder and the watcher have the same folder in the *)
(* end, with two threads writing the registry and a read of it that is 50   *)
(* ms old when used, unless something visibly went wrong on the way: a      *)
(* reason that came while the service was paused, a wake-up the worker      *)
(* ignored, or a save of its own that failed.                               *)
FoldersAgree == Quiet /\ lost = {} => registry = work /\ work = watching
==============================================================================
