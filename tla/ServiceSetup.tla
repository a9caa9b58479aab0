----------------------------- MODULE ServiceSetup -----------------------------
(***************************************************************************)
(* The controllers: dialogs that install, start, stop and uninstall the    *)
(* service through the service manager, each in a process of its own and   *)
(* not knowing of each other.  The service they control is ServiceStates,  *)
(* which ServiceControl implements; it may also die.                       *)
(*                                                                         *)
(* A controller is one thread: its handler runs from the click to the end, *)
(* and the others' steps and the service's come between its calls.  Time   *)
(* is not counted: a wait for a pending state ends when the state has      *)
(* changed or, at any time, by its timeout.  Handlers return false where   *)
(* the debug build fails an assertion.                                     *)
(*                                                                         *)
(* trouble and torn are history variables.                                 *)
(***************************************************************************)
EXTENDS Naturals, FiniteSets

CONSTANTS
  Controllers,
  MaxClicks,      \* bound: clicks, in all controllers
  MaxFaults       \* bound: calls that fail, deaths of the service

ASSUME SetupAssumption == MaxClicks \in Nat /\ MaxFaults \in Nat

Jobs == {"install", "uninstall", "start", "stop", "restart"}

VARIABLES
  state, told,          \* the service, see ServiceStates
  entry,                \* of the service in the manager's database
  files,                \* the service's program is in its folder
  pc, job,              \* of each controller: its place, and the click it serves
  inner,                \* stop_service was called by start_service
  leaked,               \* uninstall_service has not closed its handles
  button, links, text,  \* the button and the links that are enabled, and the status line
  clicks, faults,
  trouble,              \* what went wrong or interfered since the last install or uninstall
  torn                  \* why the service may be installed in part

service == <<state, told>>
manager == <<service, entry, files>>
shown == <<button, links, text>>
vars == <<manager, pc, job, inner, leaked, shown, clicks, faults, trouble, torn>>

Service == INSTANCE ServiceStates WITH state <- state, told <- told

Init ==
  /\ state = "stopped" /\ told = FALSE
  /\ entry = "absent" /\ files = FALSE
  /\ pc = [c \in Controllers |-> "closed"] /\ job = [c \in Controllers |-> "none"]
  /\ inner = [c \in Controllers |-> FALSE] /\ leaked = [c \in Controllers |-> FALSE]
  /\ button = [c \in Controllers |-> "install"] /\ links = [c \in Controllers |-> FALSE]
  /\ text = [c \in Controllers |-> "none"]
  /\ clicks = 0 /\ faults = 0
  /\ trouble = [c \in Controllers |-> {}] /\ torn = {}

Goto(c, place) == pc' = [pc EXCEPT ![c] = place]
Named(c, names) == trouble' = [trouble EXCEPT ![c] = @ \cup names]
Shows(c, b, l, t) == /\ button' = [button EXCEPT ![c] = b]
                     /\ links' = [links EXCEPT ![c] = l]
                     /\ text' = [text EXCEPT ![c] = t]
When(condition, name) == IF condition THEN {name} ELSE {}

(* A call of the system fails although it need not. *)
Fault(happens) == /\ happens => faults < MaxFaults
                  /\ faults' = IF happens THEN faults + 1 ELSE faults

Working == {c \in Controllers : pc[c] \notin {"closed", "idle"}}
Installed == files /\ entry # "absent"      \* is_service_installed

(* Who has a handle to the service open: stop_service, start_service, and   *)
(* for ever uninstall_service.                                              *)
Holding == {c \in Controllers : \/ leaked[c]
                                \/ pc[c] \in {"launch", "starting", "wait pending", "control",
                                              "told", "wait stopped", "delete"}}

-----------------------------------------------------------------------------
(* The dialog.  Somebody else is at the service also when it has still to  *)
(* obey who gave up waiting for it.                                        *)
Open(c) ==
  /\ pc[c] = "closed"
  /\ Goto(c, "idle")
  /\ Shows(c, IF Installed THEN "uninstall" ELSE "install", Installed,
           IF Installed /\ state \in {"running", "stopped"} THEN state ELSE "none")
  /\ trouble' = [trouble EXCEPT ![c] = When(Working # {} \/ (told /\ state # "stopped"), "other")]
  /\ UNCHANGED <<manager, job, inner, leaked, clicks, faults, torn>>

Close(c) ==
  /\ pc[c] = "idle"
  /\ Goto(c, "closed")
  /\ leaked' = [leaked EXCEPT ![c] = FALSE]
  /\ Shows(c, "install", FALSE, "none")
  /\ trouble' = [trouble EXCEPT ![c] = {}]
  /\ UNCHANGED <<manager, job, inner, clicks, faults, torn>>

(* The link of the restart is never disabled. *)
Enabled(c, j) == \/ j \in {"install", "uninstall"} /\ button[c] = j
                 \/ j \in {"start", "stop"} /\ links[c]
                 \/ j = "restart"

Entrance(j) == CASE j = "install" -> "expand"
                 [] j = "start"   -> "open"
                 [] OTHER         -> "query"

Click(c, j) ==
  /\ pc[c] = "idle" /\ Enabled(c, j)
  /\ clicks < MaxClicks /\ clicks' = clicks + 1
  /\ job' = [job EXCEPT ![c] = j]
  /\ Goto(c, Entrance(j))
  /\ trouble' = [d \in Controllers |->
                   CASE d = c            -> When(Working # {}, "other") \cup
                                            IF j \in {"install", "uninstall"} THEN {} ELSE trouble[c]
                     [] pc[d] = "closed" -> {}
                     [] OTHER            -> trouble[d] \cup {"other"}]
  /\ UNCHANGED <<manager, inner, leaked, shown, faults, torn>>

(* A slip used to check that the properties bite: the end is not noted. *)
EndsBusy(c, names) == Goto(c, "idle") /\ UNCHANGED job /\ Named(c, names)

(* The handler returns; names say why its job came to less than was asked. *)
Ends(c, names) == /\ Goto(c, "idle")
                  /\ job' = [job EXCEPT ![c] = "none"]
                  /\ Named(c, names)

-----------------------------------------------------------------------------
(* install_service.  The archive reader does not report a file that it      *)
(* could not create; the temporary file may stay, and that is a failure.    *)
Expand(c, ok, written) ==
  /\ pc[c] = "expand"
  /\ files' = (files \/ written)
  /\ Fault(~ok \/ ~files')
  /\ torn' = torn \cup When(ok /\ ~files', "unwritten")
  /\ \/ ok /\ Goto(c, "create") /\ Named(c, When(~files', "fault")) /\ UNCHANGED <<job, shown>>
     \/ ~ok /\ Ends(c, {"fault"}) /\ Shows(c, "install", links[c], "failed")
  /\ UNCHANGED <<service, entry, inner, leaked, clicks>>

(* The archive reader ends the whole controller when it gives up. *)
ExpandExits(c, written) ==
  /\ pc[c] = "expand"
  /\ Fault(TRUE)
  /\ files' = (files \/ written)
  /\ Goto(c, "closed") /\ job' = [job EXCEPT ![c] = "none"]
  /\ leaked' = [leaked EXCEPT ![c] = FALSE]
  /\ Shows(c, "install", FALSE, "none")
  /\ trouble' = [trouble EXCEPT ![c] = {}]
  /\ UNCHANGED <<service, entry, inner, clicks, torn>>

(* CreateService, which a service that is there or marked refuses, and      *)
(* OnInstall's auto start.                                                  *)
CreateService(c, ok, auto) ==
  /\ pc[c] = "create"
  /\ Fault(entry = "absent" /\ ~ok)
  /\ IF entry = "absent" /\ ok
       THEN /\ entry' = "present"
            /\ \/ auto /\ Goto(c, "open") /\ UNCHANGED <<job, shown, trouble>>
               \/ ~auto /\ Ends(c, {}) /\ Shows(c, "uninstall", TRUE, "stopped")
       ELSE /\ ~auto
            /\ Ends(c, {"create failed"}) /\ Shows(c, "install", links[c], "failed")
            /\ UNCHANGED entry
  /\ UNCHANGED <<service, files, inner, leaked, clicks, torn>>

-----------------------------------------------------------------------------
(* A slip: the buttons stay as they were. *)
StartedOnly(c, saved) ==
  /\ Ends(c, When(~saved, "fault"))
  /\ Shows(c, button[c], links[c], IF saved THEN "running" ELSE text[c])

(* What becomes of start_service's result, in OnInstall and OnStartService, *)
(* which then saves the address. *)
Started(c, saved) ==
  /\ Ends(c, When(~saved, "fault"))
  /\ \/ job[c] = "install" /\ Shows(c, "uninstall", TRUE, "running")
     \/ job[c] # "install" /\ Shows(c, button[c], links[c], IF saved THEN "running" ELSE text[c])

NotStarted(c, names) ==
  /\ Ends(c, names \cup {"start failed"})
  /\ \/ job[c] = "install" /\ Shows(c, "install", TRUE, "failed")
     \/ job[c] # "install" /\ UNCHANGED shown

(* start_service: a service that runs is stopped first.  The state read     *)
(* before that is the one required to be STOPPED afterwards.                *)
OpenService(c, ok) ==
  /\ pc[c] = "open"
  /\ Fault(~ok)
  /\ \/ /\ ok /\ entry # "absent" /\ state = "stopped"
        /\ Goto(c, "launch")
        /\ UNCHANGED <<job, inner, shown, trouble>>
     \/ /\ ok /\ entry # "absent" /\ state \notin {"stopped", "stop_pending"}
        /\ Goto(c, "query") /\ inner' = [inner EXCEPT ![c] = TRUE]
        /\ UNCHANGED <<job, shown, trouble>>
     \/ /\ ~ok \/ entry = "absent" \/ state = "stop_pending"
        /\ NotStarted(c, When(~ok, "fault"))
        /\ UNCHANGED inner
  /\ UNCHANGED <<manager, leaked, clicks, torn>>

StartService(c, ok) ==
  /\ pc[c] = "launch"
  /\ Fault(~ok)
  /\ \/ /\ ok /\ entry = "present" /\ files /\ state = "stopped"
        /\ state' = "start_pending" /\ told' = FALSE
        /\ Goto(c, "starting")
        /\ UNCHANGED <<job, shown, trouble>>
     \/ /\ ~(ok /\ entry = "present" /\ files /\ state = "stopped")
        /\ NotStarted(c, When(~ok, "fault"))
        /\ UNCHANGED service
  /\ UNCHANGED <<entry, files, inner, leaked, clicks, torn>>

WaitStarted(c, ok, saved, timeout) ==
  /\ pc[c] = "starting"
  /\ Fault(~ok \/ ~saved)
  /\ ~saved => ok /\ state = "running" /\ job[c] # "install"
  /\ timeout => ok /\ state = "start_pending"
  /\ \/ ok /\ state = "running" /\ Started(c, saved)
     \/ ok /\ state # "running" /\ (state = "start_pending" => timeout)
        /\ NotStarted(c, When(timeout, "timeout"))
     \/ ~ok /\ NotStarted(c, {"fault"})
  /\ UNCHANGED <<manager, inner, leaked, clicks, torn>>

-----------------------------------------------------------------------------
(* What becomes of stop_service's result, in start_service, OnStopService,  *)
(* OnUninstall and the restart, whose user may be asked for an address and  *)
(* decline.  In start_service the assertion fails either way.               *)
Stopped(c, names) ==
  \/ /\ inner[c]
     /\ inner' = [inner EXCEPT ![c] = FALSE]
     /\ NotStarted(c, names)
  \/ /\ ~inner[c] /\ job[c] = "stop"
     /\ Ends(c, names) /\ Shows(c, button[c], links[c], "stopped")
     /\ UNCHANGED inner
  \/ /\ ~inner[c] /\ job[c] \in {"uninstall", "restart"}
     /\ Shows(c, button[c], links[c], "stopped")
     /\ \/ /\ Goto(c, IF job[c] = "restart" THEN "open" ELSE "exists")
           /\ Named(c, names) /\ UNCHANGED job
        \/ job[c] = "restart" /\ Ends(c, names)
     /\ UNCHANGED inner

NotStopped(c, names) ==
  \/ /\ inner[c]
     /\ inner' = [inner EXCEPT ![c] = FALSE]
     /\ NotStarted(c, names)
  \/ /\ ~inner[c] /\ job[c] = "restart"
     /\ \/ Goto(c, "open") /\ Named(c, names \cup {"stop failed"}) /\ UNCHANGED job
        \/ Ends(c, names \cup {"stop failed"})
     /\ UNCHANGED <<inner, shown>>
  \/ /\ ~inner[c] /\ job[c] \in {"stop", "uninstall"}
     /\ Ends(c, names \cup {"stop failed"})
     /\ \/ job[c] = "stop" /\ UNCHANGED shown
        \/ job[c] = "uninstall" /\ Shows(c, "install", links[c], "failed")
     /\ UNCHANGED inner

(* A slip: a service that is stopping counts as stopped. *)
QueryServiceHastily(c, ok) ==
  /\ pc[c] = "query"
  /\ Fault(~ok)
  /\ \/ (~ok \/ entry = "absent") /\ NotStopped(c, When(~ok, "fault"))
     \/ ok /\ entry # "absent" /\ state \in {"stopped", "stop_pending"} /\ Stopped(c, {})
     \/ /\ ok /\ entry # "absent" /\ state \notin {"stopped", "stop_pending"}
        /\ Goto(c, "control")
        /\ UNCHANGED <<job, inner, shown, trouble>>
  /\ UNCHANGED <<manager, leaked, clicks, torn>>

(* stop_service *)
QueryService(c, ok) ==
  /\ pc[c] = "query"
  /\ Fault(~ok)
  /\ \/ (~ok \/ entry = "absent") /\ NotStopped(c, When(~ok, "fault"))
     \/ ok /\ entry # "absent" /\ state = "stopped" /\ Stopped(c, {})
     \/ /\ ok /\ entry # "absent" /\ state # "stopped"
        /\ Goto(c, IF state = "stop_pending" THEN "wait pending" ELSE "control")
        /\ UNCHANGED <<job, inner, shown, trouble>>
  /\ UNCHANGED <<manager, leaked, clicks, torn>>

(* After a failed query the handles are closed, unless they are             *)
(* start_service's, and used.                                               *)
WaitPending(c, ok, timeout) ==
  /\ pc[c] = "wait pending"
  /\ Fault(~ok)
  /\ timeout => ok /\ state = "stop_pending"
  /\ \/ ok /\ state = "stopped" /\ Stopped(c, {})
     \/ /\ \/ ok /\ state # "stopped" /\ (state = "stop_pending" => timeout)
           \/ ~ok /\ inner[c]
        /\ Goto(c, "control")
        /\ Named(c, When(timeout, "timeout") \cup When(~ok, "fault"))
        /\ UNCHANGED <<job, inner, shown>>
     \/ ~ok /\ ~inner[c] /\ NotStopped(c, {"fault"})
  /\ UNCHANGED <<manager, leaked, clicks, torn>>

(* ControlService returns when the service's handler has, one at a time; it *)
(* fails when the service takes no stop, or after a time.                   *)
ControlService(c, ok) ==
  /\ pc[c] = "control"
  /\ Fault(~ok)
  /\ \/ ok /\ Service!Tell /\ Goto(c, "told") /\ UNCHANGED <<job, inner, shown, trouble>>
     \/ /\ ok /\ state \in {"start_pending", "stop_pending", "stopped"}
        /\ NotStopped(c, {})
        /\ UNCHANGED service
     \/ /\ ok /\ (state \in {"pause_pending", "continue_pending"} \/ told)
        /\ NotStopped(c, {"timeout"})
        /\ UNCHANGED service
     \/ ~ok /\ NotStopped(c, {"fault"}) /\ UNCHANGED service
  /\ UNCHANGED <<entry, files, leaked, clicks, torn>>

ControlReturns(c, ok) ==
  /\ pc[c] = "told"
  /\ Fault(~ok)
  /\ \/ ok /\ told /\ state \in {"running", "paused"} /\ NotStopped(c, {"timeout"})
     \/ ok /\ state = "stopped" /\ Stopped(c, {})
     \/ /\ ok /\ state # "stopped" /\ ~(told /\ state \in {"running", "paused"})
        /\ Goto(c, "wait stopped")
        /\ UNCHANGED <<job, inner, shown, trouble>>
     \/ ~ok /\ NotStopped(c, {"fault"})
  /\ UNCHANGED <<manager, leaked, clicks, torn>>

(* A timeout, and a query that fails, count as stopped. *)
WaitStopped(c, ok) ==
  /\ pc[c] = "wait stopped"
  /\ Fault(~ok)
  /\ Stopped(c, When(~ok, "fault") \cup When(ok /\ state # "stopped", "timeout"))
  /\ UNCHANGED <<manager, leaked, clicks, torn>>

-----------------------------------------------------------------------------
(* uninstall_service *)
Uninstalled(c, ok, names) ==
  /\ Ends(c, names)
  /\ \/ ok /\ Shows(c, "install", FALSE, "uninstalled")
     \/ ~ok /\ Shows(c, "uninstall", FALSE, "failed")

(* A slip: the service is not deleted. *)
ServiceExistsOnly(c, ok) ==
  /\ pc[c] = "exists"
  /\ Fault(~ok)
  /\ \/ ok /\ entry = "absent" /\ Uninstalled(c, TRUE, {})
     \/ ok /\ entry # "absent" /\ Goto(c, "remove") /\ UNCHANGED <<job, shown, trouble>>
     \/ ~ok /\ Uninstalled(c, FALSE, {"fault"})
  /\ UNCHANGED <<manager, inner, leaked, clicks, torn>>

ServiceExists(c, ok) ==
  /\ pc[c] = "exists"
  /\ Fault(~ok)
  /\ \/ ok /\ entry = "absent" /\ Uninstalled(c, TRUE, {})
     \/ ok /\ entry # "absent" /\ Goto(c, "delete") /\ UNCHANGED <<job, shown, trouble>>
     \/ ~ok /\ Uninstalled(c, FALSE, {"fault"})
  /\ UNCHANGED <<manager, inner, leaked, clicks, torn>>

(* After a refusal the handles are closed, and it goes on; after a success  *)
(* they are not. *)
DeleteService(c, ok) ==
  /\ pc[c] = "delete"
  /\ Fault(entry = "present" /\ ~ok)
  /\ IF entry = "present" /\ ok
       THEN entry' = "marked" /\ leaked' = [leaked EXCEPT ![c] = TRUE] /\ UNCHANGED <<trouble, torn>>
       ELSE Named(c, {"fault"}) /\ torn' = torn \cup {"not deleted"} /\ UNCHANGED <<entry, leaked>>
  /\ Goto(c, "remove")
  /\ UNCHANGED <<service, files, job, inner, shown, clicks>>

(* The folder, where a program that runs stays, and the service's key. *)
RemoveFiles(c, removed, ok) ==
  /\ pc[c] = "remove"
  /\ removed => files /\ state = "stopped"
  /\ Fault(~ok \/ (files /\ state = "stopped" /\ ~removed))
  /\ files' = (files /\ ~removed)
  /\ torn' = torn \cup When(removed /\ \E d \in Controllers : pc[d] = "create", "under install")
  /\ Uninstalled(c, ok, When(~ok \/ (files /\ state = "stopped" /\ ~removed), "fault"))
  /\ UNCHANGED <<service, entry, inner, leaked, clicks>>

Step(c) ==
  \E ok \in BOOLEAN :
    \/ OpenService(c, ok) \/ StartService(c, ok) \/ QueryService(c, ok)
    \/ ControlService(c, ok) \/ ControlReturns(c, ok) \/ WaitStopped(c, ok)
    \/ ServiceExists(c, ok) \/ DeleteService(c, ok)
    \/ \E more \in BOOLEAN :
         \/ Expand(c, ok, more) \/ ExpandExits(c, more) \/ CreateService(c, ok, more)
         \/ WaitPending(c, ok, more) \/ RemoveFiles(c, more, ok)
         \/ \E timeout \in BOOLEAN : WaitStarted(c, ok, more, timeout)

-----------------------------------------------------------------------------
Everybody(name) ==
  trouble' = [c \in Controllers |-> IF pc[c] = "closed" THEN {} ELSE trouble[c] \cup {name}]

(* The service's own steps, and the pauses that other programs ask it for. *)
Lives ==
  /\ Service!Start \/ Service!Pause \/ Service!Stop
  /\ UNCHANGED <<entry, files, pc, job, inner, leaked, shown, clicks, faults, trouble, torn>>

Dies ==
  /\ state # "stopped" /\ state' = "stopped"
  /\ Fault(TRUE)
  /\ Everybody("fault")
  /\ UNCHANGED <<told, entry, files, pc, job, inner, leaked, shown, clicks, torn>>

(* A service that was deleted goes when it has stopped and every handle to *)
(* it is closed.                                                           *)
Vanish ==
  /\ entry = "marked" /\ state = "stopped" /\ Holding = {}
  /\ entry' = "absent"
  /\ Everybody("other")
  /\ UNCHANGED <<service, files, pc, job, inner, leaked, shown, clicks, faults, torn>>

Next == \/ \E c \in Controllers : Open(c) \/ Close(c) \/ Step(c) \/ \E j \in Jobs : Click(c, j)
        \/ Lives \/ Dies \/ Vanish

Spec == Init /\ [][Next]_vars

-----------------------------------------------------------------------------
TypeOK ==
  /\ state \in {"stopped", "start_pending", "stop_pending", "running", "continue_pending",
                "pause_pending", "paused"}
  /\ told \in BOOLEAN /\ files \in BOOLEAN
  /\ entry \in {"absent", "present", "marked"} /\ (entry = "absent" => state = "stopped")
  /\ pc \in [Controllers -> {"closed", "idle", "expand", "create", "open", "launch", "starting",
                             "query", "wait pending", "control", "told", "wait stopped", "exists",
                             "delete", "remove"}]
  /\ job \in [Controllers -> Jobs \cup {"none"}]
  /\ \A c \in Controllers : job[c] = "none" <=> c \notin Working
  /\ inner \in [Controllers -> BOOLEAN] /\ leaked \in [Controllers -> BOOLEAN]
  /\ button \in [Controllers -> {"install", "uninstall"}] /\ links \in [Controllers -> BOOLEAN]
  /\ text \in [Controllers -> {"none", "running", "stopped", "uninstalled", "failed"}]
  /\ clicks \in 0..MaxClicks /\ faults \in 0..MaxFaults
  /\ trouble \in [Controllers -> SUBSET {"fault", "timeout", "other", "start failed",
                                         "stop failed", "create failed"}]
  /\ torn \subseteq {"unwritten", "not deleted", "under install"}

Clean(c, names) == pc[c] = "idle" /\ trouble[c] \cap names = {}

(* The dialog offers to install what is not installed, and to uninstall     *)
(* what is, unless somebody else was at it, a call failed or timed out, or  *)
(* the handler took an installed service that did not start, did not stop   *)
(* or was there already for one that is not installed.                      *)
ButtonsMatch ==
  \A c \in Controllers :
    Clean(c, {"fault", "timeout", "other", "start failed", "stop failed", "create failed"}) =>
      (button[c] = "uninstall" <=> Installed)

(* The status line goes on to be true while nobody else is at it: a service *)
(* said to be stopped, running or gone is, unless a call failed, the wait   *)
(* for the stop timed out, or a start that failed left the line as it was.  *)
TextHolds ==
  \A c \in Controllers :
    Clean(c, {"fault", "timeout", "other", "start failed"}) =>
      /\ text[c] = "stopped" => state = "stopped"
      /\ text[c] = "running" => state \notin {"stopped", "stop_pending", "start_pending"}
      /\ text[c] = "uninstalled" => state = "stopped" /\ entry # "present" /\ ~files

(* A service in the manager's database has its program, unless it was not   *)
(* written, the deletion was refused and the removal of the files went on,  *)
(* or one controller removed what another had just written.                 *)
InstalledIsWhole == entry = "present" => files \/ torn # {}
=============================================================================
