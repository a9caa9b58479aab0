----------------------------- MODULE FolderWatch -----------------------------
(***************************************************************************)
(* The life of the folder watcher.  The WorkerThread stops it, gives it a  *)
(* folder, opens a directory handle, takes the watch tree of the folder    *)
(* and starts a loop thread; the loop thread issues one read of the        *)
(* directory after the other, enters what they report in the watch tree    *)
(* and asks for the upload; the payload thread takes the global watch tree *)
(* and looks for its files under a path of its own.                        *)
(*                                                                         *)
(* How a folder comes to be commanded, and whether the worker is woken for *)
(* it, is the matter of CommandPath; how the tree is emptied that of       *)
(* PayloadPath: here a tree holds files or does not, and get_all and clear *)
(* are one step.  A read of g_work_folder while it is assigned is not      *)
(* considered, and g_work_ignore_folders is empty, as nothing ever assigns *)
(* it.  A folder that is deleted or moved away does not come back.         *)
(*                                                                         *)
(* trouble and stray are history variables: what may make the watcher      *)
(* fail, and whether g_work_folder was changed under files on their way.   *)
(***************************************************************************)
EXTENDS Naturals, Sequences

CONSTANTS
  Folders,        \* folders that may be watched
  InitFolder,     \* the folder saved by an earlier run
  None,           \* a null handle, a null tree
  Empty,          \* the empty path
  MaxMoves,       \* bound: changes of g_work_folder
  MaxFiles,       \* bound: files that appear
  MaxFaults       \* bound: folders that disappear, handles and reads refused

ASSUME FoldersAssumption ==
  InitFolder \in Folders /\ None \notin Folders \cup {Empty} /\ Empty \notin Folders
ASSUME BoundsAssumption == MaxMoves \in Nat /\ MaxFiles \in Nat /\ MaxFaults \in Nat

Apcs == {"watch", "wake", "done", "error"}

VARIABLES
  exists,               \* the folders on the disk
  work, used, woken,    \* g_work_folder, the values it had, and the worker's APC
  wpc,                  \* the WorkerThread
  folder, handle,       \* folder and folder_handle of the watcher
  running, signal,      \* running and signal of the watcher
  lpc, apcs, read,      \* the loop thread, its APC queue and the read it has issued
  tree, instance,       \* watch_tree_ptr and _g_watch_tree_instance
  cached,               \* the keys of path_watch_trees
  holds,                \* the trees with files in them
  due,                  \* send_payload in the reason signal
  path, pflag,          \* _watch_path and _payload_signal of the client
  ppc, ptree,           \* the payload thread
  moves, files, faults,
  crashed,              \* what has terminated the process
  trouble, stray

disk == <<exists, faults>>
commanded == <<work, used, woken, moves>>
object == <<folder, handle, running, signal>>
loop == <<lpc, apcs, read, files>>
trees == <<tree, instance, cached>>
client == <<path, pflag, ppc, ptree>>

vars == <<disk, commanded, wpc, object, loop, trees, holds, due, client, crashed, trouble, stray>>

Init ==
  /\ exists = Folders /\ faults = 0
  /\ work = InitFolder /\ used = {InitFolder} /\ woken = FALSE /\ moves = 0
  /\ wpc = "set"
  /\ folder = Empty /\ handle = None /\ running = FALSE /\ signal = FALSE
  /\ lpc = "none" /\ apcs = << >> /\ read = None /\ files = 0
  /\ tree = None /\ instance = None /\ cached = {}
  /\ holds = {}
  /\ due = FALSE
  /\ path = Empty /\ ppc = "wait" /\ ptree = None
  /\ pflag \in BOOLEAN      \* stop_threads of an earlier connection may have left it up
  /\ crashed = "no" /\ trouble = {} /\ stray = FALSE

(* Nothing of the old folder is on its way any more. *)
Settled ==
  /\ ~woken /\ wpc = "idle"
  /\ apcs = << >> /\ lpc \in {"sleep", "none"}
  /\ holds = {} /\ ~due /\ ~pflag /\ ppc = "wait"

(* watch_tree_instance(f, {}, reset): path_watch_trees has a weak pointer   *)
(* per folder and never replaces one, so that a folder whose first tree is  *)
(* gone gets null.  A tree lives as long as one of the three refers to it.  *)
Alive(f) == f \in {tree, instance, ptree}
Instance(f, reset) ==
  IF instance # None /\ ~reset THEN instance
  ELSE IF f \in cached /\ ~Alive(f) THEN None ELSE f
WatchTreeInstance(f, reset) ==
  /\ instance' = Instance(f, reset)
  /\ cached' = IF instance # None /\ ~reset THEN cached ELSE cached \cup {f}

-----------------------------------------------------------------------------
(* Slips used to check that the properties bite. *)
StopRouseSilent == \* the loop thread is not woken
  /\ wpc = "rouse"
  /\ wpc' = "join"
  /\ UNCHANGED <<disk, commanded, object, loop, trees, holds, due, client, crashed, trouble, stray>>

StopJoinSkipped == \* the loop thread is not waited for
  /\ wpc = "join"
  /\ wpc' = "set"
  /\ UNCHANGED <<disk, commanded, object, loop, trees, holds, due, client, crashed, trouble, stray>>

OpenHandleNoReset(ok) == \* force_reset is not set
  /\ wpc = "open"
  /\ handle' = folder
  /\ wpc' = "keep"
  /\ UNCHANGED <<disk, commanded, folder, running, signal, loop, trees, holds, due, client,
                 crashed, trouble, stray>>

RunDoneOnce(ok) == \* no further read is issued
  /\ lpc \in {"sleep", "drain"}
  /\ apcs # << >> /\ Head(apcs) = "done" /\ apcs' = Tail(apcs)
  /\ lpc' = "parse"
  /\ UNCHANGED <<disk, commanded, wpc, object, read, files, trees, holds, due, client,
                 crashed, trouble, stray>>

DispatchNoPath == \* notify_payload without its argument
  /\ due
  /\ due' = FALSE /\ pflag' = TRUE
  /\ UNCHANGED <<disk, commanded, wpc, object, loop, trees, holds, path, ppc, ptree,
                 crashed, trouble, stray>>

Fault(happens) ==
  /\ happens => faults < MaxFaults
  /\ faults' = IF happens THEN faults + 1 ELSE faults

-----------------------------------------------------------------------------
(* From outside. *)

(* reset_work_folder: another existing folder, and an APC for the worker.   *)
ResetWorkFolder(f) ==
  /\ moves < MaxMoves
  /\ f \in exists /\ f # work
  /\ work' = f /\ used' = used \cup {f} /\ woken' = TRUE /\ moves' = moves + 1
  /\ trouble' = IF f \in used THEN trouble \cup {"returned"} ELSE trouble
  /\ stray' = (stray \/ ~Settled)
  /\ UNCHANGED <<disk, wpc, object, loop, trees, holds, due, client, crashed>>

(* The folder is deleted, and the read of it fails, or it is moved away.    *)
Remove(f, deleted) ==
  /\ f \in exists
  /\ exists' = exists \ {f}
  /\ Fault(TRUE)
  /\ trouble' = trouble \cup {"removed"}
  /\ IF deleted /\ read = f
       THEN read' = None /\ apcs' = Append(apcs, "error")
       ELSE UNCHANGED <<read, apcs>>
  /\ UNCHANGED <<commanded, wpc, object, lpc, files, trees, holds, due, client, crashed, stray>>

(* A file appears in the folder, and the read completes. *)
CreateFile ==
  /\ files < MaxFiles
  /\ read # None
  /\ files' = files + 1
  /\ read' = None /\ apcs' = Append(apcs, "done")
  /\ stray' = (stray \/ work # read)
  /\ UNCHANGED <<disk, commanded, wpc, object, lpc, trees, holds, due, client, crashed, trouble>>

-----------------------------------------------------------------------------
(* The WorkerThread. *)

WorkerWake ==
  /\ wpc = "idle"
  /\ woken
  /\ woken' = FALSE
  /\ \/ /\ work \in exists
        /\ wpc' = "stop"
     \/ /\ work \notin exists
        /\ UNCHANGED wpc
  /\ UNCHANGED <<disk, work, used, moves, object, loop, trees, holds, due, client, crashed, trouble, stray>>

(* folder_watchor_apc::stop *)
StopTest ==
  /\ wpc = "stop"
  /\ wpc' = IF running THEN "lower" ELSE "set"
  /\ UNCHANGED <<disk, commanded, object, loop, trees, holds, due, client, crashed, trouble, stray>>

StopLower ==
  /\ wpc = "lower"
  /\ running' = FALSE
  /\ wpc' = "rouse"
  /\ UNCHANGED <<disk, commanded, folder, handle, signal, loop, trees, holds, due, client,
                 crashed, trouble, stray>>

(* QueueUserAPC fails for a thread that has ended, and stop returns without *)
(* joining it.                                                              *)
StopRouse ==
  /\ wpc = "rouse"
  /\ \/ /\ lpc # "ended"
        /\ apcs' = Append(apcs, "wake")
        /\ wpc' = "join"
        /\ UNCHANGED trouble
     \/ /\ lpc = "ended"
        /\ wpc' = "set"
        /\ trouble' = trouble \cup {"unjoined"}
        /\ UNCHANGED apcs
  /\ UNCHANGED <<disk, commanded, object, lpc, read, files, trees, holds, due, client,
                 crashed, stray>>

StopJoin ==
  /\ wpc = "join"
  /\ lpc = "ended"
  /\ lpc' = "none" /\ apcs' = << >>
  /\ wpc' = "set"
  /\ UNCHANGED <<disk, commanded, object, read, files, trees, holds, due, client,
                 crashed, trouble, stray>>

(* set_watch_folder: the folder, and the end of the old handle; no read is  *)
(* pending on it.                                                           *)
SetFolder ==
  /\ wpc = "set"
  /\ \/ /\ work \notin exists
        /\ wpc' = "idle"
        /\ UNCHANGED <<folder, handle>>
     \/ /\ work \in exists
        /\ wpc' = IF folder # work \/ handle = None THEN "open" ELSE "keep"
        /\ folder' = work
        /\ handle' = IF folder # work THEN None ELSE handle
  /\ UNCHANGED <<disk, commanded, running, signal, loop, trees, holds, due, client, crashed, trouble, stray>>

(* CreateFile fails without the folder, and may be refused. *)
OpenHandle(ok) ==
  /\ wpc = "open"
  /\ ok => folder \in exists
  /\ Fault(~ok /\ folder \in exists)
  /\ handle' = IF ok THEN folder ELSE None
  /\ running' = (running /\ ok)
  /\ wpc' = IF ok THEN "reset" ELSE "idle"
  /\ UNCHANGED <<exists, commanded, folder, signal, loop, trees, holds, due, client,
                 crashed, trouble, stray>>

(* The tree of the folder; a tree that nothing refers to any more goes with *)
(* the files in it.                                                         *)
TakeTree ==
  /\ wpc \in {"reset", "keep"}
  /\ WatchTreeInstance(folder, wpc = "reset")
  /\ tree' = instance'
  /\ holds' = holds \cap {instance', ptree}
  /\ running' = TRUE
  /\ wpc' = "spawn"
  /\ UNCHANGED <<disk, commanded, folder, handle, signal, loop, due, client,
                 crashed, trouble, stray>>

(* start: a std::thread assigned over a joinable one terminates.            *)
StartThread ==
  /\ wpc = "spawn"
  /\ \/ /\ lpc = "none"
        /\ lpc' = "new"
        /\ wpc' = "await"
        /\ UNCHANGED crashed
     \/ /\ lpc # "none"
        /\ crashed' = "assigned"
        /\ UNCHANGED <<lpc, wpc>>
  /\ UNCHANGED <<disk, commanded, object, apcs, read, files, trees, holds, due, client,
                 trouble, stray>>

StartAwait ==
  /\ wpc = "await"
  /\ signal
  /\ signal' = FALSE
  /\ wpc' = "queue"
  /\ UNCHANGED <<disk, commanded, folder, handle, running, loop, trees, holds, due, client,
                 crashed, trouble, stray>>

StartQueue ==
  /\ wpc = "queue"
  /\ apcs' = Append(apcs, "watch")
  /\ wpc' = "idle"
  /\ UNCHANGED <<disk, commanded, object, lpc, read, files, trees, holds, due, client,
                 crashed, trouble, stray>>

Worker == \/ WorkerWake
          \/ StopTest \/ StopLower \/ StopRouse \/ StopJoin
          \/ SetFolder \/ TakeTree
          \/ \E ok \in BOOLEAN : OpenHandle(ok)
          \/ StartThread \/ StartAwait \/ StartQueue

-----------------------------------------------------------------------------
(* The loop thread.  SleepEx returns when every APC in the queue has run.   *)

LoopBegin ==
  /\ lpc = "new"
  /\ signal' = TRUE
  /\ lpc' = "sleep"
  /\ UNCHANGED <<disk, commanded, wpc, folder, handle, running, apcs, read, files, trees, holds,
                 due, client, crashed, trouble, stray>>

(* watch(); ReadDirectoryChangesW may fail, and the failure is not noticed. *)
Watch(ok) ==
  \/ /\ running /\ folder \in exists /\ handle # None /\ ok
     /\ read' = handle
     /\ UNCHANGED <<running, trouble, faults>>
  \/ /\ running /\ folder \in exists /\ ~ok
     /\ Fault(handle # None)
     /\ trouble' = trouble \cup {"deaf"}
     /\ UNCHANGED <<running, read>>
  \/ /\ running /\ folder \notin exists
     /\ running' = FALSE
     /\ UNCHANGED <<read, trouble, faults>>
  \/ /\ ~running
     /\ UNCHANGED <<running, read, trouble, faults>>

Runs(apc) == /\ lpc \in {"sleep", "drain"}
             /\ apcs # << >> /\ Head(apcs) = apc
             /\ apcs' = Tail(apcs)

RunWatch(ok) ==
  /\ Runs("watch")
  /\ Watch(ok)
  /\ lpc' = "drain"
  /\ UNCHANGED <<exists, commanded, wpc, folder, handle, signal, files, trees, holds, due, client,
                 crashed, stray>>

RunWake ==
  /\ Runs("wake")
  /\ lpc' = "drain"
  /\ UNCHANGED <<disk, commanded, wpc, object, read, files, trees, holds, due, client,
                 crashed, trouble, stray>>

(* completion_routine, after an error: whatever it was, stop() follows,     *)
(* which joins the thread it runs on unless running is lowered already.     *)
RunError ==
  /\ Runs("error")
  /\ \/ /\ running
        /\ running' = FALSE
        /\ crashed' = "self join"
        /\ UNCHANGED lpc
     \/ /\ ~running
        /\ lpc' = "drain"
        /\ UNCHANGED <<running, crashed>>
  /\ UNCHANGED <<disk, commanded, wpc, folder, handle, signal, read, files, trees, holds, due,
                 client, trouble, stray>>

(* completion_routine: the next read, ... *)
RunDone(ok) ==
  /\ Runs("done")
  /\ Watch(ok)
  /\ lpc' = "parse"
  /\ UNCHANGED <<exists, commanded, wpc, folder, handle, signal, files, trees, holds, due, client,
                 crashed, stray>>

(* ... the entry in the watch tree, which is used even when it is null, ... *)
Parse ==
  /\ lpc = "parse"
  /\ \/ /\ tree # None
        /\ folder \in exists
        /\ holds' = holds \cup {tree}
        /\ lpc' = "post"
        /\ UNCHANGED crashed
     \/ /\ tree # None
        /\ folder \notin exists         \* nor does the file
        /\ lpc' = "drain"
        /\ UNCHANGED <<holds, crashed>>
     \/ /\ tree = None
        /\ crashed' = "null tree"
        /\ UNCHANGED <<holds, lpc>>
  /\ UNCHANGED <<disk, commanded, wpc, object, apcs, read, files, trees, due, client, trouble, stray>>

(* ... and the reason, if the tree has files still. *)
Notify ==
  /\ lpc = "post"
  /\ \/ tree \in holds /\ ~due /\ due' = TRUE
     \/ tree \notin holds /\ UNCHANGED due
  /\ lpc' = "drain"
  /\ UNCHANGED <<disk, commanded, wpc, object, apcs, read, files, trees, holds, client,
                 crashed, trouble, stray>>

LoopReturn ==
  /\ lpc = "drain"
  /\ apcs = << >>
  /\ lpc' = "test"
  /\ UNCHANGED <<disk, commanded, wpc, object, apcs, read, files, trees, holds, due, client,
                 crashed, trouble, stray>>

(* The end of a thread cancels its read. *)
LoopTest ==
  /\ lpc = "test"
  /\ \/ running /\ lpc' = "sleep" /\ UNCHANGED <<apcs, read>>
     \/ ~running /\ lpc' = "ended" /\ apcs' = << >> /\ read' = None
  /\ UNCHANGED <<disk, commanded, wpc, object, files, trees, holds, due, client,
                 crashed, trouble, stray>>

Loop == \/ LoopBegin \/ RunWake \/ RunError \/ Parse \/ Notify \/ LoopReturn \/ LoopTest
        \/ \E ok \in BOOLEAN : RunWatch(ok) \/ RunDone(ok)

-----------------------------------------------------------------------------
(* The SleepThread: maybe_send_payload(nc, g_work_folder).                  *)
Dispatch ==
  /\ due
  /\ due' = FALSE
  /\ path' = work /\ pflag' = TRUE
  /\ UNCHANGED <<disk, commanded, wpc, object, loop, trees, holds, ppc, ptree, crashed, trouble, stray>>

(* The message thread answers which folder is watched. *)
AnswerFolder ==
  /\ path # work
  /\ path' = work
  /\ UNCHANGED <<disk, commanded, wpc, object, loop, trees, holds, due, pflag, ppc, ptree,
                 crashed, trouble, stray>>

(* send_payload: the global tree, whichever it is, ... *)
PayloadTree ==
  /\ ppc = "wait"
  /\ pflag
  /\ pflag' = FALSE
  /\ WatchTreeInstance(path, FALSE)
  /\ ptree' = instance'
  /\ ppc' = IF instance' = None THEN "wait" ELSE "collect"
  /\ trouble' = IF instance = None THEN trouble \cup {"early"} ELSE trouble
  /\ UNCHANGED <<disk, commanded, wpc, object, loop, tree, holds, due, path, crashed, stray>>

(* ... its files, ... *)
PayloadCollect ==
  /\ ppc = "collect"
  /\ ppc' = IF ptree \in holds \cap exists THEN "send" ELSE "drop"
  /\ holds' = holds \ {ptree}
  /\ UNCHANGED <<disk, commanded, wpc, object, loop, trees, due, path, pflag, ptree,
                 crashed, trouble, stray>>

(* ... published from under _watch_path; then the tree is let go.           *)
PayloadSend ==
  /\ ppc \in {"send", "drop"}
  /\ ppc' = "wait" /\ ptree' = None
  /\ holds' = holds \cap {tree, instance}
  /\ UNCHANGED <<disk, commanded, wpc, object, loop, trees, due, path, pflag,
                 crashed, trouble, stray>>

Payload == PayloadTree \/ PayloadCollect \/ PayloadSend

-----------------------------------------------------------------------------
Outside == \/ \E f \in Folders : ResetWorkFolder(f) \/ \E deleted \in BOOLEAN : Remove(f, deleted)
           \/ CreateFile

Next == crashed = "no" /\ (Outside \/ Worker \/ Loop \/ Dispatch \/ AnswerFolder \/ Payload)

Spec == Init /\ [][Next]_vars

(* The threads run on until the process is terminated.                      *)
Going(A) == crashed = "no" /\ A
FairSpec == /\ Spec
            /\ WF_vars(Going(Worker)) /\ WF_vars(Going(Loop))
            /\ WF_vars(Going(Dispatch)) /\ WF_vars(Going(Payload))

-----------------------------------------------------------------------------
Places == Folders \cup {Empty}

TypeWorker ==
  /\ exists \subseteq Folders /\ faults \in 0..MaxFaults
  /\ work \in used /\ used \subseteq Folders /\ woken \in BOOLEAN /\ moves \in 0..MaxMoves
  /\ wpc \in {"idle", "stop", "lower", "rouse", "join", "set", "open", "reset", "keep", "spawn",
              "await", "queue"}

TypeWatcher ==
  /\ folder \in Places /\ handle \in {None, folder}
  /\ handle # Empty
  /\ wpc \in {"open", "reset", "keep", "spawn", "await", "queue"} => folder \in Folders
  /\ running \in BOOLEAN /\ signal \in BOOLEAN

TypeLoop ==
  /\ lpc \in {"none", "new", "sleep", "drain", "parse", "post", "test", "ended"}
  /\ apcs \in Seq(Apcs) /\ files \in 0..MaxFiles
  /\ read \in Folders \cup {None}
  /\ lpc \in {"none", "new", "ended"} => read = None

TypeTrees ==
  /\ {tree, instance, ptree} \subseteq Places \cup {None} /\ path \in Places /\ cached \subseteq Places
  /\ holds \subseteq {tree, instance, ptree} \ {None} /\ (ppc = "wait" <=> ptree = None)
  /\ due \in BOOLEAN /\ pflag \in BOOLEAN
  /\ ppc \in {"wait", "collect", "send", "drop"}
  /\ crashed \in {"no", "assigned", "self join", "null tree"}
  /\ trouble \subseteq {"returned", "removed", "unjoined", "deaf", "early"} /\ stray \in BOOLEAN

(* The types; a read belongs to a loop thread that is alive, and files to a *)
(* tree that something refers to.                                           *)
TypeOK == TypeWorker /\ TypeWatcher /\ TypeLoop /\ TypeTrees

(* The process is terminated for no other reasons than these: a thread is   *)
(* started over one that was not joined, after its folder has disappeared   *)
(* or when QueueUserAPC came too late; the loop thread joins itself, after  *)
(* its folder has disappeared or under a thread not joined; and a folder    *)
(* has had a tree before, because it is watched for the second time or      *)
(* because the payload thread asked for a tree before the worker did.       *)
CrashesAreNamed ==
  /\ crashed \in {"assigned", "self join"} => trouble \cap {"removed", "unjoined"} # {}
  /\ crashed = "null tree" => trouble \cap {"returned", "early"} # {}

(* When the worker sleeps, a running watcher has the handle and the tree of *)
(* its folder, and the tree is the one that the payload thread will take.   *)
TreeOfFolder ==
  wpc = "idle" /\ running /\ trouble \cap {"returned", "early"} = {} =>
    handle = folder /\ tree = folder /\ instance = folder

(* A watcher that sleeps has a read pending on its folder, and no change of *)
(* it goes by unnoticed.                                                    *)
NoDeafWatcher ==
  wpc = "idle" /\ running /\ lpc = "sleep" /\ apcs = << >> /\ trouble = {} => read = folder

(* The files of a tree are looked for in the folder they appeared in, if    *)
(* g_work_folder is changed only when nothing of the old folder is left on  *)
(* its way, and the wake flag was not left up before the first of them.     *)
FilesAreWhereSought == ppc = "send" /\ ~stray /\ path # Empty => path = ptree

(* A restart of the watcher, its join and its wait for the new thread come  *)
(* to an end.                                                               *)
RestartReturns == wpc # "idle" ~> (wpc = "idle" \/ crashed # "no")
==============================================================================
