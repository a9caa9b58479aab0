-------------------------- MODULE FolderWatchProofs --------------------------
(***************************************************************************)
(* For any folders and any bounds: why the watcher crashes, that it has    *)
(* the tree of its folder, that it hears of every file, and that a file is *)
(* looked for where it appeared.  Switched is the discipline of running;   *)
(* Joined, Fresh and Heard are what holds while nothing, or nothing of a   *)
(* kind, has gone wrong; OneRead says that a watcher has one read at a     *)
(* time, and Sought that what is on its way belongs to one folder.  Each   *)
(* is inductive on top of the types and of the ones before it.  At the     *)
(* end, that a restart of the watcher has finitely many steps to take, and *)
(* never waits for a thread that will not come.                            *)
(***************************************************************************)
EXTENDS FolderWatch, TLAPS

(* The queues of APCs. *)
LEMMA QueueGrows == \A s \in Seq(Apcs), a \in {"watch", "wake", "done", "error"} : Append(s, a) \in Seq(Apcs)
  BY DEF Apcs

LEMMA QueueShrinks == \A s \in Seq(Apcs) : s # << >> => Tail(s) \in Seq(Apcs)
  OBVIOUS

LEMMA QueueEmpty == << >> \in Seq(Apcs)
  OBVIOUS

(* Every step keeps the types. *)
LEMMA TypeStep == TypeOK /\ [Next]_vars => TypeOK'
<1> SUFFICES ASSUME TypeOK, [Next]_vars PROVE TypeOK'
  OBVIOUS
<1> USE BoundsAssumption, FoldersAssumption
    DEF TypeOK, disk, commanded, object, loop, trees, client
<1>1. ASSUME NEW f \in Folders, ResetWorkFolder(f) PROVE TypeOK'
  <2>1. TypeWorker'
    BY <1>1 DEF ResetWorkFolder, TypeWorker
  <2>2. TypeTrees'
    BY <1>1 DEF ResetWorkFolder, TypeTrees
  <2>3. TypeWatcher' /\ TypeLoop'
    BY <1>1 DEF ResetWorkFolder, TypeWatcher, TypeLoop
  <2> QED
    BY <2>1, <2>2, <2>3
<1>2. ASSUME NEW f \in Folders, NEW deleted \in BOOLEAN, Remove(f, deleted) PROVE TypeOK'
  <2>1. TypeWorker'
    BY <1>2 DEF Remove, Fault, TypeWorker
  <2>2. TypeLoop'
    BY <1>2, QueueGrows DEF Remove, TypeLoop
  <2>3. TypeTrees'
    BY <1>2 DEF Remove, TypeTrees
  <2>4. TypeWatcher'
    BY <1>2 DEF Remove, TypeWatcher
  <2> QED
    BY <2>1, <2>2, <2>3, <2>4
<1>3. CASE CreateFile
  <2>1. TypeLoop'
    BY <1>3, QueueGrows DEF CreateFile, TypeLoop
  <2>2. TypeTrees'
    BY <1>3 DEF CreateFile, TypeTrees
  <2>3. TypeWorker' /\ TypeWatcher'
    BY <1>3 DEF CreateFile, TypeWorker, TypeWatcher
  <2> QED
    BY <2>1, <2>2, <2>3
<1>4. CASE WorkerWake
  <2>1. TypeWorker'
    BY <1>4 DEF WorkerWake, TypeWorker
  <2>2. TypeWatcher'
    BY <1>4 DEF WorkerWake, TypeWatcher
  <2>3. TypeLoop' /\ TypeTrees'
    BY <1>4 DEF WorkerWake, TypeLoop, TypeTrees
  <2> QED
    BY <2>1, <2>2, <2>3
<1>5. CASE StopTest
  <2>1. TypeWorker'
    BY <1>5 DEF StopTest, TypeWorker
  <2>2. TypeWatcher'
    BY <1>5 DEF StopTest, TypeWatcher
  <2>3. TypeLoop' /\ TypeTrees'
    BY <1>5 DEF StopTest, TypeLoop, TypeTrees
  <2> QED
    BY <2>1, <2>2, <2>3
<1>6. CASE StopLower
  <2>1. TypeWorker'
    BY <1>6 DEF StopLower, TypeWorker
  <2>2. TypeWatcher'
    BY <1>6 DEF StopLower, TypeWatcher
  <2>3. TypeLoop' /\ TypeTrees'
    BY <1>6 DEF StopLower, TypeLoop, TypeTrees
  <2> QED
    BY <2>1, <2>2, <2>3
<1>7. CASE StopRouse
  <2>1. TypeWorker'
    BY <1>7 DEF StopRouse, TypeWorker
  <2>2. TypeWatcher'
    BY <1>7 DEF StopRouse, TypeWatcher
  <2>3. TypeLoop'
    BY <1>7, QueueGrows DEF StopRouse, TypeLoop
  <2>4. TypeTrees'
    BY <1>7 DEF StopRouse, TypeTrees
  <2> QED
    BY <2>1, <2>2, <2>3, <2>4
<1>8. CASE StopJoin
  <2>1. TypeWorker'
    BY <1>8 DEF StopJoin, TypeWorker
  <2>2. TypeWatcher'
    BY <1>8 DEF StopJoin, TypeWatcher
  <2>3. TypeLoop'
    BY <1>8, QueueEmpty DEF StopJoin, TypeLoop
  <2>4. TypeTrees'
    BY <1>8 DEF StopJoin, TypeTrees
  <2> QED
    BY <2>1, <2>2, <2>3, <2>4
<1>9. CASE SetFolder
  <2>1. TypeWorker'
    BY <1>9 DEF SetFolder, TypeWorker
  <2>2. TypeWatcher'
    BY <1>9 DEF SetFolder, Places, TypeWatcher, TypeWorker
  <2>3. TypeLoop' /\ TypeTrees'
    BY <1>9 DEF SetFolder, TypeLoop, TypeTrees
  <2> QED
    BY <2>1, <2>2, <2>3
<1>10. ASSUME NEW ok \in BOOLEAN, OpenHandle(ok) PROVE TypeOK'
  <2>1. TypeWorker'
    BY <1>10 DEF OpenHandle, Fault, TypeWorker
  <2>2. TypeWatcher'
    BY <1>10 DEF OpenHandle, Places, TypeWatcher
  <2>3. TypeLoop' /\ TypeTrees'
    BY <1>10 DEF OpenHandle, TypeLoop, TypeTrees
  <2> QED
    BY <2>1, <2>2, <2>3
<1>11. CASE TakeTree
  <2>1. TypeWorker'
    BY <1>11 DEF TakeTree, TypeWorker
  <2>2. TypeWatcher'
    BY <1>11 DEF TakeTree, TypeWatcher
  <2>3. TypeTrees'
    BY <1>11 DEF TakeTree, WatchTreeInstance, Instance, Places, TypeTrees, TypeWatcher
  <2>4. TypeLoop'
    BY <1>11 DEF TakeTree, TypeLoop
  <2> QED
    BY <2>1, <2>2, <2>3, <2>4
<1>12. CASE StartThread
  <2>1. TypeWorker'
    BY <1>12 DEF StartThread, TypeWorker
  <2>2. TypeWatcher'
    BY <1>12 DEF StartThread, TypeWatcher
  <2>3. TypeLoop'
    BY <1>12 DEF StartThread, TypeLoop
  <2>4. TypeTrees'
    BY <1>12 DEF StartThread, TypeTrees
  <2> QED
    BY <2>1, <2>2, <2>3, <2>4
<1>13. CASE StartAwait
  <2>1. TypeWorker'
    BY <1>13 DEF StartAwait, TypeWorker
  <2>2. TypeWatcher'
    BY <1>13 DEF StartAwait, TypeWatcher
  <2>3. TypeLoop' /\ TypeTrees'
    BY <1>13 DEF StartAwait, TypeLoop, TypeTrees
  <2> QED
    BY <2>1, <2>2, <2>3
<1>14. CASE StartQueue
  <2>1. TypeWorker'
    BY <1>14 DEF StartQueue, TypeWorker
  <2>2. TypeWatcher'
    BY <1>14 DEF StartQueue, TypeWatcher
  <2>3. TypeLoop'
    BY <1>14, QueueGrows DEF StartQueue, TypeLoop
  <2>4. TypeTrees'
    BY <1>14 DEF StartQueue, TypeTrees
  <2> QED
    BY <2>1, <2>2, <2>3, <2>4
<1>15. CASE LoopBegin
  <2>1. TypeWatcher'
    BY <1>15 DEF LoopBegin, TypeWatcher
  <2>2. TypeLoop'
    BY <1>15 DEF LoopBegin, TypeLoop
  <2>3. TypeWorker' /\ TypeTrees'
    BY <1>15 DEF LoopBegin, TypeWorker, TypeTrees
  <2> QED
    BY <2>1, <2>2, <2>3
<1>16. ASSUME NEW ok \in BOOLEAN, RunWatch(ok) PROVE TypeOK'
  <2>1. TypeWorker'
    BY <1>16 DEF RunWatch, Runs, Watch, Fault, TypeWorker
  <2>2. TypeWatcher'
    BY <1>16 DEF RunWatch, Runs, Watch, TypeWatcher
  <2>3. TypeLoop'
    BY <1>16, QueueShrinks DEF RunWatch, Runs, Watch, Places, TypeLoop, TypeWatcher
  <2>4. TypeTrees'
    BY <1>16 DEF RunWatch, Runs, Watch, TypeTrees
  <2> QED
    BY <2>1, <2>2, <2>3, <2>4
<1>17. CASE RunWake
  <2>1. TypeLoop'
    BY <1>17, QueueShrinks DEF RunWake, Runs, TypeLoop
  <2>2. TypeWorker'
    BY <1>17 DEF RunWake, Runs, TypeWorker
  <2>3. TypeWatcher'
    BY <1>17 DEF RunWake, Runs, TypeWatcher
  <2>4. TypeTrees'
    BY <1>17 DEF RunWake, Runs, TypeTrees
  <2> QED
    BY <2>1, <2>2, <2>3, <2>4
<1>18. CASE RunError
  <2>1. TypeWatcher'
    BY <1>18 DEF RunError, Runs, TypeWatcher
  <2>2. TypeLoop'
    BY <1>18, QueueShrinks DEF RunError, Runs, TypeLoop
  <2>3. TypeTrees'
    BY <1>18 DEF RunError, Runs, TypeTrees
  <2>4. TypeWorker'
    BY <1>18 DEF RunError, Runs, TypeWorker
  <2> QED
    BY <2>1, <2>2, <2>3, <2>4
<1>19. ASSUME NEW ok \in BOOLEAN, RunDone(ok) PROVE TypeOK'
  <2>1. TypeWorker'
    BY <1>19 DEF RunDone, Runs, Watch, Fault, TypeWorker
  <2>2. TypeWatcher'
    BY <1>19 DEF RunDone, Runs, Watch, TypeWatcher
  <2>3. TypeLoop'
    BY <1>19, QueueShrinks DEF RunDone, Runs, Watch, Places, TypeLoop, TypeWatcher
  <2>4. TypeTrees'
    BY <1>19 DEF RunDone, Runs, Watch, TypeTrees
  <2> QED
    BY <2>1, <2>2, <2>3, <2>4
<1>20. CASE Parse
  <2>1. TypeLoop'
    BY <1>20 DEF Parse, TypeLoop
  <2>2. TypeTrees'
    BY <1>20 DEF Parse, TypeTrees
  <2>3. TypeWorker' /\ TypeWatcher'
    BY <1>20 DEF Parse, TypeWorker, TypeWatcher
  <2> QED
    BY <2>1, <2>2, <2>3
<1>21. CASE Notify
  <2>1. TypeLoop'
    BY <1>21 DEF Notify, TypeLoop
  <2>2. TypeTrees'
    BY <1>21 DEF Notify, TypeTrees
  <2>3. TypeWorker' /\ TypeWatcher'
    BY <1>21 DEF Notify, TypeWorker, TypeWatcher
  <2> QED
    BY <2>1, <2>2, <2>3
<1>22. CASE LoopReturn
  <2>1. TypeLoop'
    BY <1>22 DEF LoopReturn, TypeLoop
  <2>2. TypeWorker'
    BY <1>22 DEF LoopReturn, TypeWorker
  <2>3. TypeWatcher'
    BY <1>22 DEF LoopReturn, TypeWatcher
  <2>4. TypeTrees'
    BY <1>22 DEF LoopReturn, TypeTrees
  <2> QED
    BY <2>1, <2>2, <2>3, <2>4
<1>23. CASE LoopTest
  <2>1. TypeLoop'
    BY <1>23, QueueEmpty DEF LoopTest, TypeLoop
  <2>2. TypeWorker'
    BY <1>23 DEF LoopTest, TypeWorker
  <2>3. TypeWatcher'
    BY <1>23 DEF LoopTest, TypeWatcher
  <2>4. TypeTrees'
    BY <1>23 DEF LoopTest, TypeTrees
  <2> QED
    BY <2>1, <2>2, <2>3, <2>4
<1>24. CASE Dispatch
  <2>1. TypeTrees'
    BY <1>24 DEF Dispatch, Places, TypeTrees, TypeWorker
  <2>2. TypeWorker' /\ TypeWatcher' /\ TypeLoop'
    BY <1>24 DEF Dispatch, TypeWorker, TypeWatcher, TypeLoop
  <2> QED
    BY <2>1, <2>2
<1>25. CASE AnswerFolder
  <2>1. TypeTrees'
    BY <1>25 DEF AnswerFolder, Places, TypeTrees, TypeWorker
  <2>2. TypeWorker' /\ TypeWatcher' /\ TypeLoop'
    BY <1>25 DEF AnswerFolder, TypeWorker, TypeWatcher, TypeLoop
  <2> QED
    BY <2>1, <2>2
<1>26. CASE PayloadTree
  <2>1. TypeTrees'
    BY <1>26 DEF PayloadTree, WatchTreeInstance, Instance, Places, TypeTrees
  <2>2. TypeWorker' /\ TypeWatcher' /\ TypeLoop'
    BY <1>26 DEF PayloadTree, TypeWorker, TypeWatcher, TypeLoop
  <2> QED
    BY <2>1, <2>2
<1>27. CASE PayloadCollect
  <2>1. TypeTrees'
    BY <1>27 DEF PayloadCollect, TypeTrees
  <2>2. TypeWorker' /\ TypeWatcher' /\ TypeLoop'
    BY <1>27 DEF PayloadCollect, TypeWorker, TypeWatcher, TypeLoop
  <2> QED
    BY <2>1, <2>2
<1>28. CASE PayloadSend
  <2>1. TypeTrees'
    BY <1>28 DEF PayloadSend, TypeTrees
  <2>2. TypeWorker' /\ TypeWatcher' /\ TypeLoop'
    BY <1>28 DEF PayloadSend, TypeWorker, TypeWatcher, TypeLoop
  <2> QED
    BY <2>1, <2>2
<1>29. CASE UNCHANGED vars
  <2>1. TypeWorker' /\ TypeWatcher'
    BY <1>29 DEF vars, TypeWorker, TypeWatcher
  <2>2. TypeLoop' /\ TypeTrees'
    BY <1>29 DEF vars, TypeLoop, TypeTrees
  <2> QED
    BY <2>1, <2>2
<1> QED
  BY <1>1, <1>2, <1>3, <1>4, <1>5, <1>6, <1>7, <1>8, <1>9, <1>10, <1>11, <1>12, <1>13, <1>14, <1>15, <1>16, <1>17, <1>18, <1>19, <1>20, <1>21, <1>22, <1>23, <1>24, <1>25, <1>26, <1>27, <1>28, <1>29 DEF Next, Outside, Worker, Loop, Payload


(* A running watcher has the handle of its folder; it does not run while    *)
(* the worker replaces it.                                                  *)
Switched ==
  /\ running => handle = folder /\ folder \in Folders
  /\ wpc \in {"rouse", "join", "set", "open", "reset", "keep"} => ~running
  /\ wpc \in {"reset", "keep"} => handle = folder

(* While no folder disappears and every stop finds the thread alive, there  *)
(* is no loop thread where one is started, and none without running.        *)
Joined ==
  trouble \cap {"removed", "unjoined"} = {} =>
    /\ exists = Folders /\ apcs \in Seq({"watch", "wake", "done"})
    /\ wpc \in {"set", "open", "reset", "keep", "spawn"} => lpc = "none"
    /\ wpc \in {"idle", "stop"} /\ ~running => lpc = "none"
    /\ wpc \in {"spawn", "await", "queue"} => running
    /\ crashed \notin {"assigned", "self join"}

(* While no folder comes back and no tree is asked for too early, a cached  *)
(* tree is that of an earlier folder or the one in use.                     *)
Fresh ==
  trouble \cap {"returned", "early"} = {} =>
    /\ cached \cup {folder} \subseteq used \cup {Empty}
    /\ work \in cached => folder = work
    /\ folder \in cached => tree = folder /\ instance = folder
    /\ handle # None /\ wpc # "reset" => tree = folder /\ instance = folder
    /\ lpc # "none" \/ wpc \in {"spawn", "await", "queue"} => tree # None
    /\ crashed # "null tree"

(* While nothing at all went wrong, the loop thread of a running watcher    *)
(* has a read pending or will issue one.                                    *)
Expected == \E i \in 1..Len(apcs) : apcs[i] \in {"watch", "done"}
Heard ==
  trouble = {} /\ running /\ wpc \in {"idle", "stop", "lower"} => read = folder \/ Expected

(* Every read that is pending or has completed is one and the same, and it  *)
(* is of the watcher's folder: the worker does not touch the watcher while  *)
(* the loop thread has one to see to.                                       *)
Tokens == {"watch", "done", "error"}
Pending == \E i \in 1..Len(apcs) : apcs[i] \in Tokens
Done == \E i \in 1..Len(apcs) : apcs[i] = "done"

OneRead ==
  /\ read # None => ~Pending
  /\ \A i, j \in 1..Len(apcs) : apcs[i] \in Tokens /\ apcs[j] \in Tokens => i = j
  /\ lpc = "ended" => ~Pending
  /\ read # None \/ Pending =>
       /\ wpc \in {"idle", "stop", "lower", "rouse", "join"}
       /\ running \/ wpc \notin {"idle", "stop"}
  /\ read # None => read = folder
  /\ wpc \in {"spawn", "await", "queue"} => running
  /\ wpc \in {"await", "queue"} => lpc \notin {"none", "ended"}

(* While g_work_folder is changed only when nothing is on its way, what is  *)
(* on its way is of g_work_folder: the folder a read completed in, the tree *)
(* that takes the file, the trees with files, and the path they are looked  *)
(* for under.  A tree of the empty path holds files that do not exist.      *)
Filled == Done \/ lpc = "parse"
OnItsWay == Filled \/ lpc = "post" \/ holds # {} \/ due \/ pflag \/ ppc # "wait"

Sought ==
  ~stray =>
    /\ wpc \in {"open", "reset", "keep", "spawn", "await", "queue"} => folder = work
    /\ Filled \/ (OnItsWay /\ handle # None) => folder = work
    /\ lpc = "parse" =>
         /\ wpc \in {"idle", "stop", "lower", "rouse", "join", "set"}
         /\ wpc = "set" \/ (wpc \in {"idle", "stop"} /\ ~running) => folder \notin exists
    /\ handle # None /\ wpc # "reset" => instance \in {None, Empty, folder}
    /\ read # None \/ Pending \/ lpc = "parse" \/ wpc \in {"spawn", "await", "queue"} =>
         tree \in {None, Empty, folder}
    /\ holds \subseteq {Empty, work}
    /\ pflag \/ ppc # "wait" => path \in {Empty, work}
    /\ ppc = "send" => ptree = work

(* The queues without an error. *)
LEMMA QuietQueueGrows ==
  \A s \in Seq({"watch", "wake", "done"}), a \in {"watch", "wake", "done"} :
    Append(s, a) \in Seq({"watch", "wake", "done"})
  OBVIOUS

LEMMA QuietQueueShrinks ==
  \A s \in Seq({"watch", "wake", "done"}) :
    s # << >> => Tail(s) \in Seq({"watch", "wake", "done"}) /\ Head(s) # "error"
  OBVIOUS

LEMMA QuietQueueEmpty == << >> \in Seq({"watch", "wake", "done"})
  OBVIOUS

(* Only the worker raises running, and with the handle of its folder open. *)
LEMMA SwitchedStep == TypeOK /\ Switched /\ [Next]_vars => Switched'
<1> SUFFICES ASSUME TypeOK /\ Switched, [Next]_vars PROVE Switched'
  OBVIOUS
<1> USE FoldersAssumption DEF TypeOK, disk, commanded, object, loop, trees, client
<1>1. ASSUME NEW f \in Folders, ResetWorkFolder(f) PROVE Switched'
  BY <1>1 DEF ResetWorkFolder, Switched
<1>2. ASSUME NEW f \in Folders, NEW deleted \in BOOLEAN, Remove(f, deleted) PROVE Switched'
  BY <1>2 DEF Remove, Fault, Switched
<1>3. CASE CreateFile
  BY <1>3 DEF CreateFile, Switched
<1>4. CASE WorkerWake
  BY <1>4 DEF WorkerWake, Switched
<1>5. CASE StopTest
  BY <1>5 DEF StopTest, Switched
<1>6. CASE StopLower
  BY <1>6 DEF StopLower, Switched
<1>7. CASE StopRouse
  BY <1>7 DEF StopRouse, Switched
<1>8. CASE StopJoin
  BY <1>8 DEF StopJoin, Switched
<1>9. CASE SetFolder
  BY <1>9 DEF SetFolder, Switched, TypeWatcher
<1>10. ASSUME NEW ok \in BOOLEAN, OpenHandle(ok) PROVE Switched'
  BY <1>10 DEF OpenHandle, Fault, Switched, TypeWatcher
<1>11. CASE TakeTree
  BY <1>11 DEF TakeTree, WatchTreeInstance, Instance, Alive, Switched, TypeWatcher
<1>12. CASE StartThread
  BY <1>12 DEF StartThread, Switched
<1>13. CASE StartAwait
  BY <1>13 DEF StartAwait, Switched
<1>14. CASE StartQueue
  BY <1>14 DEF StartQueue, Switched
<1>15. CASE LoopBegin
  BY <1>15 DEF LoopBegin, Switched
<1>16. ASSUME NEW ok \in BOOLEAN, RunWatch(ok) PROVE Switched'
  BY <1>16 DEF RunWatch, Runs, Watch, Fault, Switched, TypeWatcher
<1>17. CASE RunWake
  BY <1>17 DEF RunWake, Runs, Switched
<1>18. CASE RunError
  <2>1. ~running'
    BY <1>18, Zenon DEF RunError
  <2>2. UNCHANGED <<wpc, folder, handle>>
    BY <1>18 DEF RunError
  <2> QED
    BY <2>1, <2>2 DEF Switched
<1>19. ASSUME NEW ok \in BOOLEAN, RunDone(ok) PROVE Switched'
  BY <1>19 DEF RunDone, Runs, Watch, Fault, Switched, TypeWatcher
<1>20. CASE Parse
  BY <1>20 DEF Parse, Switched
<1>21. CASE Notify
  BY <1>21 DEF Notify, Switched
<1>22. CASE LoopReturn
  BY <1>22 DEF LoopReturn, Switched
<1>23. CASE LoopTest
  BY <1>23 DEF LoopTest, Switched
<1>24. CASE Dispatch
  BY <1>24 DEF Dispatch, Switched
<1>25. CASE AnswerFolder
  BY <1>25 DEF AnswerFolder, Switched
<1>26. CASE PayloadTree
  BY <1>26 DEF PayloadTree, WatchTreeInstance, Instance, Alive, Switched
<1>27. CASE PayloadCollect
  BY <1>27 DEF PayloadCollect, Switched
<1>28. CASE PayloadSend
  BY <1>28 DEF PayloadSend, Switched
<1>29. CASE UNCHANGED vars
  BY <1>29 DEF vars, Switched
<1> QED
  BY <1>1, <1>2, <1>3, <1>4, <1>5, <1>6, <1>7, <1>8, <1>9, <1>10, <1>11, <1>12, <1>13, <1>14, <1>15, <1>16, <1>17, <1>18, <1>19, <1>20, <1>21, <1>22, <1>23, <1>24, <1>25, <1>26, <1>27, <1>28, <1>29 DEF Next, Outside, Worker, Loop, Payload

(* The worker starts no thread before the last one is joined. *)
LEMMA JoinedStep == TypeOK /\ Switched /\ Joined /\ [Next]_vars => Joined'
<1> SUFFICES ASSUME TypeOK /\ Switched /\ Joined, [Next]_vars PROVE Joined'
  OBVIOUS
<1> USE FoldersAssumption DEF TypeOK, disk, commanded, object, loop, trees, client
<1>1. ASSUME NEW f \in Folders, ResetWorkFolder(f) PROVE Joined'
  BY <1>1 DEF ResetWorkFolder, Joined, TypeWorker
<1>2. ASSUME NEW f \in Folders, NEW deleted \in BOOLEAN, Remove(f, deleted) PROVE Joined'
  BY <1>2 DEF Remove, Fault, Joined
<1>3. CASE CreateFile
  BY <1>3, QuietQueueGrows DEF CreateFile, Joined
<1>4. CASE WorkerWake
  BY <1>4 DEF WorkerWake, Joined
<1>5. CASE StopTest
  BY <1>5 DEF StopTest, Joined, Switched
<1>6. CASE StopLower
  BY <1>6 DEF StopLower, Joined
<1>7. CASE StopRouse
  BY <1>7, QuietQueueGrows DEF StopRouse, Joined
<1>8. CASE StopJoin
  BY <1>8, QuietQueueEmpty DEF StopJoin, Joined
<1>9. CASE SetFolder
  BY <1>9 DEF SetFolder, Joined, TypeWorker, Switched
<1>10. ASSUME NEW ok \in BOOLEAN, OpenHandle(ok) PROVE Joined'
  BY <1>10 DEF OpenHandle, Fault, Joined
<1>11. CASE TakeTree
  BY <1>11 DEF TakeTree, WatchTreeInstance, Instance, Alive, Joined, Switched
<1>12. CASE StartThread
  BY <1>12 DEF StartThread, Joined
<1>13. CASE StartAwait
  BY <1>13 DEF StartAwait, Joined
<1>14. CASE StartQueue
  BY <1>14, QuietQueueGrows DEF StartQueue, Joined
<1>15. CASE LoopBegin
  BY <1>15 DEF LoopBegin, Joined
<1>16. ASSUME NEW ok \in BOOLEAN, RunWatch(ok) PROVE Joined'
  <2> SUFFICES ASSUME trouble' \cap {"removed", "unjoined"} = {} PROVE Joined'
    BY DEF Joined
  <2>1. trouble \cap {"removed", "unjoined"} = {}
    BY <1>16 DEF RunWatch, Watch
  <2>2. lpc # "none" /\ lpc' # "none" /\ apcs # << >> /\ apcs' = Tail(apcs)
    BY <1>16 DEF RunWatch, Runs
  <2>3. running' = running
    BY <1>16, <2>1 DEF RunWatch, Watch, Joined, Switched
  <2>4. UNCHANGED <<exists, wpc, crashed>>
    BY <1>16 DEF RunWatch
  <2> QED
    BY <2>1, <2>2, <2>3, <2>4, QuietQueueShrinks DEF Joined
<1>17. CASE RunWake
  BY <1>17, QuietQueueShrinks DEF RunWake, Runs, Joined
<1>18. CASE RunError
  BY <1>18, QuietQueueShrinks DEF RunError, Runs, Joined
<1>19. ASSUME NEW ok \in BOOLEAN, RunDone(ok) PROVE Joined'
  <2> SUFFICES ASSUME trouble' \cap {"removed", "unjoined"} = {} PROVE Joined'
    BY DEF Joined
  <2>1. trouble \cap {"removed", "unjoined"} = {}
    BY <1>19 DEF RunDone, Watch
  <2>2. lpc # "none" /\ lpc' # "none" /\ apcs # << >> /\ apcs' = Tail(apcs)
    BY <1>19 DEF RunDone, Runs
  <2>3. running' = running
    BY <1>19, <2>1 DEF RunDone, Watch, Joined, Switched
  <2>4. UNCHANGED <<exists, wpc, crashed>>
    BY <1>19 DEF RunDone
  <2> QED
    BY <2>1, <2>2, <2>3, <2>4, QuietQueueShrinks DEF Joined
<1>20. CASE Parse
  BY <1>20 DEF Parse, Joined
<1>21. CASE Notify
  BY <1>21 DEF Notify, Joined
<1>22. CASE LoopReturn
  BY <1>22 DEF LoopReturn, Joined
<1>23. CASE LoopTest
  BY <1>23, QuietQueueEmpty DEF LoopTest, Joined
<1>24. CASE Dispatch
  BY <1>24 DEF Dispatch, Joined
<1>25. CASE AnswerFolder
  BY <1>25 DEF AnswerFolder, Joined
<1>26. CASE PayloadTree
  BY <1>26 DEF PayloadTree, WatchTreeInstance, Instance, Alive, Joined
<1>27. CASE PayloadCollect
  BY <1>27 DEF PayloadCollect, Joined
<1>28. CASE PayloadSend
  BY <1>28 DEF PayloadSend, Joined
<1>29. CASE UNCHANGED vars
  BY <1>29 DEF vars, Joined
<1> QED
  BY <1>1, <1>2, <1>3, <1>4, <1>5, <1>6, <1>7, <1>8, <1>9, <1>10, <1>11, <1>12, <1>13, <1>14, <1>15, <1>16, <1>17, <1>18, <1>19, <1>20, <1>21, <1>22, <1>23, <1>24, <1>25, <1>26, <1>27, <1>28, <1>29 DEF Next, Outside, Worker, Loop, Payload

(* A folder that was never watched has no cached tree, so that it gets one. *)
LEMMA FreshStep == TypeOK /\ Switched /\ Fresh /\ [Next]_vars => Fresh'
<1> SUFFICES ASSUME TypeOK /\ Switched /\ Fresh, [Next]_vars PROVE Fresh'
  OBVIOUS
<1> USE FoldersAssumption DEF TypeOK, disk, commanded, object, loop, trees, client
<1>1. ASSUME NEW f \in Folders, ResetWorkFolder(f) PROVE Fresh'
  BY <1>1 DEF ResetWorkFolder, Fresh, TypeWorker
<1>2. ASSUME NEW f \in Folders, NEW deleted \in BOOLEAN, Remove(f, deleted) PROVE Fresh'
  BY <1>2 DEF Remove, Fault, Fresh
<1>3. CASE CreateFile
  BY <1>3 DEF CreateFile, Fresh
<1>4. CASE WorkerWake
  BY <1>4 DEF WorkerWake, Fresh
<1>5. CASE StopTest
  BY <1>5 DEF StopTest, Fresh
<1>6. CASE StopLower
  BY <1>6 DEF StopLower, Fresh
<1>7. CASE StopRouse
  BY <1>7 DEF StopRouse, Fresh
<1>8. CASE StopJoin
  BY <1>8 DEF StopJoin, Fresh
<1>9. CASE SetFolder
  BY <1>9 DEF SetFolder, Fresh, TypeWorker, TypeWatcher
<1>10. ASSUME NEW ok \in BOOLEAN, OpenHandle(ok) PROVE Fresh'
  BY <1>10 DEF OpenHandle, Fault, Fresh, TypeWatcher
<1>11. CASE TakeTree
  BY <1>11 DEF TakeTree, WatchTreeInstance, Instance, Alive, Fresh, TypeWatcher, Switched
<1>12. CASE StartThread
  BY <1>12 DEF StartThread, Fresh
<1>13. CASE StartAwait
  BY <1>13 DEF StartAwait, Fresh
<1>14. CASE StartQueue
  BY <1>14 DEF StartQueue, Fresh
<1>15. CASE LoopBegin
  BY <1>15 DEF LoopBegin, Fresh
<1>16. ASSUME NEW ok \in BOOLEAN, RunWatch(ok) PROVE Fresh'
  BY <1>16 DEF RunWatch, Runs, Watch, Fault, Fresh
<1>17. CASE RunWake
  BY <1>17 DEF RunWake, Runs, Fresh
<1>18. CASE RunError
  BY <1>18 DEF RunError, Runs, Fresh
<1>19. ASSUME NEW ok \in BOOLEAN, RunDone(ok) PROVE Fresh'
  BY <1>19 DEF RunDone, Runs, Watch, Fault, Fresh
<1>20. CASE Parse
  BY <1>20 DEF Parse, Fresh
<1>21. CASE Notify
  BY <1>21 DEF Notify, Fresh
<1>22. CASE LoopReturn
  BY <1>22 DEF LoopReturn, Fresh
<1>23. CASE LoopTest
  BY <1>23 DEF LoopTest, Fresh
<1>24. CASE Dispatch
  BY <1>24 DEF Dispatch, Fresh
<1>25. CASE AnswerFolder
  BY <1>25 DEF AnswerFolder, Fresh
<1>26. CASE PayloadTree
  BY <1>26 DEF PayloadTree, WatchTreeInstance, Instance, Alive, Fresh
<1>27. CASE PayloadCollect
  BY <1>27 DEF PayloadCollect, Fresh
<1>28. CASE PayloadSend
  BY <1>28 DEF PayloadSend, Fresh
<1>29. CASE UNCHANGED vars
  BY <1>29 DEF vars, Fresh
<1> QED
  BY <1>1, <1>2, <1>3, <1>4, <1>5, <1>6, <1>7, <1>8, <1>9, <1>10, <1>11, <1>12, <1>13, <1>14, <1>15, <1>16, <1>17, <1>18, <1>19, <1>20, <1>21, <1>22, <1>23, <1>24, <1>25, <1>26, <1>27, <1>28, <1>29 DEF Next, Outside, Worker, Loop, Payload

(* A read that completes is followed by another, for the same handle. *)
LEMMA HeardStep == TypeOK /\ Switched /\ Joined /\ Heard /\ [Next]_vars => Heard'
<1> SUFFICES ASSUME TypeOK /\ Switched /\ Joined /\ Heard, [Next]_vars PROVE Heard'
  OBVIOUS
<1> USE FoldersAssumption DEF TypeOK, disk, commanded, object, loop, trees, client
<1>1. ASSUME NEW f \in Folders, ResetWorkFolder(f) PROVE Heard'
  BY <1>1 DEF ResetWorkFolder, Heard, Expected
<1>2. ASSUME NEW f \in Folders, NEW deleted \in BOOLEAN, Remove(f, deleted) PROVE Heard'
  BY <1>2 DEF Remove, Fault, Heard, TypeLoop, Expected
<1>3. CASE CreateFile
  BY <1>3 DEF CreateFile, Heard, TypeLoop, Expected
<1>4. CASE WorkerWake
  BY <1>4 DEF WorkerWake, Heard, Expected
<1>5. CASE StopTest
  BY <1>5 DEF StopTest, Heard, Expected
<1>6. CASE StopLower
  BY <1>6 DEF StopLower, Heard, Expected
<1>7. CASE StopRouse
  BY <1>7 DEF StopRouse, Heard, TypeLoop, Expected
<1>8. CASE StopJoin
  BY <1>8 DEF StopJoin, Heard, TypeLoop, Expected
<1>9. CASE SetFolder
  BY <1>9 DEF SetFolder, Heard, Switched, Expected
<1>10. ASSUME NEW ok \in BOOLEAN, OpenHandle(ok) PROVE Heard'
  BY <1>10 DEF OpenHandle, Fault, Heard, Switched, Expected
<1>11. CASE TakeTree
  BY <1>11 DEF TakeTree, WatchTreeInstance, Instance, Alive, Heard, Switched, Expected
<1>12. CASE StartThread
  BY <1>12 DEF StartThread, Heard, Expected
<1>13. CASE StartAwait
  BY <1>13 DEF StartAwait, Heard, Expected
<1>14. CASE StartQueue
  BY <1>14 DEF StartQueue, Heard, TypeLoop, Expected
<1>15. CASE LoopBegin
  BY <1>15 DEF LoopBegin, Heard, Expected
<1>16. ASSUME NEW ok \in BOOLEAN, RunWatch(ok) PROVE Heard'
  BY <1>16 DEF RunWatch, Runs, Watch, Fault, Heard, TypeLoop, Switched, Joined, Expected
<1>17. CASE RunWake
  BY <1>17 DEF RunWake, Runs, Heard, TypeLoop, Expected
<1>18. CASE RunError
  BY <1>18 DEF RunError, Runs, Heard, TypeLoop, Expected
<1>19. ASSUME NEW ok \in BOOLEAN, RunDone(ok) PROVE Heard'
  BY <1>19 DEF RunDone, Runs, Watch, Fault, Heard, TypeLoop, Switched, Joined, Expected
<1>20. CASE Parse
  BY <1>20 DEF Parse, Heard, Expected
<1>21. CASE Notify
  BY <1>21 DEF Notify, Heard, Expected
<1>22. CASE LoopReturn
  BY <1>22 DEF LoopReturn, Heard, Expected
<1>23. CASE LoopTest
  BY <1>23 DEF LoopTest, Heard, TypeLoop, Expected
<1>24. CASE Dispatch
  BY <1>24 DEF Dispatch, Heard, Expected
<1>25. CASE AnswerFolder
  BY <1>25 DEF AnswerFolder, Heard, Expected
<1>26. CASE PayloadTree
  BY <1>26 DEF PayloadTree, WatchTreeInstance, Instance, Alive, Heard, Expected
<1>27. CASE PayloadCollect
  BY <1>27 DEF PayloadCollect, Heard, Expected
<1>28. CASE PayloadSend
  BY <1>28 DEF PayloadSend, Heard, Expected
<1>29. CASE UNCHANGED vars
  BY <1>29 DEF vars, Heard, Expected
<1> QED
  BY <1>1, <1>2, <1>3, <1>4, <1>5, <1>6, <1>7, <1>8, <1>9, <1>10, <1>11, <1>12, <1>13, <1>14, <1>15, <1>16, <1>17, <1>18, <1>19, <1>20, <1>21, <1>22, <1>23, <1>24, <1>25, <1>26, <1>27, <1>28, <1>29 DEF Next, Outside, Worker, Loop, Payload

(* What becomes of the queue, with one token in it. *)
LEMMA TokenQueued ==
  ASSUME apcs \in Seq(Apcs), NEW a \in Apcs, apcs' = Append(apcs, a)
  PROVE  /\ Pending' <=> Pending \/ a \in Tokens
         /\ Done' <=> Done \/ a = "done"
<1>1. /\ Len(apcs) \in Nat /\ Len(apcs') = Len(apcs) + 1
      /\ apcs'[Len(apcs) + 1] = a /\ \A k \in 1..Len(apcs) : apcs'[k] = apcs[k]
  OBVIOUS
<1>2. 1..Len(apcs') = 1..Len(apcs) \cup {Len(apcs) + 1}
  BY <1>1
<1> QED
  BY <1>1, <1>2 DEF Pending, Done

LEMMA TokenTaken ==
  ASSUME apcs \in Seq(Apcs), apcs # << >>, apcs' = Tail(apcs)
  PROVE  /\ Pending' => Pending
         /\ Done' => Done
         /\ Head(apcs) \in Tokens => Pending
         /\ Head(apcs) = "done" => Done
<1>1. /\ Len(apcs) \in Nat \ {0} /\ Len(apcs') = Len(apcs) - 1 /\ Head(apcs) = apcs[1]
      /\ \A k \in 1..Len(apcs') : apcs'[k] = apcs[k + 1] /\ k + 1 \in 1..Len(apcs)
  OBVIOUS
<1> QED
  BY <1>1 DEF Pending, Done

LEMMA NoToken == apcs' = << >> => ~Pending' /\ ~Done'
  BY DEF Pending, Done

(* The loop thread issues a read where it took the token of the last one. *)
LEMMA OneReadStep == TypeOK /\ Switched /\ OneRead /\ [Next]_vars => OneRead'
<1> SUFFICES ASSUME TypeOK /\ Switched /\ OneRead, [Next]_vars PROVE OneRead'
  OBVIOUS
<1> USE FoldersAssumption DEF TypeOK, disk, commanded, object, loop, trees, client
<1>1. ASSUME NEW f \in Folders, ResetWorkFolder(f) PROVE OneRead'
  BY <1>1 DEF ResetWorkFolder, OneRead, Pending, Tokens, Switched, TypeLoop
<1>2. ASSUME NEW f \in Folders, NEW deleted \in BOOLEAN, Remove(f, deleted) PROVE OneRead'
  BY <1>2, SMTT(30) DEF Remove, Fault, OneRead, Pending, Tokens, Switched, TypeLoop
<1>3. CASE CreateFile
  BY <1>3 DEF CreateFile, OneRead, Pending, Tokens, Switched, TypeLoop
<1>4. CASE WorkerWake
  BY <1>4 DEF WorkerWake, OneRead, Pending, Tokens, Switched, TypeLoop
<1>5. CASE StopTest
  BY <1>5 DEF StopTest, OneRead, Pending, Tokens, Switched, TypeLoop
<1>6. CASE StopLower
  BY <1>6 DEF StopLower, OneRead, Pending, Tokens, Switched, TypeLoop
<1>7. CASE StopRouse
  <2>1. UNCHANGED <<folder, running, lpc, read>> /\ wpc = "rouse"
    BY <1>7 DEF StopRouse
  <2>2. CASE lpc # "ended"
    <3>1. apcs' = Append(apcs, "wake") /\ wpc' = "join"
      BY <1>7, <2>2 DEF StopRouse
    <3> QED
      BY <2>1, <2>2, <3>1 DEF OneRead, Pending, Tokens, TypeLoop
  <2>3. CASE lpc = "ended"
    <3>1. apcs' = apcs /\ wpc' = "set"
      BY <1>7, <2>3 DEF StopRouse
    <3> QED
      BY <2>1, <2>3, <3>1 DEF OneRead, Pending, TypeLoop
  <2> QED
    BY <2>2, <2>3
<1>8. CASE StopJoin
  BY <1>8 DEF StopJoin, OneRead, Pending, Tokens, Switched, TypeLoop
<1>9. CASE SetFolder
  BY <1>9 DEF SetFolder, OneRead, Pending, Tokens, Switched, TypeLoop
<1>10. ASSUME NEW ok \in BOOLEAN, OpenHandle(ok) PROVE OneRead'
  BY <1>10 DEF OpenHandle, Fault, OneRead, Pending, Tokens, Switched, TypeLoop
<1>11. CASE TakeTree
  BY <1>11 DEF TakeTree, WatchTreeInstance, Instance, Alive, OneRead, Pending, Tokens, Switched, TypeLoop
<1>12. CASE StartThread
  BY <1>12 DEF StartThread, OneRead, Pending, Tokens, Switched, TypeLoop
<1>13. CASE StartAwait
  BY <1>13 DEF StartAwait, OneRead, Pending, Tokens, Switched, TypeLoop
<1>14. CASE StartQueue
  BY <1>14 DEF StartQueue, OneRead, Pending, Tokens, Switched, TypeLoop
<1>15. CASE LoopBegin
  BY <1>15 DEF LoopBegin, OneRead, Pending, Tokens, Switched, TypeLoop
<1>16. ASSUME NEW ok \in BOOLEAN, RunWatch(ok) PROVE OneRead'
  BY <1>16 DEF RunWatch, Runs, Watch, Fault, OneRead, Pending, Tokens, Switched, TypeLoop
<1>17. CASE RunWake
  BY <1>17 DEF RunWake, Runs, OneRead, Pending, Tokens, Switched, TypeLoop
<1>18. CASE RunError
  <2>1. ~running'
    BY <1>18, Zenon DEF RunError
  <2>2. /\ UNCHANGED <<wpc, folder, read>>
        /\ apcs # << >> /\ apcs' = Tail(apcs) /\ Head(apcs) = "error"
        /\ lpc \in {"sleep", "drain"} /\ lpc' \in {"sleep", "drain"}
    BY <1>18 DEF RunError, Runs
  <2> QED
    BY <2>1, <2>2 DEF OneRead, Pending, Tokens, TypeLoop
<1>19. ASSUME NEW ok \in BOOLEAN, RunDone(ok) PROVE OneRead'
  BY <1>19 DEF RunDone, Runs, Watch, Fault, OneRead, Pending, Tokens, Switched, TypeLoop
<1>20. CASE Parse
  BY <1>20 DEF Parse, OneRead, Pending, Tokens, Switched, TypeLoop
<1>21. CASE Notify
  BY <1>21 DEF Notify, OneRead, Pending, Tokens, Switched, TypeLoop
<1>22. CASE LoopReturn
  BY <1>22 DEF LoopReturn, OneRead, Pending, Tokens, Switched, TypeLoop
<1>23. CASE LoopTest
  BY <1>23 DEF LoopTest, OneRead, Pending, Tokens, Switched, TypeLoop
<1>24. CASE Dispatch
  BY <1>24 DEF Dispatch, OneRead, Pending, Tokens, Switched, TypeLoop
<1>25. CASE AnswerFolder
  BY <1>25 DEF AnswerFolder, OneRead, Pending, Tokens, Switched, TypeLoop
<1>26. CASE PayloadTree
  BY <1>26 DEF PayloadTree, WatchTreeInstance, Instance, Alive, OneRead, Pending, Tokens, Switched, TypeLoop
<1>27. CASE PayloadCollect
  BY <1>27 DEF PayloadCollect, OneRead, Pending, Tokens, Switched, TypeLoop
<1>28. CASE PayloadSend
  BY <1>28 DEF PayloadSend, OneRead, Pending, Tokens, Switched, TypeLoop
<1>29. CASE UNCHANGED vars
  BY <1>29 DEF vars, OneRead, Pending, Tokens, Switched, TypeLoop
<1> QED
  BY <1>1, <1>2, <1>3, <1>4, <1>5, <1>6, <1>7, <1>8, <1>9, <1>10, <1>11, <1>12, <1>13, <1>14, <1>15, <1>16, <1>17, <1>18, <1>19, <1>20, <1>21, <1>22, <1>23, <1>24, <1>25, <1>26, <1>27, <1>28, <1>29 DEF Next, Outside, Worker, Loop, Payload

(* g_work_folder stands still while anything of it is on its way. *)
LEMMA SoughtStep == TypeOK /\ Switched /\ OneRead /\ Sought /\ [Next]_vars => Sought'
<1> SUFFICES ASSUME TypeOK /\ Switched /\ OneRead /\ Sought, [Next]_vars PROVE Sought'
  OBVIOUS
<1> USE FoldersAssumption DEF TypeOK, disk, commanded, object, loop, trees, client
<1>1. ASSUME NEW f \in Folders, ResetWorkFolder(f) PROVE Sought'
  <2>1. /\ f # work /\ work' = f /\ (~stray' => ~stray /\ Settled)
        /\ UNCHANGED <<exists, wpc, folder, handle, running, lpc, apcs, read, tree, instance, holds, due,
                       path, pflag, ppc, ptree>>
    BY <1>1 DEF ResetWorkFolder
  <2>2. Settled => ~OnItsWay /\ ~OnItsWay' /\ ~Filled /\ ~Filled' /\ wpc = "idle"
    BY <2>1 DEF Settled, OnItsWay, Filled, Done
  <2>3. Pending' = Pending
    BY <2>1 DEF Pending
  <2> QED
    BY <2>1, <2>2, <2>3 DEF Sought, OnItsWay, Filled
<1>2. ASSUME NEW f \in Folders, NEW deleted \in BOOLEAN, Remove(f, deleted) PROVE Sought'
  <2>1. /\ exists' = exists \ {f}
        /\ UNCHANGED <<work, wpc, folder, handle, running, lpc, tree, instance, holds, due,
                       path, pflag, ppc, ptree, stray>>
    BY <1>2 DEF Remove
  <2>2. \/ read # None /\ read' = None /\ apcs' = Append(apcs, "error")
        \/ UNCHANGED <<read, apcs>>
    BY <1>2 DEF Remove
  <2>3. (Done' <=> Done) /\ ((read' # None \/ Pending') => (read # None \/ Pending))
    <3>1. CASE read # None /\ read' = None /\ apcs' = Append(apcs, "error")
      <4>1. "error" \in Apcs /\ "error" \in Tokens
        BY DEF Apcs, Tokens
      <4>2. (Done' <=> Done \/ "error" = "done") /\ Pending'
        BY <3>1, <4>1, TokenQueued DEF TypeLoop
      <4> QED
        BY <3>1, <4>2
    <3>2. CASE UNCHANGED <<read, apcs>>
      BY <3>2 DEF Done, Pending
    <3> QED
      BY <2>2, <3>1, <3>2
  <2> QED
    BY <2>1, <2>3 DEF Sought, OnItsWay, Filled
<1>3. CASE CreateFile
  BY <1>3 DEF CreateFile, Sought, OnItsWay, Filled, Done, Pending, Tokens, OneRead, Switched, TypeLoop, TypeWatcher, TypeTrees
<1>4. CASE WorkerWake
  BY <1>4 DEF WorkerWake, Sought, OnItsWay, Filled, Done, Pending, Tokens, OneRead, Switched, TypeLoop, TypeWatcher, TypeTrees
<1>5. CASE StopTest
  BY <1>5 DEF StopTest, Sought, OnItsWay, Filled, Done, Pending, Tokens, OneRead, Switched, TypeLoop, TypeWatcher, TypeTrees
<1>6. CASE StopLower
  BY <1>6 DEF StopLower, Sought, OnItsWay, Filled, Done, Pending, Tokens, OneRead, Switched, TypeLoop, TypeWatcher, TypeTrees
<1>7. CASE StopRouse
  <2>1. /\ UNCHANGED <<exists, work, folder, handle, running, lpc, read, tree, instance, holds, due,
                       path, pflag, ppc, ptree, stray>>
        /\ wpc = "rouse"
        /\ \/ lpc # "ended" /\ wpc' = "join" /\ apcs' = Append(apcs, "wake")
           \/ lpc = "ended" /\ wpc' = "set" /\ apcs' = apcs
    BY <1>7 DEF StopRouse
  <2>2. Done' = Done /\ Pending' = Pending
    BY <2>1, TokenQueued DEF Tokens, Apcs, TypeLoop, Done, Pending
  <2> QED
    BY <2>1, <2>2 DEF Sought, OnItsWay, Filled
<1>8. CASE StopJoin
  BY <1>8, NoToken DEF StopJoin, Sought, OnItsWay, Filled, OneRead, Switched, TypeLoop, TypeWatcher, TypeTrees
<1>9. CASE SetFolder
  BY <1>9 DEF SetFolder, Sought, OnItsWay, Filled, Done, Pending, Tokens, OneRead, Switched, TypeLoop, TypeWatcher, TypeTrees
<1>10. ASSUME NEW ok \in BOOLEAN, OpenHandle(ok) PROVE Sought'
  BY <1>10 DEF OpenHandle, Fault, Sought, OnItsWay, Filled, Done, Pending, Tokens, OneRead, Switched, TypeLoop, TypeWatcher, TypeTrees
<1>11. CASE TakeTree
  BY <1>11 DEF TakeTree, WatchTreeInstance, Instance, Alive, Sought, OnItsWay, Filled, Done, Pending, Tokens, OneRead, Switched, TypeLoop, TypeWatcher, TypeTrees
<1>12. CASE StartThread
  BY <1>12 DEF StartThread, Sought, OnItsWay, Filled, Done, Pending, Tokens, OneRead, Switched, TypeLoop, TypeWatcher, TypeTrees
<1>13. CASE StartAwait
  BY <1>13 DEF StartAwait, Sought, OnItsWay, Filled, Done, Pending, Tokens, OneRead, Switched, TypeLoop, TypeWatcher, TypeTrees
<1>14. CASE StartQueue
  BY <1>14 DEF StartQueue, Sought, OnItsWay, Filled, Done, Pending, Tokens, OneRead, Switched, TypeLoop, TypeWatcher, TypeTrees
<1>15. CASE LoopBegin
  BY <1>15 DEF LoopBegin, Sought, OnItsWay, Filled, Done, Pending, Tokens, OneRead, Switched, TypeLoop, TypeWatcher, TypeTrees
<1>16. ASSUME NEW ok \in BOOLEAN, RunWatch(ok) PROVE Sought'
  BY <1>16, TokenTaken DEF RunWatch, Runs, Watch, Fault, Sought, OnItsWay, Filled, OneRead, Switched, TypeLoop, TypeWatcher, TypeTrees, Tokens
<1>17. CASE RunWake
  BY <1>17, TokenTaken DEF RunWake, Runs, Sought, OnItsWay, Filled, OneRead, Switched, TypeLoop, TypeWatcher, TypeTrees
<1>18. CASE RunError
  BY <1>18, TokenTaken DEF RunError, Runs, Sought, OnItsWay, Filled, OneRead, Switched, TypeLoop, TypeWatcher, TypeTrees, Tokens
<1>19. ASSUME NEW ok \in BOOLEAN, RunDone(ok) PROVE Sought'
  <2>1. /\ UNCHANGED <<exists, work, wpc, folder, handle, tree, instance, holds, due,
                       path, pflag, ppc, ptree, stray>>
        /\ lpc # "parse" /\ lpc' = "parse"
        /\ apcs # << >> /\ apcs' = Tail(apcs) /\ Head(apcs) = "done"
        /\ running' = running \/ folder \notin exists
    BY <1>19 DEF RunDone, Runs, Watch
  <2>2. Pending /\ Done
    BY <2>1, TokenTaken DEF Tokens, TypeLoop
  <2> QED
    BY <2>1, <2>2 DEF Sought, OnItsWay, Filled, OneRead
<1>20. CASE Parse
  BY <1>20 DEF Parse, Sought, OnItsWay, Filled, Done, Pending, Tokens, OneRead, Switched, TypeLoop, TypeWatcher, TypeTrees
<1>21. CASE Notify
  BY <1>21 DEF Notify, Sought, OnItsWay, Filled, Done, Pending, Tokens, OneRead, Switched, TypeLoop, TypeWatcher, TypeTrees
<1>22. CASE LoopReturn
  BY <1>22 DEF LoopReturn, Sought, OnItsWay, Filled, Done, Pending, Tokens, OneRead, Switched, TypeLoop, TypeWatcher, TypeTrees
<1>23. CASE LoopTest
  <2>1. /\ UNCHANGED <<exists, work, wpc, folder, handle, running, tree, instance, holds, due,
                       path, pflag, ppc, ptree, stray>>
        /\ lpc = "test" /\ lpc' \in {"sleep", "ended"}
        /\ \/ UNCHANGED <<apcs, read>>
           \/ apcs' = << >> /\ read' = None
    BY <1>23 DEF LoopTest
  <2>2. (Done' => Done) /\ (Pending' => Pending) /\ (read' # None => read # None)
    BY <2>1, NoToken DEF Done, Pending
  <2> QED
    BY <2>1, <2>2 DEF Sought, OnItsWay, Filled
<1>24. CASE Dispatch
  BY <1>24 DEF Dispatch, Sought, OnItsWay, Filled, Done, Pending, Tokens, OneRead, Switched, TypeLoop, TypeWatcher, TypeTrees
<1>25. CASE AnswerFolder
  BY <1>25 DEF AnswerFolder, Sought, OnItsWay, Filled, Done, Pending, Tokens, OneRead, Switched, TypeLoop, TypeWatcher, TypeTrees
<1>26. CASE PayloadTree
  BY <1>26 DEF PayloadTree, WatchTreeInstance, Instance, Alive, Sought, OnItsWay, Filled, Done, Pending, Tokens, OneRead, Switched, TypeLoop, TypeWatcher, TypeTrees
<1>27. CASE PayloadCollect
  <2>1. /\ UNCHANGED <<exists, work, wpc, folder, handle, running, lpc, apcs, read, tree, instance, due,
                       path, pflag, ptree, stray>>
        /\ ppc = "collect" /\ holds' \subseteq holds
        /\ ppc' = "send" => ptree \in holds \cap exists
    BY <1>27 DEF PayloadCollect
  <2>2. Done' = Done /\ Pending' = Pending
    BY <2>1 DEF Done, Pending
  <2>3. ~stray /\ ppc' = "send" => ptree = work
    BY <2>1 DEF Sought, TypeWorker
  <2> QED
    BY <2>1, <2>2, <2>3 DEF Sought, OnItsWay, Filled
<1>28. CASE PayloadSend
  BY <1>28 DEF PayloadSend, Sought, OnItsWay, Filled, Done, Pending, Tokens, OneRead, Switched, TypeLoop, TypeWatcher, TypeTrees
<1>29. CASE UNCHANGED vars
  BY <1>29 DEF vars, Sought, OnItsWay, Filled, Done, Pending, Tokens, OneRead, Switched, TypeLoop, TypeWatcher, TypeTrees
<1> QED
  BY <1>1, <1>2, <1>3, <1>4, <1>5, <1>6, <1>7, <1>8, <1>9, <1>10, <1>11, <1>12, <1>13, <1>14, <1>15, <1>16, <1>17, <1>18, <1>19, <1>20, <1>21, <1>22, <1>23, <1>24, <1>25, <1>26, <1>27, <1>28, <1>29 DEF Next, Outside, Worker, Loop, Payload

-----------------------------------------------------------------------------
(* The initial state. *)
LEMMA InitTypes == Init => TypeOK
<1> SUFFICES ASSUME Init PROVE TypeOK
  OBVIOUS
<1> USE BoundsAssumption, FoldersAssumption
<1>1. TypeWorker
  <2>1. exists \subseteq Folders /\ used \subseteq Folders
    BY DEF Init
  <2>2. work = InitFolder /\ used = {InitFolder} /\ woken = FALSE /\ faults = 0 /\ moves = 0 /\ wpc = "set"
    BY DEF Init
  <2>3. faults \in 0..MaxFaults
    BY <2>2
  <2>4. moves \in 0..MaxMoves
    BY <2>2
  <2>5. work \in used
    BY <2>2
  <2>6. woken \in BOOLEAN
    BY <2>2
  <2> QED
    BY <2>1, <2>2, <2>3, <2>4, <2>5, <2>6 DEF TypeWorker
<1>2. TypeWatcher
  BY DEF Init, TypeWatcher, Places
<1>3. TypeLoop
  BY QueueEmpty DEF Init, TypeLoop
<1>4. TypeTrees
  BY DEF Init, TypeTrees, Places
<1> QED
  BY <1>1, <1>2, <1>3, <1>4 DEF TypeOK

LEMMA InitOthers == Init => Switched /\ Joined /\ Fresh /\ Heard /\ OneRead /\ Sought
<1> SUFFICES ASSUME Init PROVE Switched /\ Joined /\ Fresh /\ Heard /\ OneRead /\ Sought
  OBVIOUS
<1> USE FoldersAssumption DEF Init
<1>1. Switched /\ Heard
  BY DEF Switched, Heard
<1>2. Joined
  BY QuietQueueEmpty DEF Joined
<1>3. Fresh
  BY DEF Fresh
<1>4. OneRead
  BY DEF OneRead, Pending
<1>5. Sought
  BY DEF Sought, Filled, OnItsWay, Done, Pending
<1> QED
  BY <1>1, <1>2, <1>3, <1>4, <1>5

(* The types of the folder watcher hold in every state: a read belongs to a *)
(* loop thread that is alive, and files to a tree that is referred to.      *)
THEOREM TypeCorrect == Spec => []TypeOK
<1> QED
  BY InitTypes, TypeStep, PTL DEF Spec

(* The running watcher's handle is that of its folder, in every state.      *)
LEMMA SwitchedCorrect == Spec => []Switched
<1> QED
  BY InitOthers, SwitchedStep, TypeCorrect, PTL DEF Spec

(* The process is terminated for none but the named reasons, whatever the   *)
(* threads do.                                                              *)
THEOREM CrashesHaveCauses == Spec => []CrashesAreNamed
<1>1. Spec => []Joined
  BY InitOthers, JoinedStep, TypeCorrect, SwitchedCorrect, PTL DEF Spec
<1>2. Spec => []Fresh
  BY InitOthers, FreshStep, TypeCorrect, SwitchedCorrect, PTL DEF Spec
<1>3. Joined /\ Fresh => CrashesAreNamed
  BY DEF Joined, Fresh, CrashesAreNamed
<1> QED
  BY <1>1, <1>2, <1>3, PTL

(* Handle, watch tree and global tree are those of the folder, for any      *)
(* sequence of folders in which none comes back.                            *)
THEOREM TreesBelongToFolders == Spec => []TreeOfFolder
<1>1. Spec => []Fresh
  BY InitOthers, FreshStep, TypeCorrect, SwitchedCorrect, PTL DEF Spec
<1>2. Switched /\ Fresh => TreeOfFolder
  BY FoldersAssumption DEF Switched, Fresh, TreeOfFolder
<1> QED
  BY <1>1, <1>2, SwitchedCorrect, PTL

(* While no folder disappears or comes back, no stop comes too late and no  *)
(* read is refused, a sleeping watcher has a read pending.                  *)
THEOREM WatchersHear == Spec => []NoDeafWatcher
<1>1. Spec => []Joined
  BY InitOthers, JoinedStep, TypeCorrect, SwitchedCorrect, PTL DEF Spec
<1>2. Spec => []Heard
  BY <1>1, InitOthers, HeardStep, TypeCorrect, SwitchedCorrect, PTL DEF Spec
<1>3. Heard => NoDeafWatcher
  BY DEF Heard, Expected, NoDeafWatcher
<1> QED
  BY <1>2, <1>3, PTL

(* The payload thread publishes the files of a tree from under the folder   *)
(* they appeared in, for any folders and any sequence of changes of         *)
(* g_work_folder that leaves nothing of the old folder on its way.          *)
THEOREM FilesAreSoughtInPlace == Spec => []FilesAreWhereSought
<1>1. Spec => []OneRead
  BY InitOthers, OneReadStep, TypeCorrect, SwitchedCorrect, PTL DEF Spec
<1>2. Spec => []Sought
  BY <1>1, InitOthers, SoughtStep, TypeCorrect, SwitchedCorrect, PTL DEF Spec
<1>3. Sought => FilesAreWhereSought
  BY DEF Sought, FilesAreWhereSought
<1> QED
  BY <1>2, <1>3, PTL

-----------------------------------------------------------------------------
(* Why a restart comes to an end: how much the threads have left to do is a *)
(* natural number that their steps lower, and none of them waits for one    *)
(* that has stopped.  The step from there to RestartReturns is TLC's.       *)

(* What is left from each place of a thread on, in steps of that thread and *)
(* of the ones it gives work to; an APC is worth the most it can cause.     *)
WorkerLeft(pc) ==
  CASE pc = "idle" -> 0 [] pc = "queue" -> 10 [] pc = "await" -> 11 [] pc = "spawn" -> 14
    [] pc \in {"reset", "keep"} -> 15 [] pc = "open" -> 16 [] pc = "set" -> 17 [] pc = "join" -> 18
    [] pc = "rouse" -> 28 [] pc = "lower" -> 29 [] pc = "stop" -> 30
LoopLeft(pc) ==
  CASE pc = "none" -> 0 [] pc \in {"ended", "sleep"} -> 1 [] pc \in {"new", "test"} -> 2
    [] pc = "drain" -> 3 [] pc = "post" -> 8 [] pc = "parse" -> 9
PayloadLeft(pc) == CASE pc = "wait" -> 0 [] pc \in {"send", "drop"} -> 1 [] pc = "collect" -> 2
QueueLeft(queue) == 9 * Len(queue)
Flags ==
  (IF woken THEN 31 ELSE 0) + (IF due THEN 4 ELSE 0) + (IF pflag THEN 3 ELSE 0)
  + (IF path # work THEN 1 ELSE 0) + (IF crashed = "no" THEN 1 ELSE 0)
Work == WorkerLeft(wpc) + LoopLeft(lpc) + PayloadLeft(ppc) + QueueLeft(apcs) + Flags

(* Every step of the process lowers the work that is left: between two      *)
(* events from outside it makes finitely many, and comes to rest.           *)
WorkRunsOut == [](Work \in Nat) /\ [][Outside \/ Work' < Work]_vars

(* What the loop thread has left when stop waits for it, the read it may    *)
(* still get an answer to included.                                         *)
JoinLeft == LoopLeft(lpc) + QueueLeft(apcs) + (IF read # None THEN 10 ELSE 0) + (IF due THEN 4 ELSE 0)

(* The join of stop waits for finitely many steps of the loop thread and    *)
(* the SleepThread, whatever happens outside meanwhile.                     *)
JoinIsBounded ==
  /\ [](JoinLeft \in Nat)
  /\ [][wpc = "join" /\ wpc' = "join" /\ crashed' = "no" =>
          JoinLeft' <= JoinLeft /\ (Loop \/ Dispatch => JoinLeft' < JoinLeft)]_vars

(* The guards of the worker's and of the loop thread's actions.             *)
WorkerGoes ==
  \/ wpc = "idle" /\ woken
  \/ wpc \in {"stop", "lower", "rouse", "set", "open", "reset", "keep", "spawn", "queue"}
  \/ wpc = "join" /\ lpc = "ended"
  \/ wpc = "await" /\ signal
LoopGoes ==
  \/ lpc \in {"new", "parse", "test", "drain"}
  \/ lpc = "sleep" /\ apcs # << >>
  \/ lpc = "post" /\ ~(due /\ tree \in holds)

(* A restart never waits in vain: the worker goes on, or the thread that it *)
(* waits for does, or the SleepThread takes the reason that one waits for.  *)
RestartGoesOn == crashed = "no" /\ wpc # "idle" => WorkerGoes \/ LoopGoes \/ due

(* Where the process comes to rest, the worker sleeps, no APC is left, and  *)
(* a watcher runs if and only if its loop thread sleeps.                    *)
Still == ~WorkerGoes /\ ~LoopGoes /\ ~due /\ ~pflag /\ ppc = "wait"
RestsAsleep ==
  crashed = "no" /\ Still =>
    /\ wpc = "idle" /\ ~woken /\ apcs = << >>
    /\ lpc \in {"none", "ended", "sleep"} /\ (running <=> lpc = "sleep")

(* The inductive part of it: what start has done when it waits, what stop   *)
(* has, and which loop threads there are without a wait.                    *)
Started ==
  /\ wpc = "spawn" /\ lpc = "none" => running
  /\ wpc \in {"await", "queue"} => running /\ apcs = << >> /\ read = None /\ lpc \in {"new", "sleep"}
  /\ wpc = "await" => (signal <=> lpc = "sleep")
  /\ wpc # "await" => ~signal
  /\ lpc = "new" => wpc = "await"

Stopped ==
  /\ wpc \in {"lower", "rouse", "join"} => lpc # "none"
  /\ wpc \in {"rouse", "join", "set", "open", "reset", "keep"} => ~running
  /\ wpc = "join" /\ lpc = "sleep" => apcs # << >>

Asleep ==
  /\ wpc \in {"idle", "stop"} /\ running => lpc # "none"
  /\ wpc # "spawn" /\ running => lpc # "ended"
  /\ crashed = "no" /\ wpc \notin {"rouse", "join"} /\ lpc = "sleep" => running
  /\ lpc \in {"none", "ended"} => apcs = << >>

Awaited == Started /\ Stopped /\ Asleep

LEMMA WorkerCounts ==
  /\ WorkerLeft("idle") = 0 /\ WorkerLeft("queue") = 10 /\ WorkerLeft("await") = 11
  /\ WorkerLeft("spawn") = 14 /\ WorkerLeft("reset") = 15 /\ WorkerLeft("keep") = 15
  /\ WorkerLeft("open") = 16 /\ WorkerLeft("set") = 17 /\ WorkerLeft("join") = 18
  /\ WorkerLeft("rouse") = 28 /\ WorkerLeft("lower") = 29 /\ WorkerLeft("stop") = 30
  BY DEF WorkerLeft

LEMMA LoopCounts ==
  /\ LoopLeft("none") = 0 /\ LoopLeft("ended") = 1 /\ LoopLeft("sleep") = 1 /\ LoopLeft("new") = 2
  /\ LoopLeft("test") = 2 /\ LoopLeft("drain") = 3 /\ LoopLeft("post") = 8 /\ LoopLeft("parse") = 9
  BY DEF LoopLeft

LEMMA PayloadCounts ==
  /\ PayloadLeft("wait") = 0 /\ PayloadLeft("send") = 1 /\ PayloadLeft("drop") = 1
  /\ PayloadLeft("collect") = 2
  BY DEF PayloadLeft

(* An APC more or less in the queue. *)
LEMMA QueueCounts ==
  /\ \A s \in Seq(Apcs), a \in Apcs : QueueLeft(Append(s, a)) = QueueLeft(s) + 9
  /\ \A s \in Seq(Apcs) : s # << >> => QueueLeft(Tail(s)) = QueueLeft(s) - 9
  /\ \A s \in Seq(Apcs) : QueueLeft(s) \in Nat
  /\ QueueLeft(<< >>) = 0
<1>1. /\ \A s \in Seq(Apcs), a \in Apcs : Len(Append(s, a)) = Len(s) + 1
      /\ \A s \in Seq(Apcs) : s # << >> => Len(Tail(s)) = Len(s) - 1
      /\ \A s \in Seq(Apcs) : Len(s) \in Nat
  OBVIOUS
<1>2. \A s \in Seq(Apcs), a \in Apcs : QueueLeft(Append(s, a)) = QueueLeft(s) + 9
  BY <1>1 DEF QueueLeft
<1>3. \A s \in Seq(Apcs) : s # << >> => QueueLeft(Tail(s)) = QueueLeft(s) - 9
  BY <1>1 DEF QueueLeft
<1>4. \A s \in Seq(Apcs) : QueueLeft(s) \in Nat
  BY <1>1 DEF QueueLeft
<1>5. QueueLeft(<< >>) = 0
  BY DEF QueueLeft
<1> QED
  BY <1>2, <1>3, <1>4, <1>5

LEMMA WorkTyped ==
  TypeOK => /\ WorkerLeft(wpc) \in Nat /\ LoopLeft(lpc) \in Nat /\ PayloadLeft(ppc) \in Nat
            /\ QueueLeft(apcs) \in Nat /\ Flags \in Nat
<1> SUFFICES ASSUME TypeOK
             PROVE  /\ WorkerLeft(wpc) \in Nat /\ LoopLeft(lpc) \in Nat /\ PayloadLeft(ppc) \in Nat
                    /\ QueueLeft(apcs) \in Nat /\ Flags \in Nat
  OBVIOUS
<1>1. WorkerLeft(wpc) \in Nat
  BY WorkerCounts DEF TypeOK, TypeWorker
<1>2. LoopLeft(lpc) \in Nat
  BY LoopCounts DEF TypeOK, TypeLoop
<1>3. PayloadLeft(ppc) \in Nat
  <2>1. ppc \in {"wait", "collect", "send", "drop"}
    BY DEF TypeOK, TypeTrees
  <2> QED
    BY <2>1, PayloadCounts
<1>4. QueueLeft(apcs) \in Nat
  BY QueueCounts DEF TypeOK, TypeLoop
<1>5. Flags \in Nat
  BY DEF Flags
<1> QED
  BY <1>1, <1>2, <1>3, <1>4, <1>5

(* Every action but those from outside lowers it. *)
LEMMA WorkStep == TypeOK /\ TypeOK' /\ Next => Outside \/ Work' < Work
<1> SUFFICES ASSUME TypeOK, TypeOK', Next, ~Outside PROVE Work' < Work
  OBVIOUS
<1>p. /\ WorkerLeft(wpc) \in Nat /\ LoopLeft(lpc) \in Nat /\ PayloadLeft(ppc) \in Nat
      /\ QueueLeft(apcs) \in Nat /\ Flags \in Nat
  BY WorkTyped
<1>q. WorkerLeft(wpc') \in Nat /\ LoopLeft(lpc') \in Nat /\ PayloadLeft(ppc') \in Nat
  <2>1. ppc' \in {"wait", "collect", "send", "drop"}
    BY DEF TypeOK, TypeTrees
  <2>2. PayloadLeft(ppc') \in Nat
    BY <2>1, PayloadCounts
  <2>3. LoopLeft(lpc') \in Nat
    BY LoopCounts DEF TypeOK, TypeLoop
  <2>4. WorkerLeft(wpc') \in Nat
    BY WorkerCounts DEF TypeOK, TypeWorker
  <2> QED
    BY <2>2, <2>3, <2>4
<1>r. QueueLeft(apcs') \in Nat /\ Flags' \in Nat
  <2>1. QueueLeft(apcs') \in Nat
    BY QueueCounts DEF TypeOK, TypeLoop
  <2>2. Flags' \in Nat
    BY DEF Flags
  <2> QED
    BY <2>1, <2>2
<1>c. crashed = "no"
  BY DEF Next
<1> USE DEF disk, commanded, object, loop, trees, client
<1>1. CASE WorkerWake
  <2>1. WorkerLeft(wpc') <= WorkerLeft(wpc) + 30
    BY <1>1, WorkerCounts DEF WorkerWake
  <2>2. Flags' = Flags - 31
    BY <1>1 DEF WorkerWake, Flags
  <2>3. LoopLeft(lpc') = LoopLeft(lpc) /\ PayloadLeft(ppc') = PayloadLeft(ppc) /\ QueueLeft(apcs') = QueueLeft(apcs)
    BY <1>1 DEF WorkerWake
  <2> QED
    BY <1>p, <1>q, <1>r, <2>1, <2>2, <2>3 DEF Work
<1>2. CASE StopTest
  <2>1. WorkerLeft(wpc') <= WorkerLeft(wpc) - 1
    BY <1>2, WorkerCounts DEF StopTest
  <2>2. LoopLeft(lpc') = LoopLeft(lpc) /\ PayloadLeft(ppc') = PayloadLeft(ppc) /\ QueueLeft(apcs') = QueueLeft(apcs)
    BY <1>2 DEF StopTest
  <2>3. Flags' = Flags
    BY <1>2 DEF StopTest, Flags
  <2> QED
    BY <1>p, <1>q, <1>r, <2>1, <2>2, <2>3 DEF Work
<1>3. CASE StopLower
  <2>1. WorkerLeft(wpc') <= WorkerLeft(wpc) - 1
    BY <1>3, WorkerCounts DEF StopLower
  <2>2. LoopLeft(lpc') = LoopLeft(lpc) /\ PayloadLeft(ppc') = PayloadLeft(ppc) /\ QueueLeft(apcs') = QueueLeft(apcs)
    BY <1>3 DEF StopLower
  <2>3. Flags' = Flags
    BY <1>3 DEF StopLower, Flags
  <2> QED
    BY <1>p, <1>q, <1>r, <2>1, <2>2, <2>3 DEF Work
<1>4. CASE StopRouse
  <2>1. CASE lpc # "ended"
    <3>1. WorkerLeft(wpc') = WorkerLeft(wpc) - 10
      BY <1>4, <2>1, WorkerCounts DEF StopRouse
    <3>2. QueueLeft(apcs') = QueueLeft(apcs) + 9
      BY <1>4, <2>1, QueueCounts DEF StopRouse, TypeOK, TypeLoop, Apcs
    <3>3. LoopLeft(lpc') = LoopLeft(lpc) /\ PayloadLeft(ppc') = PayloadLeft(ppc)
      BY <1>4 DEF StopRouse
    <3>4. Flags' = Flags
      BY <1>4 DEF StopRouse, Flags
    <3> QED
      BY <1>p, <3>1, <3>2, <3>3, <3>4 DEF Work
  <2>2. CASE lpc = "ended"
    <3>1. WorkerLeft(wpc') = WorkerLeft(wpc) - 11
      BY <1>4, <2>2, WorkerCounts DEF StopRouse
    <3>2. QueueLeft(apcs') = QueueLeft(apcs)
      BY <1>4, <2>2 DEF StopRouse
    <3>3. LoopLeft(lpc') = LoopLeft(lpc) /\ PayloadLeft(ppc') = PayloadLeft(ppc)
      BY <1>4 DEF StopRouse
    <3>4. Flags' = Flags
      BY <1>4 DEF StopRouse, Flags
    <3> QED
      BY <1>p, <3>1, <3>2, <3>3, <3>4 DEF Work
  <2> QED
    BY <2>1, <2>2
<1>5. CASE StopJoin
  <2>1. WorkerLeft(wpc') <= WorkerLeft(wpc) - 1
    BY <1>5, WorkerCounts DEF StopJoin
  <2>2. LoopLeft(lpc') <= LoopLeft(lpc)
    BY <1>5, LoopCounts DEF StopJoin
  <2>3. QueueLeft(apcs') <= QueueLeft(apcs)
    BY <1>5, QueueCounts DEF StopJoin, TypeOK, TypeLoop, Apcs
  <2>4. PayloadLeft(ppc') = PayloadLeft(ppc)
    BY <1>5 DEF StopJoin
  <2>5. Flags' = Flags
    BY <1>5 DEF StopJoin, Flags
  <2> QED
    BY <1>p, <1>q, <1>r, <2>1, <2>2, <2>3, <2>4, <2>5 DEF Work
<1>6. CASE SetFolder
  <2>1. WorkerLeft(wpc') <= WorkerLeft(wpc) - 1
    BY <1>6, WorkerCounts DEF SetFolder
  <2>2. LoopLeft(lpc') = LoopLeft(lpc) /\ PayloadLeft(ppc') = PayloadLeft(ppc) /\ QueueLeft(apcs') = QueueLeft(apcs)
    BY <1>6 DEF SetFolder
  <2>3. Flags' = Flags
    BY <1>6 DEF SetFolder, Flags
  <2> QED
    BY <1>p, <1>q, <1>r, <2>1, <2>2, <2>3 DEF Work
<1>7. ASSUME NEW ok \in BOOLEAN, OpenHandle(ok) PROVE Work' < Work
  <2>1. WorkerLeft(wpc') <= WorkerLeft(wpc) - 1
    BY <1>7, WorkerCounts DEF OpenHandle
  <2>2. LoopLeft(lpc') = LoopLeft(lpc) /\ PayloadLeft(ppc') = PayloadLeft(ppc) /\ QueueLeft(apcs') = QueueLeft(apcs)
    BY <1>7 DEF OpenHandle
  <2>3. Flags' = Flags
    BY <1>7 DEF OpenHandle, Flags
  <2> QED
    BY <1>p, <1>q, <1>r, <2>1, <2>2, <2>3 DEF Work
<1>8. CASE TakeTree
  <2>1. WorkerLeft(wpc') <= WorkerLeft(wpc) - 1
    BY <1>8, WorkerCounts DEF TakeTree
  <2>2. LoopLeft(lpc') = LoopLeft(lpc) /\ PayloadLeft(ppc') = PayloadLeft(ppc) /\ QueueLeft(apcs') = QueueLeft(apcs)
    BY <1>8 DEF TakeTree
  <2>3. Flags' = Flags
    BY <1>8 DEF TakeTree, Flags
  <2> QED
    BY <1>p, <1>q, <1>r, <2>1, <2>2, <2>3 DEF Work
<1>9. CASE StartThread
  <2>1. CASE lpc = "none"
    <3>1. WorkerLeft(wpc') = WorkerLeft(wpc) - 3 /\ LoopLeft(lpc') = LoopLeft(lpc) + 2
      BY <1>9, <2>1, WorkerCounts, LoopCounts DEF StartThread
    <3>2. PayloadLeft(ppc') = PayloadLeft(ppc) /\ QueueLeft(apcs') = QueueLeft(apcs)
      BY <1>9 DEF StartThread
    <3>3. Flags' = Flags
      BY <1>9, <2>1 DEF StartThread, Flags
    <3> QED
      BY <1>p, <3>1, <3>2, <3>3 DEF Work
  <2>2. CASE lpc # "none"
    <3>1. WorkerLeft(wpc') = WorkerLeft(wpc) /\ LoopLeft(lpc') = LoopLeft(lpc)
      BY <1>9, <2>2 DEF StartThread
    <3>2. PayloadLeft(ppc') = PayloadLeft(ppc) /\ QueueLeft(apcs') = QueueLeft(apcs)
      BY <1>9 DEF StartThread
    <3>3. Flags' = Flags - 1
      BY <1>9, <1>c, <2>2 DEF StartThread, Flags
    <3> QED
      BY <1>p, <3>1, <3>2, <3>3 DEF Work
  <2> QED
    BY <2>1, <2>2
<1>10. CASE StartAwait
  <2>1. WorkerLeft(wpc') <= WorkerLeft(wpc) - 1
    BY <1>10, WorkerCounts DEF StartAwait
  <2>2. LoopLeft(lpc') = LoopLeft(lpc) /\ PayloadLeft(ppc') = PayloadLeft(ppc) /\ QueueLeft(apcs') = QueueLeft(apcs)
    BY <1>10 DEF StartAwait
  <2>3. Flags' = Flags
    BY <1>10 DEF StartAwait, Flags
  <2> QED
    BY <1>p, <1>q, <1>r, <2>1, <2>2, <2>3 DEF Work
<1>11. CASE StartQueue
  <2>1. WorkerLeft(wpc') <= WorkerLeft(wpc) - 10
    BY <1>11, WorkerCounts DEF StartQueue
  <2>2. QueueLeft(apcs') = QueueLeft(apcs) + 9
    BY <1>11, QueueCounts DEF StartQueue, TypeOK, TypeLoop, Apcs
  <2>3. LoopLeft(lpc') = LoopLeft(lpc) /\ PayloadLeft(ppc') = PayloadLeft(ppc)
    BY <1>11 DEF StartQueue
  <2>4. Flags' = Flags
    BY <1>11 DEF StartQueue, Flags
  <2> QED
    BY <1>p, <1>q, <1>r, <2>1, <2>2, <2>3, <2>4 DEF Work
<1>12. CASE LoopBegin
  <2>1. LoopLeft(lpc') = LoopLeft(lpc) - 1
    BY <1>12, LoopCounts DEF LoopBegin
  <2>2. WorkerLeft(wpc') = WorkerLeft(wpc) /\ PayloadLeft(ppc') = PayloadLeft(ppc) /\ QueueLeft(apcs') = QueueLeft(apcs)
    BY <1>12 DEF LoopBegin
  <2>3. Flags' = Flags
    BY <1>12 DEF LoopBegin, Flags
  <2> QED
    BY <1>p, <1>q, <1>r, <2>1, <2>2, <2>3 DEF Work
<1>13. ASSUME NEW ok \in BOOLEAN, RunWatch(ok) PROVE Work' < Work
  <2>1. LoopLeft(lpc') <= LoopLeft(lpc) + 2
    BY <1>13, LoopCounts DEF RunWatch, Runs
  <2>2. QueueLeft(apcs') = QueueLeft(apcs) - 9
    BY <1>13, QueueCounts DEF RunWatch, Runs, TypeOK, TypeLoop, Apcs
  <2>3. WorkerLeft(wpc') = WorkerLeft(wpc) /\ PayloadLeft(ppc') = PayloadLeft(ppc)
    BY <1>13 DEF RunWatch, Runs
  <2>4. Flags' = Flags
    BY <1>13 DEF RunWatch, Runs, Flags
  <2> QED
    BY <1>p, <1>q, <1>r, <2>1, <2>2, <2>3, <2>4 DEF Work
<1>14. CASE RunWake
  <2>1. LoopLeft(lpc') <= LoopLeft(lpc) + 2
    BY <1>14, LoopCounts DEF RunWake, Runs
  <2>2. QueueLeft(apcs') = QueueLeft(apcs) - 9
    BY <1>14, QueueCounts DEF RunWake, Runs, TypeOK, TypeLoop, Apcs
  <2>3. WorkerLeft(wpc') = WorkerLeft(wpc) /\ PayloadLeft(ppc') = PayloadLeft(ppc)
    BY <1>14 DEF RunWake, Runs
  <2>4. Flags' = Flags
    BY <1>14 DEF RunWake, Runs, Flags
  <2> QED
    BY <1>p, <1>q, <1>r, <2>1, <2>2, <2>3, <2>4 DEF Work
<1>15. CASE RunError
  <2>1. lpc \in {"sleep", "drain"} /\ (lpc' = lpc \/ lpc' = "drain")
    BY <1>15 DEF RunError, Runs
  <2>2. LoopLeft(lpc') <= LoopLeft(lpc) + 2
    BY <2>1, LoopCounts
  <2>3. QueueLeft(apcs') = QueueLeft(apcs) - 9
    BY <1>15, QueueCounts DEF RunError, Runs, TypeOK, TypeLoop, Apcs
  <2>4. WorkerLeft(wpc') = WorkerLeft(wpc) /\ PayloadLeft(ppc') = PayloadLeft(ppc)
    BY <1>15 DEF RunError, Runs
  <2>5. (IF crashed' = "no" THEN 1 ELSE 0) <= (IF crashed = "no" THEN 1 ELSE 0)
    BY <1>c
  <2>7. UNCHANGED <<woken, due, pflag, path, work>>
    BY <1>15 DEF RunError, Runs
  <2>6. Flags' <= Flags
    BY <2>5, <2>7 DEF Flags
  <2> QED
    BY <1>p, <1>q, <1>r, <2>2, <2>3, <2>4, <2>6 DEF Work
<1>16. ASSUME NEW ok \in BOOLEAN, RunDone(ok) PROVE Work' < Work
  <2>1. LoopLeft(lpc') <= LoopLeft(lpc) + 8
    BY <1>16, LoopCounts DEF RunDone, Runs
  <2>2. QueueLeft(apcs') = QueueLeft(apcs) - 9
    BY <1>16, QueueCounts DEF RunDone, Runs, TypeOK, TypeLoop, Apcs
  <2>3. WorkerLeft(wpc') = WorkerLeft(wpc) /\ PayloadLeft(ppc') = PayloadLeft(ppc)
    BY <1>16 DEF RunDone, Runs
  <2>4. Flags' = Flags
    BY <1>16 DEF RunDone, Runs, Flags
  <2> QED
    BY <1>p, <1>q, <1>r, <2>1, <2>2, <2>3, <2>4 DEF Work
<1>17. CASE Parse
  <2>1. CASE tree # None
    <3>1. lpc = "parse" /\ lpc' \in {"post", "drain"}
      BY <1>17, <2>1 DEF Parse
    <3>4. LoopLeft(lpc') <= LoopLeft(lpc) - 1 /\ LoopLeft(lpc') \in Nat
      BY <3>1, LoopCounts
    <3>2. WorkerLeft(wpc') = WorkerLeft(wpc) /\ PayloadLeft(ppc') = PayloadLeft(ppc) /\ QueueLeft(apcs') = QueueLeft(apcs)
      BY <1>17 DEF Parse
    <3>3. Flags' = Flags
      BY <1>17, <2>1 DEF Parse, Flags
    <3> QED
      BY <1>p, <3>2, <3>3, <3>4 DEF Work
  <2>2. CASE tree = None
    <3>1. WorkerLeft(wpc') = WorkerLeft(wpc) /\ LoopLeft(lpc') = LoopLeft(lpc)
      BY <1>17, <2>2 DEF Parse
    <3>2. PayloadLeft(ppc') = PayloadLeft(ppc) /\ QueueLeft(apcs') = QueueLeft(apcs)
      BY <1>17 DEF Parse
    <3>4. crashed' # "no" /\ UNCHANGED <<woken, due, pflag, path, work>>
      BY <1>17, <2>2 DEF Parse
    <3>3. Flags' = Flags - 1
      BY <1>c, <3>4 DEF Flags
    <3> QED
      BY <1>p, <3>1, <3>2, <3>3 DEF Work
  <2> QED
    BY <2>1, <2>2
<1>18. CASE Notify
  <2>1. LoopLeft(lpc') = LoopLeft(lpc) - 5
    BY <1>18, LoopCounts DEF Notify
  <2>2. WorkerLeft(wpc') = WorkerLeft(wpc) /\ PayloadLeft(ppc') = PayloadLeft(ppc) /\ QueueLeft(apcs') = QueueLeft(apcs)
    BY <1>18 DEF Notify
  <2>3. Flags' = Flags + 4 \/ Flags' = Flags
    <3>1. CASE tree \in holds
      BY <1>18, <3>1 DEF Notify, Flags
    <3>2. CASE tree \notin holds
      BY <1>18, <3>2 DEF Notify, Flags
    <3> QED
      BY <3>1, <3>2
  <2> QED
    BY <1>p, <2>1, <2>2, <2>3 DEF Work
<1>19. CASE LoopReturn
  <2>1. LoopLeft(lpc') = LoopLeft(lpc) - 1
    BY <1>19, LoopCounts DEF LoopReturn
  <2>2. WorkerLeft(wpc') = WorkerLeft(wpc) /\ PayloadLeft(ppc') = PayloadLeft(ppc) /\ QueueLeft(apcs') = QueueLeft(apcs)
    BY <1>19 DEF LoopReturn
  <2>3. Flags' = Flags
    BY <1>19 DEF LoopReturn, Flags
  <2> QED
    BY <1>p, <1>q, <1>r, <2>1, <2>2, <2>3 DEF Work
<1>20. CASE LoopTest
  <2>1. LoopLeft(lpc') = LoopLeft(lpc) - 1
    BY <1>20, LoopCounts DEF LoopTest
  <2>2. QueueLeft(apcs') <= QueueLeft(apcs)
    BY <1>20, QueueCounts DEF LoopTest, TypeOK, TypeLoop, Apcs
  <2>3. WorkerLeft(wpc') = WorkerLeft(wpc) /\ PayloadLeft(ppc') = PayloadLeft(ppc)
    BY <1>20 DEF LoopTest
  <2>4. Flags' = Flags
    BY <1>20 DEF LoopTest, Flags
  <2> QED
    BY <1>p, <1>q, <1>r, <2>1, <2>2, <2>3, <2>4 DEF Work
<1>21. CASE Dispatch
  <2>1. Flags' <= Flags - 1
    BY <1>21 DEF Dispatch, Flags
  <2>2. WorkerLeft(wpc') = WorkerLeft(wpc) /\ LoopLeft(lpc') = LoopLeft(lpc) /\ PayloadLeft(ppc') = PayloadLeft(ppc) /\ QueueLeft(apcs') = QueueLeft(apcs)
    BY <1>21 DEF Dispatch
  <2> QED
    BY <1>p, <1>q, <1>r, <2>1, <2>2 DEF Work
<1>22. CASE AnswerFolder
  <2>1. Flags' = Flags - 1
    BY <1>22 DEF AnswerFolder, Flags
  <2>2. WorkerLeft(wpc') = WorkerLeft(wpc) /\ LoopLeft(lpc') = LoopLeft(lpc) /\ PayloadLeft(ppc') = PayloadLeft(ppc) /\ QueueLeft(apcs') = QueueLeft(apcs)
    BY <1>22 DEF AnswerFolder
  <2> QED
    BY <1>p, <1>q, <1>r, <2>1, <2>2 DEF Work
<1>23. CASE PayloadTree
  <2>1. PayloadLeft(ppc') <= PayloadLeft(ppc) + 2
    BY <1>23, PayloadCounts DEF PayloadTree
  <2>2. Flags' = Flags - 3
    BY <1>23 DEF PayloadTree, Flags
  <2>3. WorkerLeft(wpc') = WorkerLeft(wpc) /\ LoopLeft(lpc') = LoopLeft(lpc) /\ QueueLeft(apcs') = QueueLeft(apcs)
    BY <1>23 DEF PayloadTree
  <2> QED
    BY <1>p, <1>q, <1>r, <2>1, <2>2, <2>3 DEF Work
<1>24. CASE PayloadCollect
  <2>1. PayloadLeft(ppc') = PayloadLeft(ppc) - 1
    BY <1>24, PayloadCounts DEF PayloadCollect
  <2>2. WorkerLeft(wpc') = WorkerLeft(wpc) /\ LoopLeft(lpc') = LoopLeft(lpc) /\ QueueLeft(apcs') = QueueLeft(apcs)
    BY <1>24 DEF PayloadCollect
  <2>3. Flags' = Flags
    BY <1>24 DEF PayloadCollect, Flags
  <2> QED
    BY <1>p, <1>q, <1>r, <2>1, <2>2, <2>3 DEF Work
<1>25. CASE PayloadSend
  <2>1. PayloadLeft(ppc') = PayloadLeft(ppc) - 1
    BY <1>25, PayloadCounts DEF PayloadSend
  <2>2. WorkerLeft(wpc') = WorkerLeft(wpc) /\ LoopLeft(lpc') = LoopLeft(lpc) /\ QueueLeft(apcs') = QueueLeft(apcs)
    BY <1>25 DEF PayloadSend
  <2>3. Flags' = Flags
    BY <1>25 DEF PayloadSend, Flags
  <2> QED
    BY <1>p, <1>q, <1>r, <2>1, <2>2, <2>3 DEF Work
<1> QED
  BY <1>1, <1>2, <1>3, <1>4, <1>5, <1>6, <1>7, <1>8, <1>9, <1>10, <1>11, <1>12, <1>13, <1>14, <1>15, <1>16, <1>17, <1>18, <1>19, <1>20, <1>21, <1>22, <1>23, <1>24, <1>25 DEF Next, Worker, Loop, Payload

(* Every step keeps it. *)
LEMMA AwaitedStep == TypeOK /\ Awaited /\ [Next]_vars => Awaited'
<1> SUFFICES ASSUME TypeOK, Awaited, [Next]_vars PROVE Awaited'
  OBVIOUS
<1> USE FoldersAssumption DEF disk, commanded, object, loop, trees, client, Awaited
<1>c. CASE UNCHANGED vars
  BY <1>c DEF vars, Started, Stopped, Asleep
<1>d. crashed = "no" \/ UNCHANGED vars
  BY DEF Next
<1>e. apcs \in Seq(Apcs) /\ (lpc \in {"none", "new", "ended"} => read = None)
  BY DEF TypeOK, TypeLoop
<1>f. \A a \in Apcs : Append(apcs, a) # << >>
  <2>1. \A a \in Apcs : Len(Append(apcs, a)) = Len(apcs) + 1 /\ Len(apcs) \in Nat
    BY <1>e
  <2> SUFFICES ASSUME NEW a \in Apcs, Append(apcs, a) = << >> PROVE FALSE
    OBVIOUS
  <2>2. Len(Append(apcs, a)) = Len(<< >>)
    BY Zenon
  <2>3. Len(<< >>) = 0
    OBVIOUS
  <2>4. Len(apcs) + 1 = 0
    BY <2>1, <2>2, <2>3, Zenon
  <2> QED
    BY <2>1, <2>4
<1>a. ASSUME NEW f \in Folders, ResetWorkFolder(f) PROVE Awaited'
  BY <1>a DEF ResetWorkFolder, Started, Stopped, Asleep
<1>b. ASSUME NEW f \in Folders, NEW deleted \in BOOLEAN, Remove(f, deleted) PROVE Awaited'
  <2>1. Started'
    BY <1>b, <1>e DEF Remove, Started
  <2>2. Stopped'
    BY <1>b, <1>f DEF Remove, Stopped, Apcs
  <2>3. Asleep'
    BY <1>b, <1>e DEF Remove, Asleep
  <2> QED
    BY <2>1, <2>2, <2>3
<1>1. CASE WorkerWake
  <2>1. Started'
    BY <1>1, <1>d, <1>e DEF WorkerWake, Started, Stopped, Asleep
  <2>2. Stopped'
    BY <1>1, <1>d, <1>e DEF WorkerWake, Started, Stopped, Asleep
  <2>3. Asleep'
    BY <1>1, <1>d, <1>e DEF WorkerWake, Started, Stopped, Asleep
  <2> QED
    BY <2>1, <2>2, <2>3
<1>2. CASE StopTest
  <2>1. Started'
    BY <1>2, <1>d, <1>e DEF StopTest, Started, Stopped, Asleep
  <2>2. Stopped'
    BY <1>2, <1>d, <1>e DEF StopTest, Started, Stopped, Asleep
  <2>3. Asleep'
    BY <1>2, <1>d, <1>e DEF StopTest, Started, Stopped, Asleep
  <2> QED
    BY <2>1, <2>2, <2>3
<1>3. CASE StopLower
  <2>1. Started'
    BY <1>3, <1>d, <1>e DEF StopLower, Started, Stopped, Asleep
  <2>2. Stopped'
    BY <1>3, <1>d, <1>e DEF StopLower, Started, Stopped, Asleep
  <2>3. Asleep'
    BY <1>3, <1>d, <1>e DEF StopLower, Started, Stopped, Asleep
  <2> QED
    BY <2>1, <2>2, <2>3
<1>4. CASE StopRouse
  <2>1. Started'
    BY <1>4, <1>d, <1>e, <1>f DEF StopRouse, Started, Stopped, Asleep, Apcs
  <2>2. Stopped'
    BY <1>4, <1>d, <1>e, <1>f DEF StopRouse, Started, Stopped, Asleep, Apcs
  <2>3. Asleep'
    BY <1>4, <1>d, <1>e, <1>f DEF StopRouse, Started, Stopped, Asleep, Apcs
  <2> QED
    BY <2>1, <2>2, <2>3
<1>5. CASE StopJoin
  <2>1. Started'
    BY <1>5, <1>d, <1>e DEF StopJoin, Started, Stopped, Asleep
  <2>2. Stopped'
    BY <1>5, <1>d, <1>e DEF StopJoin, Started, Stopped, Asleep
  <2>3. Asleep'
    BY <1>5, <1>d, <1>e DEF StopJoin, Started, Stopped, Asleep
  <2> QED
    BY <2>1, <2>2, <2>3
<1>6. CASE SetFolder
  <2>1. Started'
    BY <1>6, <1>d, <1>e DEF SetFolder, Started, Stopped, Asleep
  <2>2. Stopped'
    BY <1>6, <1>d, <1>e DEF SetFolder, Started, Stopped, Asleep
  <2>3. Asleep'
    BY <1>6, <1>d, <1>e DEF SetFolder, Started, Stopped, Asleep
  <2> QED
    BY <2>1, <2>2, <2>3
<1>7. ASSUME NEW ok \in BOOLEAN, OpenHandle(ok) PROVE Awaited'
  <2>1. Started'
    BY <1>7, <1>d, <1>e DEF OpenHandle, Started, Stopped, Asleep
  <2>2. Stopped'
    BY <1>7, <1>d, <1>e DEF OpenHandle, Started, Stopped, Asleep
  <2>3. Asleep'
    BY <1>7, <1>d, <1>e DEF OpenHandle, Started, Stopped, Asleep
  <2> QED
    BY <2>1, <2>2, <2>3
<1>8. CASE TakeTree
  <2>1. Started'
    BY <1>8, <1>d, <1>e DEF TakeTree, Started, Stopped, Asleep
  <2>2. Stopped'
    BY <1>8, <1>d, <1>e DEF TakeTree, Started, Stopped, Asleep
  <2>3. Asleep'
    BY <1>8, <1>d, <1>e DEF TakeTree, Started, Stopped, Asleep
  <2> QED
    BY <2>1, <2>2, <2>3
<1>9. CASE StartThread
  <2>1. Started'
    BY <1>9, <1>d, <1>e DEF StartThread, Started, Stopped, Asleep
  <2>2. Stopped'
    BY <1>9, <1>d, <1>e DEF StartThread, Started, Stopped, Asleep
  <2>3. Asleep'
    BY <1>9, <1>d, <1>e DEF StartThread, Started, Stopped, Asleep
  <2> QED
    BY <2>1, <2>2, <2>3
<1>10. CASE StartAwait
  <2>1. Started'
    BY <1>10, <1>d, <1>e DEF StartAwait, Started, Stopped, Asleep
  <2>2. Stopped'
    BY <1>10, <1>d, <1>e DEF StartAwait, Started, Stopped, Asleep
  <2>3. Asleep'
    BY <1>10, <1>d, <1>e DEF StartAwait, Started, Stopped, Asleep
  <2> QED
    BY <2>1, <2>2, <2>3
<1>11. CASE StartQueue
  <2>1. Started'
    BY <1>11, <1>d, <1>e, <1>f DEF StartQueue, Started, Stopped, Asleep, Apcs
  <2>2. Stopped'
    BY <1>11, <1>d, <1>e, <1>f DEF StartQueue, Started, Stopped, Asleep, Apcs
  <2>3. Asleep'
    BY <1>11, <1>d, <1>e, <1>f DEF StartQueue, Started, Stopped, Asleep, Apcs
  <2> QED
    BY <2>1, <2>2, <2>3
<1>12. CASE LoopBegin
  <2>1. Started'
    BY <1>12, <1>d, <1>e DEF LoopBegin, Started, Stopped, Asleep
  <2>2. Stopped'
    BY <1>12, <1>d, <1>e DEF LoopBegin, Started, Stopped, Asleep
  <2>3. Asleep'
    BY <1>12, <1>d, <1>e DEF LoopBegin, Started, Stopped, Asleep
  <2> QED
    BY <2>1, <2>2, <2>3
<1>13. ASSUME NEW ok \in BOOLEAN, RunWatch(ok) PROVE Awaited'
  <2>1. Started'
    BY <1>13, <1>d, <1>e DEF RunWatch, Runs, Watch, Started, Stopped, Asleep
  <2>2. Stopped'
    BY <1>13, <1>d, <1>e DEF RunWatch, Runs, Watch, Started, Stopped, Asleep
  <2>3. Asleep'
    BY <1>13, <1>d, <1>e DEF RunWatch, Runs, Watch, Started, Stopped, Asleep
  <2> QED
    BY <2>1, <2>2, <2>3
<1>14. CASE RunWake
  <2>1. Started'
    BY <1>14, <1>d, <1>e DEF RunWake, Runs, Started, Stopped, Asleep
  <2>2. Stopped'
    BY <1>14, <1>d, <1>e DEF RunWake, Runs, Started, Stopped, Asleep
  <2>3. Asleep'
    BY <1>14, <1>d, <1>e DEF RunWake, Runs, Started, Stopped, Asleep
  <2> QED
    BY <2>1, <2>2, <2>3
<1>15. CASE RunError
  <2>1. Started'
    BY <1>15, <1>d, <1>e DEF RunError, Runs, Started, Stopped, Asleep
  <2>2. Stopped'
    <3>2. CASE wpc \in {"rouse", "join", "set", "open", "reset", "keep"}
      <4>1. ~running
        BY <3>2 DEF Stopped
      <4>2. UNCHANGED <<wpc, running>> /\ lpc' = "drain"
        BY <1>15, <4>1 DEF RunError, Runs
      <4> QED
        BY <4>1, <4>2 DEF Stopped
    <3>3. CASE wpc \notin {"rouse", "join", "set", "open", "reset", "keep"}
      BY <1>15, <1>e, <3>3 DEF RunError, Runs, Stopped
    <3> QED
      BY <3>2, <3>3
  <2>3. Asleep'
    BY <1>15, <1>d, <1>e DEF RunError, Runs, Started, Stopped, Asleep
  <2> QED
    BY <2>1, <2>2, <2>3
<1>16. ASSUME NEW ok \in BOOLEAN, RunDone(ok) PROVE Awaited'
  <2>1. Started'
    BY <1>16, <1>d, <1>e DEF RunDone, Runs, Watch, Started, Stopped, Asleep
  <2>2. Stopped'
    BY <1>16, <1>d, <1>e DEF RunDone, Runs, Watch, Started, Stopped, Asleep
  <2>3. Asleep'
    BY <1>16, <1>d, <1>e DEF RunDone, Runs, Watch, Started, Stopped, Asleep
  <2> QED
    BY <2>1, <2>2, <2>3
<1>17. CASE Parse
  BY <1>17, <1>d DEF Parse, Started, Stopped, Asleep
<1>18. CASE Notify
  BY <1>18, <1>d DEF Notify, Started, Stopped, Asleep
<1>19. CASE LoopReturn
  BY <1>19, <1>d DEF LoopReturn, Started, Stopped, Asleep
<1>20. CASE LoopTest
  <2>1. Started'
    BY <1>20, <1>d, <1>e DEF LoopTest, Started, Stopped, Asleep
  <2>2. Stopped'
    BY <1>20, <1>d, <1>e DEF LoopTest, Started, Stopped, Asleep
  <2>3. Asleep'
    BY <1>20, <1>d, <1>e DEF LoopTest, Started, Stopped, Asleep
  <2> QED
    BY <2>1, <2>2, <2>3
<1>21. CASE Dispatch
  BY <1>21, <1>d DEF Dispatch, Started, Stopped, Asleep
<1>22. CASE AnswerFolder
  BY <1>22, <1>d DEF AnswerFolder, Started, Stopped, Asleep
<1>23. CASE PayloadTree
  BY <1>23, <1>d DEF PayloadTree, Started, Stopped, Asleep
<1>24. CASE PayloadCollect
  BY <1>24, <1>d DEF PayloadCollect, Started, Stopped, Asleep
<1>25. CASE PayloadSend
  BY <1>25, <1>d DEF PayloadSend, Started, Stopped, Asleep
<1>26. CASE CreateFile
  <2>1. Started'
    BY <1>26, <1>d, <1>e, <1>f DEF CreateFile, Started, Stopped, Asleep, Apcs
  <2>2. Stopped'
    BY <1>26, <1>d, <1>e, <1>f DEF CreateFile, Started, Stopped, Asleep, Apcs
  <2>3. Asleep'
    BY <1>26, <1>d, <1>e, <1>f DEF CreateFile, Started, Stopped, Asleep, Apcs
  <2> QED
    BY <2>1, <2>2, <2>3
<1> QED
  BY <1>a, <1>b, <1>c, <1>1, <1>2, <1>3, <1>4, <1>5, <1>6, <1>7, <1>8, <1>9, <1>10, <1>11, <1>12, <1>13, <1>14, <1>15, <1>16, <1>17, <1>18, <1>19, <1>20, <1>21, <1>22, <1>23, <1>24, <1>25, <1>26 DEF Next, Outside, Worker, Loop, Payload

LEMMA AwaitedInit == Init => Awaited
  BY FoldersAssumption DEF Init, Awaited, Started, Stopped, Asleep

(* While the worker joins, running is lowered and no read is issued. *)
LEMMA JoinLoop ==
  ASSUME TypeOK, TypeOK', Stopped, wpc = "join", wpc' = "join", crashed = "no", crashed' = "no", Loop \/ Dispatch
  PROVE  JoinLeft' < JoinLeft
<1> DEFINE ReadLeft == IF read # None THEN 10 ELSE 0
           Owed == IF due THEN 4 ELSE 0
<1>p. /\ LoopLeft(lpc) \in Nat /\ QueueLeft(apcs) \in Nat /\ ReadLeft \in Nat /\ Owed \in Nat
      /\ JoinLeft = LoopLeft(lpc) + QueueLeft(apcs) + ReadLeft + Owed
  BY WorkTyped DEF JoinLeft
<1>q. /\ LoopLeft(lpc') \in Nat /\ QueueLeft(apcs') \in Nat /\ ReadLeft' \in Nat /\ Owed' \in Nat
      /\ JoinLeft' = LoopLeft(lpc') + QueueLeft(apcs') + ReadLeft' + Owed'
  BY LoopCounts, QueueCounts DEF JoinLeft, TypeOK, TypeLoop
<1>r. ~running /\ apcs \in Seq(Apcs)
  BY DEF Stopped, TypeOK, TypeLoop
<1> USE DEF disk, commanded, object, loop, trees, client
<1>1. CASE Dispatch
  <2>1. Owed' = Owed - 4
    BY <1>1 DEF Dispatch
  <2>2. lpc' = lpc /\ apcs' = apcs /\ read' = read
    BY <1>1 DEF Dispatch
  <2>3. LoopLeft(lpc') = LoopLeft(lpc) /\ QueueLeft(apcs') = QueueLeft(apcs) /\ ReadLeft' = ReadLeft
    BY <2>2
  <2> HIDE DEF Owed, ReadLeft
  <2> QED
    BY <1>p, <1>q, <2>1, <2>3
<1>2. CASE LoopBegin
  <2>1. LoopLeft(lpc') = LoopLeft(lpc) - 1
    BY <1>2, LoopCounts DEF LoopBegin
  <2>2. QueueLeft(apcs') = QueueLeft(apcs) /\ ReadLeft' = ReadLeft /\ Owed' = Owed
    BY <1>2 DEF LoopBegin
  <2> HIDE DEF Owed, ReadLeft
  <2> QED
    BY <1>p, <1>q, <2>1, <2>2
<1>3. CASE RunWake \/ \E ok \in BOOLEAN : RunWatch(ok)
  <2>1. LoopLeft(lpc') <= LoopLeft(lpc) + 2
    BY <1>3, LoopCounts DEF RunWake, RunWatch, Runs
  <2>2. QueueLeft(apcs') = QueueLeft(apcs) - 9
    BY <1>3, <1>r, QueueCounts DEF RunWake, RunWatch, Runs
  <2>3. read' = read /\ due' = due
    BY <1>3, <1>r DEF RunWake, RunWatch, Runs, Watch
  <2>4. ReadLeft' = ReadLeft /\ Owed' = Owed
    BY <2>3
  <2> HIDE DEF Owed, ReadLeft
  <2> QED
    BY <1>p, <1>q, <2>1, <2>2, <2>4
<1>4. CASE RunError
  <2>1. lpc \in {"sleep", "drain"} /\ lpc' = "drain" /\ read' = read /\ due' = due
    BY <1>4, <1>r DEF RunError, Runs
  <2>2. LoopLeft(lpc') <= LoopLeft(lpc) + 2
    BY <2>1, LoopCounts
  <2>3. QueueLeft(apcs') = QueueLeft(apcs) - 9
    BY <1>4, <1>r, QueueCounts DEF RunError, Runs
  <2>4. ReadLeft' = ReadLeft /\ Owed' = Owed
    BY <2>1
  <2> HIDE DEF Owed, ReadLeft
  <2> QED
    BY <1>p, <1>q, <2>2, <2>3, <2>4
<1>5. CASE \E ok \in BOOLEAN : RunDone(ok)
  <2>1. LoopLeft(lpc') <= LoopLeft(lpc) + 8
    BY <1>5, LoopCounts DEF RunDone, Runs
  <2>2. QueueLeft(apcs') = QueueLeft(apcs) - 9
    BY <1>5, <1>r, QueueCounts DEF RunDone, Runs
  <2>3. read' = read /\ due' = due
    BY <1>5, <1>r DEF RunDone, Runs, Watch
  <2>4. ReadLeft' = ReadLeft /\ Owed' = Owed
    BY <2>3
  <2> HIDE DEF Owed, ReadLeft
  <2> QED
    BY <1>p, <1>q, <2>1, <2>2, <2>4
<1>6. CASE Parse
  <2>1. lpc = "parse" /\ lpc' \in {"post", "drain"}
    BY <1>6 DEF Parse
  <2>2. LoopLeft(lpc') <= LoopLeft(lpc) - 1
    BY <2>1, LoopCounts
  <2>3. QueueLeft(apcs') = QueueLeft(apcs) /\ ReadLeft' = ReadLeft /\ Owed' = Owed
    BY <1>6 DEF Parse
  <2> HIDE DEF Owed, ReadLeft
  <2> QED
    BY <1>p, <1>q, <2>2, <2>3
<1>7. CASE Notify
  <2>1. LoopLeft(lpc') = LoopLeft(lpc) - 5
    BY <1>7, LoopCounts DEF Notify
  <2>2. QueueLeft(apcs') = QueueLeft(apcs) /\ ReadLeft' = ReadLeft
    BY <1>7 DEF Notify
  <2>3. Owed' <= Owed + 4
    <3>1. CASE tree \in holds
      BY <1>7, <3>1 DEF Notify
    <3>2. CASE tree \notin holds
      BY <1>7, <3>2 DEF Notify
    <3> QED
      BY <3>1, <3>2
  <2> HIDE DEF Owed, ReadLeft
  <2> QED
    BY <1>p, <1>q, <2>1, <2>2, <2>3
<1>8. CASE LoopReturn
  <2>1. LoopLeft(lpc') = LoopLeft(lpc) - 1
    BY <1>8, LoopCounts DEF LoopReturn
  <2>2. QueueLeft(apcs') = QueueLeft(apcs) /\ ReadLeft' = ReadLeft /\ Owed' = Owed
    BY <1>8 DEF LoopReturn
  <2> HIDE DEF Owed, ReadLeft
  <2> QED
    BY <1>p, <1>q, <2>1, <2>2
<1>9. CASE LoopTest
  <2>1. LoopLeft(lpc') = LoopLeft(lpc) - 1
    BY <1>9, LoopCounts DEF LoopTest
  <2>2. QueueLeft(apcs') <= QueueLeft(apcs)
    BY <1>9, <1>p, <1>q, QueueCounts DEF LoopTest
  <2>3. ReadLeft' <= ReadLeft /\ Owed' = Owed
    BY <1>9 DEF LoopTest
  <2> HIDE DEF Owed, ReadLeft
  <2> QED
    BY <1>p, <1>q, <2>1, <2>2, <2>3
<1> QED
  BY <1>1, <1>2, <1>3, <1>4, <1>5, <1>6, <1>7, <1>8, <1>9 DEF Loop

LEMMA JoinStep ==
  ASSUME TypeOK, TypeOK', Stopped, wpc = "join", wpc' = "join", crashed' = "no", [Next]_vars
  PROVE  JoinLeft' <= JoinLeft /\ (Loop \/ Dispatch => JoinLeft' < JoinLeft)
<1> DEFINE ReadLeft == IF read # None THEN 10 ELSE 0
           Owed == IF due THEN 4 ELSE 0
<1>p. /\ LoopLeft(lpc) \in Nat /\ QueueLeft(apcs) \in Nat /\ ReadLeft \in Nat /\ Owed \in Nat
      /\ JoinLeft = LoopLeft(lpc) + QueueLeft(apcs) + ReadLeft + Owed
  BY WorkTyped DEF JoinLeft
<1>q. /\ LoopLeft(lpc') \in Nat /\ QueueLeft(apcs') \in Nat /\ ReadLeft' \in Nat /\ Owed' \in Nat
      /\ JoinLeft' = LoopLeft(lpc') + QueueLeft(apcs') + ReadLeft' + Owed'
  BY LoopCounts, QueueCounts DEF JoinLeft, TypeOK, TypeLoop
<1>c. crashed = "no"
  BY DEF Next, vars
<1>l. Loop \/ Dispatch => JoinLeft' < JoinLeft
  BY <1>c, JoinLoop
<1> SUFFICES ASSUME ~(Loop \/ Dispatch) PROVE JoinLeft' <= JoinLeft
  <2>1. JoinLeft \in Nat /\ JoinLeft' \in Nat
    <3> HIDE DEF Owed, ReadLeft
    <3> QED
      BY <1>p, <1>q
  <2> QED
    BY <1>l, <2>1
<1> USE DEF disk, commanded, object, loop, trees, client
<1>1. CASE UNCHANGED <<lpc, apcs, read, due>>
  <2>1. LoopLeft(lpc') = LoopLeft(lpc) /\ QueueLeft(apcs') = QueueLeft(apcs) /\ ReadLeft' = ReadLeft /\ Owed' = Owed
    BY <1>1
  <2> HIDE DEF Owed, ReadLeft
  <2> QED
    BY <1>p, <1>q, <2>1
<1>2. CASE /\ UNCHANGED <<lpc, due>>
           /\ read # None /\ read' = None
           /\ \E a \in Apcs : apcs' = Append(apcs, a)
  <2>1. QueueLeft(apcs') = QueueLeft(apcs) + 9
    BY <1>2, QueueCounts DEF TypeOK, TypeLoop
  <2>2. ReadLeft = 10 /\ ReadLeft' = 0
    BY <1>2
  <2>3. LoopLeft(lpc') = LoopLeft(lpc) /\ Owed' = Owed
    BY <1>2
  <2> HIDE DEF Owed, ReadLeft
  <2> QED
    BY <1>p, <1>q, <2>1, <2>2, <2>3
<1>3. CASE CreateFile
  BY <1>2, <1>3 DEF CreateFile, Apcs
<1>4. ASSUME NEW f \in Folders, ResetWorkFolder(f) PROVE JoinLeft' <= JoinLeft
  BY <1>1, <1>4 DEF ResetWorkFolder
<1>5. ASSUME NEW f \in Folders, NEW deleted \in BOOLEAN, Remove(f, deleted) PROVE JoinLeft' <= JoinLeft
  <2>1. f # None
    BY FoldersAssumption
  <2>2. CASE deleted /\ read = f
    BY <1>2, <1>5, <2>1, <2>2 DEF Remove, Apcs
  <2>3. CASE ~(deleted /\ read = f)
    BY <1>1, <1>5, <2>3 DEF Remove
  <2> QED
    BY <2>2, <2>3
<1>6. ~Worker
  BY DEF Worker, WorkerWake, StopTest, StopLower, StopRouse, StopJoin, SetFolder, OpenHandle, TakeTree,
         StartThread, StartAwait, StartQueue
<1>7. CASE AnswerFolder \/ Payload
  BY <1>1, <1>7 DEF AnswerFolder, Payload, PayloadTree, PayloadCollect, PayloadSend
<1>8. CASE UNCHANGED vars
  BY <1>1, <1>8 DEF vars
<1> QED
  BY <1>3, <1>4, <1>5, <1>6, <1>7, <1>8 DEF Next, Outside

(* The work left is a natural number that every step of the process lowers, *)
(* for any folders and any queue of APCs.                                   *)
THEOREM WorkIsFinite == Spec => WorkRunsOut
<1>1. TypeOK => Work \in Nat
  BY WorkTyped DEF Work
<1>2. TypeOK /\ TypeOK' /\ [Next]_vars => [Outside \/ Work' < Work]_vars
  BY WorkStep
<1> QED
  BY <1>1, <1>2, TypeCorrect, PTL DEF Spec, WorkRunsOut

(* The join in folder_watchor_apc::stop is bounded, for any number of files *)
(* that appear and folders that disappear while it waits.                   *)
THEOREM JoinIsFinite == Spec => JoinIsBounded
<1>1. Spec => []Awaited
  BY InitTypes, TypeStep, AwaitedInit, AwaitedStep, PTL DEF Spec
<1>2. TypeOK => JoinLeft \in Nat
  <2> SUFFICES ASSUME TypeOK PROVE JoinLeft \in Nat
    OBVIOUS
  <2>1. LoopLeft(lpc) \in Nat /\ QueueLeft(apcs) \in Nat
    BY WorkTyped
  <2> QED
    BY <2>1 DEF JoinLeft
<1>3. TypeOK /\ TypeOK' /\ Awaited /\ [Next]_vars =>
        [wpc = "join" /\ wpc' = "join" /\ crashed' = "no" =>
           JoinLeft' <= JoinLeft /\ (Loop \/ Dispatch => JoinLeft' < JoinLeft)]_vars
  BY JoinStep DEF Awaited
<1> QED
  BY <1>1, <1>2, <1>3, TypeCorrect, PTL DEF Spec, JoinIsBounded

(* A worker that restarts the watcher is never left waiting: the thread it  *)
(* joins has its APC to wake on, and the thread it starts raises the signal.*)
THEOREM RestartsGoOn == Spec => []RestartGoesOn
<1>1. Spec => []Awaited
  BY InitTypes, TypeStep, AwaitedInit, AwaitedStep, PTL DEF Spec
<1>2. TypeOK /\ Awaited => RestartGoesOn
  <2> SUFFICES ASSUME TypeOK, Awaited, crashed = "no", wpc # "idle", ~LoopGoes, ~due PROVE WorkerGoes
    BY DEF RestartGoesOn
  <2>1. lpc \in {"none", "ended", "sleep"} /\ (lpc = "sleep" => apcs = << >>)
    BY DEF TypeOK, TypeLoop, LoopGoes
  <2>2. wpc # "join" \/ lpc = "ended"
    BY <2>1 DEF Awaited, Stopped
  <2>3. wpc # "await" \/ signal
    BY <2>1 DEF Awaited, Started
  <2> QED
    BY <2>2, <2>3 DEF TypeOK, TypeWorker, WorkerGoes
<1> QED
  BY <1>1, <1>2, TypeCorrect, PTL

(* At rest the worker sleeps, and a running watcher has a loop thread that  *)
(* waits for its folder.                                                    *)
THEOREM RestIsSleep == Spec => []RestsAsleep
<1>1. Spec => []Awaited
  BY InitTypes, TypeStep, AwaitedInit, AwaitedStep, PTL DEF Spec
<1>2. TypeOK /\ Awaited => RestsAsleep
  <2> SUFFICES ASSUME TypeOK, Awaited, crashed = "no", Still PROVE RestsAsleep
    BY DEF RestsAsleep
  <2>1. lpc \in {"none", "ended", "sleep", "post"} /\ (lpc = "sleep" => apcs = << >>) /\ lpc # "post"
    BY DEF TypeOK, TypeLoop, Still, LoopGoes
  <2>2. apcs = << >>
    BY <2>1 DEF Awaited, Asleep
  <2>3. wpc \notin {"await", "join"}
    BY <2>1 DEF Still, WorkerGoes, Awaited, Started, Stopped
  <2>4. wpc = "idle" /\ ~woken
    BY <2>3 DEF TypeOK, TypeWorker, Still, WorkerGoes
  <2>5. running <=> lpc = "sleep"
    BY <2>1, <2>4 DEF Awaited, Asleep
  <2> QED
    BY <2>1, <2>2, <2>4, <2>5 DEF RestsAsleep
<1> QED
  BY <1>1, <1>2, TypeCorrect, PTL

==============================================================================
