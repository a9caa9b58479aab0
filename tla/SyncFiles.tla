------------------------------ MODULE SyncFiles ------------------------------
(***************************************************************************)
(* What a synchronisation uploads.  The message thread answers a tree-info *)
(* request and leaves in the client the folder and the list of entries to  *)
(* ignore that came with it; the synfile thread reads the latest folder    *)
(* from the registry, puts it in the same place, lists its tree without    *)
(* those entries and uploads every file of the list; the command thread    *)
(* changes the latest folder.  No lock covers _sync_path and _sync_igonres *)
(* (the code's spelling).                                                  *)
(*                                                                         *)
(* How the requests reach the two threads is the matter of MessagePath.    *)
(* Its proofs are read beside that module's: no name is in both.           *)
(* The tree of a folder is one directory with its files and some files     *)
(* beside it.  A read or a copy that meets a write may see anything and    *)
(* may end the process.                                                    *)
(***************************************************************************)
EXTENDS Naturals, FiniteSets, TLC

CONSTANTS
  Folders, NoFolder,
  Dir,            \* the directory in each folder
  Inner, Outer,   \* names of the files in it and beside it
  Wide,           \* names that std::string to fs::path does not carry over (not in the ANSI code page)
  MaxRequests,    \* bound: tree-info requests
  MaxIgnores,     \* bound: entries that a request ignores
  MaxSyncs,       \* bound: requests to synchronise
  MaxSwitches     \* bound: changes of the latest folder

ASSUME NamesAssumption ==
  /\ Dir \notin Inner \cup Outer /\ Inner \cap Outer = {} /\ "mangled" \notin {Dir} \cup Inner \cup Outer
  /\ NoFolder \notin Folders /\ "torn" \notin Folders
ASSUME SyncBoundsAssumption ==
  {MaxRequests, MaxIgnores, MaxSyncs, MaxSwitches} \subseteq Nat

Names == {Dir} \cup Inner \cup Outer
Entries == Folders \X Names
FilesOf(f) == {f} \X (Inner \cup Outer)
IsDir(e) == e[2] = Dir
Under(e) == IF IsDir(e) THEN {e[1]} \X Inner ELSE {}

(* fs::path made of a narrow string. *)
Narrow(e) == IF e[2] \in Wide THEN <<e[1], "mangled">> ELSE e

VARIABLES
  latest,         \* the registry value
  syncPath,       \* _sync_path
  ignores,        \* _sync_igonres
  infopc, mreq, todo,  \* the message thread; todo: what it has still to push
  flag,           \* _synfile_signal
  syncpc, folder,    \* the synfile thread; folder: what it read from the registry
  pending, tree,  \* get_dirtree_paths: entries to come to, and the list so far
  crashed,
  requests, calls, switches,
  agreed,         \* history: what the last tree-info request asked to ignore
  shun,           \* history: that, when the list was complete
  uploaded, trouble  \* history: of the last synchronisation

NoRequest == [folder |-> NoFolder, ignores |-> {}]

info == <<infopc, mreq, todo, requests, agreed>>
walk == <<pending, tree, shun>>
synvars == <<syncpc, folder, walk, uploaded, trouble>>

syncVars == <<latest, switches, syncPath, ignores, info, flag, calls, synvars, crashed>>

SyncInit ==
  /\ latest \in Folders \cup {NoFolder}
  /\ syncPath = NoFolder /\ ignores = {}
  /\ infopc = "wait" /\ mreq = NoRequest /\ todo = {}
  /\ flag \in BOOLEAN           \* stop_threads of an earlier connection may have left it up
  /\ syncpc = "wait" /\ folder = NoFolder /\ pending = {} /\ tree = {}
  /\ crashed = FALSE
  /\ requests = 0 /\ calls = 0 /\ switches = 0
  /\ agreed = {} /\ shun = {} /\ uploaded = {} /\ trouble = {}

Raced(when) == IF when THEN {"raced"} ELSE {}

-----------------------------------------------------------------------------
(* Slips used to check that the properties bite. *)
SwapKept == \* the old list is kept
  /\ infopc = "swap" /\ infopc' = "fill"
  /\ agreed' = mreq.ignores
  /\ trouble' = trouble \cup Raced(syncpc = "walk")
  /\ UNCHANGED <<latest, switches, syncPath, ignores, mreq, todo, requests, flag, calls, syncpc, folder, walk,
                 uploaded, crashed>>

PushIgnoreBare(e) == \* without its folder
  /\ infopc = "fill" /\ e \in todo
  /\ todo' = todo \ {e}
  /\ ignores' = ignores \cup {<<NoFolder, e[2]>>}
  /\ UNCHANGED <<latest, switches, syncPath, infopc, mreq, requests, agreed, flag, calls, synvars, crashed>>

VisitDescending(e) == \* continue without disable_recursion_pending
  LET ignored == e \in ignores IN
  /\ syncpc = "walk" /\ e \in pending
  /\ pending' = (pending \ {e}) \cup Under(e)
  /\ tree' = IF ignored THEN tree ELSE tree \cup {e}
  /\ trouble' = trouble \cup Raced(infopc = "fill" /\ todo # {})
  /\ UNCHANGED <<latest, switches, syncPath, ignores, info, flag, calls, syncpc, folder, shun, uploaded,
                 crashed>>

-----------------------------------------------------------------------------
(* The command thread: save_latest_folder. *)
SaveLatestFolder(f) ==
  /\ switches < MaxSwitches /\ switches' = switches + 1
  /\ latest' = f
  /\ UNCHANGED <<syncPath, ignores, info, flag, calls, synvars, crashed>>

-----------------------------------------------------------------------------
(* The message thread: message_response, tree-info. *)

(* A request; the assignment of _sync_path begins. *)
TreeInfo(f, ign) ==
  /\ infopc = "wait"
  /\ requests < MaxRequests /\ requests' = requests + 1
  /\ mreq' = [folder |-> f, ignores |-> ign] /\ todo' = ign
  /\ infopc' = "path"
  /\ UNCHANGED <<latest, switches, syncPath, ignores, agreed, flag, calls, synvars, crashed>>

(* ... and ends. *)
SetSyncPath ==
  LET clash == syncpc = "store" \/ syncPath = "torn" IN
  /\ infopc = "path" /\ infopc' = "swap"
  /\ syncPath' \in {mreq.folder} \cup (IF clash THEN {"torn"} ELSE {})
  /\ trouble' = trouble \cup Raced(syncpc \in {"store", "open"})
  /\ UNCHANGED <<latest, switches, ignores, mreq, todo, requests, agreed, flag, calls, syncpc, folder, walk,
                 uploaded, crashed>>

SwapIgnores ==
  /\ infopc = "swap" /\ infopc' = "fill"
  /\ ignores' = {}
  /\ agreed' = mreq.ignores
  /\ trouble' = trouble \cup Raced(syncpc = "walk")
  /\ UNCHANGED <<latest, switches, syncPath, mreq, todo, requests, flag, calls, syncpc, folder, walk,
                 uploaded, crashed>>

(* push_back of the narrow string. *)
PushIgnore(e) ==
  /\ infopc = "fill" /\ e \in todo
  /\ todo' = todo \ {e}
  /\ ignores' = ignores \cup {Narrow(e)}
  /\ trouble' = trouble \cup Raced(syncpc = "walk")
  /\ UNCHANGED <<latest, switches, syncPath, infopc, mreq, requests, agreed, flag, calls, syncpc, folder,
                 walk, uploaded, crashed>>

(* get_dirtree_info works on copies of its own; when the directory iterator *)
(* throws nothing catches.                                                  *)
TreeInfoDone ==
  /\ infopc = "fill" /\ todo = {}
  /\ infopc' = "wait" /\ mreq' = NoRequest
  /\ crashed' \in BOOLEAN
  /\ UNCHANGED <<latest, switches, syncPath, ignores, todo, requests, agreed, flag, calls, synvars>>

-----------------------------------------------------------------------------
(* The synfile thread: sync_files. *)

NotifySynfiles ==
  /\ calls < MaxSyncs /\ calls' = calls + 1
  /\ flag' = TRUE
  /\ UNCHANGED <<latest, switches, syncPath, ignores, info, synvars, crashed>>

(* The wake-up and the registry, which may not be readable; then, 50 ms     *)
(* later, the assignment of _sync_path.                                     *)
SynfileWake(read) ==
  /\ syncpc = "wait" /\ flag /\ flag' = FALSE
  /\ folder' = IF read THEN latest ELSE NoFolder
  /\ uploaded' = {} /\ tree' = {} /\ pending' = {} /\ shun' = {}
  /\ trouble' = IF folder' = NoFolder THEN {"no folder"} ELSE {}
  /\ syncpc' = "store"
  /\ UNCHANGED <<latest, switches, syncPath, ignores, info, calls, crashed>>

StoreSyncPath ==
  LET clash == infopc = "path" \/ syncPath = "torn" IN
  /\ syncpc = "store" /\ syncpc' = "open"
  /\ syncPath' \in {folder} \cup (IF clash THEN {"torn"} ELSE {})
  /\ trouble' = trouble \cup Raced(clash)
  /\ UNCHANGED <<latest, switches, ignores, info, flag, calls, folder, walk, uploaded, crashed>>

(* get_dirtree_paths looks at the root, which tree-info may have changed.   *)
(* Without a root the list is empty; a root that cannot be listed throws.   *)
OpenTree ==
  LET torn == infopc = "path" \/ syncPath = "torn" IN
  /\ syncpc = "open"
  /\ \E root \in (IF torn THEN Folders \cup {NoFolder} ELSE {syncPath}) :
       \/ root # NoFolder /\ pending' = {root} \X ({Dir} \cup Outer) /\ syncpc' = "walk"
          /\ trouble' = trouble \cup Raced(torn)
       \/ pending' = {} /\ syncpc' = "send"
          /\ trouble' = trouble \cup Raced(torn) \cup (IF root = NoFolder THEN {} ELSE {"not listed"})
  /\ crashed' \in {FALSE, torn}
  /\ UNCHANGED <<latest, switches, syncPath, ignores, info, flag, calls, folder, tree, shun, uploaded>>

(* One entry: is_include copies the list each time it is asked.             *)
Visit(e) ==
  LET ignored == e \in ignores
      writing == infopc = "swap" \/ infopc = "fill"
  IN
  /\ syncpc = "walk" /\ e \in pending
  /\ \/ /\ pending' = (pending \ {e}) \cup (IF ignored THEN {} ELSE Under(e))
        /\ tree' = IF ignored THEN tree ELSE tree \cup {e}
        /\ trouble' = trouble \cup Raced(infopc = "fill" /\ todo # {})
        /\ UNCHANGED syncpc
     \/ /\ IsDir(e) /\ ~ignored     \* a directory that cannot be opened throws
        /\ pending' = {} /\ tree' = {} /\ syncpc' = "send"
        /\ trouble' = trouble \cup {"not listed"}
  /\ crashed' \in {FALSE, writing}
  /\ UNCHANGED <<latest, switches, syncPath, ignores, info, flag, calls, folder, shun, uploaded>>

WalkDone ==
  /\ syncpc = "walk" /\ pending = {}
  /\ syncpc' = "send" /\ shun' = agreed
  /\ UNCHANGED <<latest, switches, syncPath, ignores, info, flag, calls, folder, pending, tree, uploaded,
                 trouble, crashed>>

(* publish_file: the file is sent; or it is empty, cannot be read, or its   *)
(* request fails, and is passed over; or file_size throws, because the file *)
(* is gone or is a directory, and the rest of the list is dropped.          *)
PublishFile(e) ==
  /\ syncpc = "send" /\ e \in tree
  /\ \/ /\ ~IsDir(e)
        /\ uploaded' = uploaded \cup {e} /\ tree' = tree \ {e}
        /\ UNCHANGED trouble
     \/ /\ tree' = tree \ {e}
        /\ trouble' = IF IsDir(e) THEN trouble ELSE trouble \cup {"passed over"}
        /\ UNCHANGED uploaded
     \/ /\ tree' = {}
        /\ trouble' = trouble \cup {"dropped"}
        /\ UNCHANGED uploaded
  /\ UNCHANGED <<latest, switches, syncPath, ignores, info, flag, calls, syncpc, folder, pending, shun,
                 crashed>>

SyncDone ==
  /\ syncpc = "send" /\ tree = {}
  /\ syncpc' = "wait"
  /\ UNCHANGED <<latest, switches, syncPath, ignores, info, flag, calls, folder, walk, uploaded, trouble,
                 crashed>>

-----------------------------------------------------------------------------
(* The client asks to ignore entries of the folder it asks about. *)
Requested(f) == {ign \in SUBSET ({f} \X Names) : Cardinality(ign) <= MaxIgnores}

Info == \/ \E f \in Folders : \E ign \in Requested(f) : TreeInfo(f, ign)
           \/ SetSyncPath \/ SwapIgnores \/ (\E e \in todo : PushIgnore(e)) \/ TreeInfoDone
Sync == \/ NotifySynfiles \/ (\E read \in BOOLEAN : SynfileWake(read)) \/ StoreSyncPath \/ OpenTree
           \/ (\E e \in pending : Visit(e)) \/ WalkDone \/ (\E e \in tree : PublishFile(e)) \/ SyncDone

SyncNext == ~crashed /\ (Info \/ Sync \/ \E f \in Folders : SaveLatestFolder(f))

SyncSpec == SyncInit /\ [][SyncNext]_syncVars

-----------------------------------------------------------------------------
Symmetry == Permutations(Folders)

(* Every variable has its type. *)
SyncTypeOK ==
  /\ latest \in Folders \cup {NoFolder} /\ syncPath \in Folders \cup {NoFolder, "torn"}
  /\ ignores \subseteq Entries \cup (Folders \X {"mangled"})
  /\ infopc \in {"wait", "path", "swap", "fill"}
  /\ mreq.folder \in Folders \cup {NoFolder} /\ mreq.ignores \subseteq Entries /\ todo \subseteq mreq.ignores
  /\ flag \in BOOLEAN /\ crashed \in BOOLEAN
  /\ syncpc \in {"wait", "store", "open", "walk", "send"} /\ folder \in Folders \cup {NoFolder}
  /\ pending \subseteq Entries /\ tree \subseteq Entries
  /\ requests \in 0..MaxRequests /\ calls \in 0..MaxSyncs /\ switches \in 0..MaxSwitches
  /\ agreed \subseteq Entries /\ shun \subseteq Entries
  /\ uploaded \subseteq Entries
  /\ trouble \subseteq {"raced", "no folder", "not listed", "passed over", "dropped"}

(* What the client asks to leave alone, as far as its names come through.   *)
Meant(ign) == {e \in ign : e[2] \notin Wide}
Hidden(ign) == Meant(ign) \cup UNION {Under(e) : e \in Meant(ign)}

(* A synchronisation takes its files from the folder that was the latest    *)
(* when it began, and nothing that the last tree-info request asked to      *)
(* ignore, unless a tree-info request met it while it read what both use.   *)
NothingElseIsSent ==
  "raced" \notin trouble => uploaded \subseteq FilesOf(folder) \ Hidden(shun)

(* A synchronisation that met with no trouble has uploaded every file of    *)
(* the folder that the last tree-info request did not ask to ignore: no     *)
(* list of an earlier request, no folder of another, no later change of the *)
(* latest folder keeps one back.                                            *)
SyncIsWhole ==
  syncpc = "send" /\ tree = {} /\ trouble = {} => uploaded = FilesOf(folder) \ Hidden(shun)
==============================================================================
