----------------------------- MODULE PayloadPath -----------------------------
(***************************************************************************)
(* A file from its appearance in the watched folder to its upload: the     *)
(* directory notifications, the watcher's loop thread that enters them in  *)
(* the watch tree, the SleepThread that passes the reason on, and the      *)
(* payload thread that empties the tree and publishes its files.           *)
(*                                                                         *)
(* The folder does not change here (FolderWatch), the NATS connection      *)
(* stays up, the reason signal is the mailbox of ReasonSignal, the payload *)
(* thread's wake flag that of WakeFlag.  created, uploaded and lost are    *)
(* history variables; lost names what went wrong on the way.               *)
(***************************************************************************)
EXTENDS Naturals, Sequences, FiniteSets

CONSTANTS
  Files,          \* regular files that may appear in the folder
  MaxChanges,     \* bound: changes of the directory
  MaxOthers       \* bound: other reasons posted

ASSUME BoundsAssumption == MaxChanges \in Nat /\ MaxOthers \in Nat

Reasons == {"none", "send_payload", "cmd__empty"}
Events == {"added", "removed"} \X Files

VARIABLES
  disk,           \* what the folder holds: absent, empty or full
  events,         \* FILE_NOTIFY_INFORMATION not yet delivered
  lpc, batch, need,  \* the loop thread in completion_routine; need is need_notify
  tree,           \* files of the watch tree
  locked,         \* the loop thread holds the tree's mutex across steps
  slot,           \* the global reason signal
  spc, sreason,   \* the SleepThread
  flag,           \* _payload_signal
  ppc, files,     \* the payload thread
  changes, others,
  created, uploaded, lost

directory == <<disk, events, changes, created>>
loop == <<lpc, batch, need>>
sleep == <<spc, sreason>>
payload == <<ppc, files, uploaded>>

vars == <<directory, loop, tree, locked, slot, sleep, flag, payload, others, lost>>

Init ==
  /\ disk = [f \in Files |-> "absent"]
  /\ events = << >>
  /\ lpc = "wait" /\ batch = << >> /\ need = FALSE
  /\ tree = {} /\ locked = FALSE
  /\ slot = "none" /\ spc = "wait" /\ sreason = "none"
  /\ flag \in BOOLEAN           \* stop_threads of an earlier connection may have left it up
  /\ ppc = "wait" /\ files = {}
  /\ changes = 0 /\ others = 0
  /\ created = [f \in Files |-> 0]
  /\ uploaded = [f \in Files |-> 0]
  /\ lost = {}

-----------------------------------------------------------------------------
(* Slips used to check that the properties bite. *)
ParseForgets == \* need_notify = parse(info), without the earlier entries
  /\ lpc = "parse" /\ batch # << >>
  /\ LET e == Head(batch) IN
       /\ tree' = IF e[1] = "removed" THEN tree \ {e[2]}
                  ELSE IF disk[e[2]] # "absent" THEN tree \cup {e[2]} ELSE tree
       /\ need' = (e[1] = "added" /\ disk[e[2]] # "absent")
  /\ batch' = Tail(batch)
  /\ UNCHANGED <<directory, lpc, locked, slot, sleep, flag, payload, others, lost>>

ClearForgotten == \* the tree keeps the files that are being sent
  /\ ppc = "clear" /\ ~locked /\ ppc' = "send"
  /\ UNCHANGED <<directory, loop, tree, locked, slot, sleep, flag, files, uploaded, others, lost>>

PayloadWaitOnly == \* the thread goes back to its wait without the handler
  /\ ppc = "wait" /\ flag /\ flag' = FALSE
  /\ UNCHANGED <<directory, loop, tree, locked, slot, sleep, payload, others, lost>>

-----------------------------------------------------------------------------
(* The directory, and the other threads that post reasons. *)

(* A new file is empty at first; one that is moved in is not. *)
CreateFile(f) ==
  /\ disk[f] = "absent"
  /\ changes < MaxChanges
  /\ changes' = changes + 1
  /\ \E content \in {"empty", "full"} : disk' = [disk EXCEPT ![f] = content]
  /\ events' = Append(events, <<"added", f>>)
  /\ created' = [created EXCEPT ![f] = @ + 1]
  /\ UNCHANGED <<loop, tree, locked, slot, sleep, flag, payload, others, lost>>

(* FILE_ACTION_MODIFIED, which parse_notify_information ignores. *)
WriteFile(f) ==
  /\ disk[f] = "empty"
  /\ disk' = [disk EXCEPT ![f] = "full"]
  /\ UNCHANGED <<events, changes, created, loop, tree, locked, slot, sleep, flag, payload,
                 others, lost>>

DeleteFile(f) ==
  /\ disk[f] # "absent"
  /\ changes < MaxChanges
  /\ changes' = changes + 1
  /\ disk' = [disk EXCEPT ![f] = "absent"]
  /\ events' = Append(events, <<"removed", f>>)
  /\ UNCHANGED <<created, loop, tree, locked, slot, sleep, flag, payload, others, lost>>

PostOther ==
  /\ slot = "none"
  /\ others < MaxOthers
  /\ others' = others + 1
  /\ slot' = "cmd__empty"
  /\ UNCHANGED <<directory, loop, tree, locked, sleep, flag, payload, lost>>

-----------------------------------------------------------------------------
(* The loop thread: completion_routine. *)

(* The buffers are swapped and watch() is called again before the parsing. *)
TakeBatch ==
  /\ lpc = "wait"
  /\ events # << >>
  /\ batch' = events
  /\ events' = << >>
  /\ need' = FALSE
  /\ lpc' = "parse"
  /\ UNCHANGED <<disk, changes, created, tree, locked, slot, sleep, flag, payload, others, lost>>

(* A buffer that overflowed is delivered with no bytes and not looked at. *)
TakeOverflow ==
  /\ lpc = "wait"
  /\ events # << >>
  /\ events' = << >>
  /\ lost' = lost \cup {"events"}
  /\ UNCHANGED <<disk, changes, created, loop, tree, locked, slot, sleep, flag, payload, others>>

(* parse_notify_information: a file that is gone again is not entered. *)
ParseNotifyInformation ==
  /\ lpc = "parse"
  /\ batch # << >>
  /\ LET kind == Head(batch)[1]
         file == Head(batch)[2]
     IN \/ /\ kind = "removed"
           /\ tree' = tree \ {file}
           /\ UNCHANGED need
        \/ /\ kind = "added" /\ disk[file] # "absent"
           /\ tree' = tree \cup {file}
           /\ need' = TRUE
        \/ /\ kind = "added" /\ disk[file] = "absent"
           /\ UNCHANGED <<tree, need>>
  /\ batch' = Tail(batch)
  /\ UNCHANGED <<directory, lpc, locked, slot, sleep, flag, payload, others, lost>>

CurrentCount ==
  /\ lpc = "parse"
  /\ batch = << >>
  /\ lpc' = IF tree # {} /\ need THEN "notify" ELSE "wait"
  /\ UNCHANGED <<directory, batch, need, tree, locked, slot, sleep, flag, payload, others, lost>>

(* watch_tree::notify takes the mutex and keeps it while notify_reason spins. *)
NotifyLock ==
  /\ lpc = "notify"
  /\ lpc' = IF tree # {} THEN "post" ELSE "wait"
  /\ locked' = (tree # {})
  /\ UNCHANGED <<directory, batch, need, tree, slot, sleep, flag, payload, others, lost>>

NotifyPost ==
  /\ lpc = "post"
  /\ slot = "none"
  /\ slot' = "send_payload"
  /\ locked' = FALSE
  /\ lpc' = "wait"
  /\ UNCHANGED <<directory, batch, need, tree, sleep, flag, payload, others, lost>>

-----------------------------------------------------------------------------
(* The SleepThread. *)

SleepWait ==
  /\ spc = "wait"
  /\ slot # "none"
  /\ sreason' = slot
  /\ slot' = "none"
  /\ spc' = "dispatch"
  /\ UNCHANGED <<directory, loop, tree, locked, flag, payload, others, lost>>

(* maybe_send_payload; a reason is dropped while the service is not running. *)
SleepDispatch(running) ==
  /\ spc = "dispatch"
  /\ flag' = (flag \/ (running /\ sreason = "send_payload"))
  /\ lost' = IF running \/ sreason # "send_payload" THEN lost ELSE lost \cup {"reason"}
  /\ spc' = "wait"
  /\ sreason' = "none"
  /\ UNCHANGED <<directory, loop, tree, locked, slot, payload, others>>

-----------------------------------------------------------------------------
(* The payload thread: send_payload. *)

PayloadWait ==
  /\ ppc = "wait"
  /\ flag
  /\ flag' = FALSE
  /\ ppc' = "get_all"
  /\ UNCHANGED <<directory, loop, tree, locked, slot, sleep, files, uploaded, others, lost>>

(* The files of the tree that are on the disk at this moment. *)
GetAll ==
  /\ ppc = "get_all"
  /\ ~locked
  /\ files' = {f \in tree : disk[f] # "absent"}
  /\ ppc' = "clear"
  /\ UNCHANGED <<directory, loop, tree, locked, slot, sleep, flag, uploaded, others, lost>>

(* A critical section of its own, after get_all has released the mutex. *)
Clear ==
  /\ ppc = "clear"
  /\ ~locked
  /\ lost' = IF \E f \in tree \ files : disk[f] # "absent" THEN lost \cup {"unread"} ELSE lost
  /\ tree' = {}
  /\ ppc' = "send"
  /\ UNCHANGED <<directory, loop, locked, slot, sleep, flag, files, uploaded, others>>

(* publish_payload: a file of no bytes is not sent, and a request may fail; *)
(* neither is tried again.                                                  *)
PublishPayload(f) ==
  /\ ppc = "send"
  /\ f \in files
  /\ disk[f] # "absent"
  /\ files' = files \ {f}
  /\ \/ /\ disk[f] = "full"
        /\ uploaded' = [uploaded EXCEPT ![f] = @ + 1]
        /\ UNCHANGED lost
     \/ /\ disk[f] = "full"
        /\ lost' = lost \cup {"request"}
        /\ UNCHANGED uploaded
     \/ /\ disk[f] = "empty"
        /\ lost' = lost \cup {"empty"}
        /\ UNCHANGED uploaded
  /\ UNCHANGED <<ppc, directory, loop, tree, locked, slot, sleep, flag, others>>

(* file_size throws on a file that is gone: the rest of the files go unsent. *)
PublishThrows(f) ==
  /\ ppc = "send"
  /\ f \in files
  /\ disk[f] = "absent"
  /\ lost' = IF files = {f} THEN lost ELSE lost \cup {"rest"}
  /\ files' = {}
  /\ UNCHANGED <<ppc, uploaded, directory, loop, tree, locked, slot, sleep, flag, others>>

SendDone ==
  /\ ppc = "send"
  /\ files = {}
  /\ ppc' = "wait"
  /\ UNCHANGED <<files, uploaded, directory, loop, tree, locked, slot, sleep, flag, others, lost>>

-----------------------------------------------------------------------------
Directory == \E f \in Files : CreateFile(f) \/ WriteFile(f) \/ DeleteFile(f)
Loop == TakeBatch \/ ParseNotifyInformation \/ CurrentCount \/ NotifyLock \/ NotifyPost
Sleep == SleepWait \/ \E running \in BOOLEAN : SleepDispatch(running)
Payload == \/ PayloadWait \/ GetAll \/ Clear \/ SendDone
           \/ \E f \in Files : PublishPayload(f) \/ PublishThrows(f)

Next == Directory \/ PostOther \/ TakeOverflow \/ Loop \/ Sleep \/ Payload

Spec == Init /\ [][Next]_vars

(* The threads run on; the loop thread, spinning with the mutex held, gets  *)
(* the slot when it is free again and again.                                *)
FairSpec == Spec /\ WF_vars(Sleep) /\ SF_vars(Loop) /\ SF_vars(Payload)

-----------------------------------------------------------------------------
TypeDirectory ==
  /\ disk \in [Files -> {"absent", "empty", "full"}]
  /\ events \in Seq(Events)
  /\ changes \in 0..MaxChanges /\ others \in 0..MaxOthers
  /\ created \in [Files -> Nat]

TypeLoop ==
  /\ lpc \in {"wait", "parse", "notify", "post"}
  /\ batch \in Seq(Events)
  /\ need \in BOOLEAN
  /\ tree \in SUBSET Files
  /\ locked = (lpc = "post")                 \* held exactly while notify() spins
  /\ lpc # "parse" => batch = << >>

TypeSleep ==
  /\ slot \in Reasons
  /\ spc \in {"wait", "dispatch"}
  /\ sreason \in Reasons
  /\ flag \in BOOLEAN
  /\ spc = "wait" => sreason = "none"

TypePayload ==
  /\ ppc \in {"wait", "get_all", "clear", "send"}
  /\ files \in SUBSET Files
  /\ uploaded \in [Files -> Nat]
  /\ ppc \in {"wait", "get_all"} => files = {}
  /\ lost \subseteq {"events", "reason", "unread", "empty", "request", "rest"}

(* Every variable has its type; the mutex of the tree is held across steps  *)
(* by the posting loop thread alone, and nothing is left over between two   *)
(* rounds of a thread.                                                      *)
TypeOK == TypeDirectory /\ TypeLoop /\ TypeSleep /\ TypePayload

(* A file that appeared once is uploaded at most once, although the tree is *)
(* read and emptied in two critical sections.                               *)
UploadedAtMostOnce == \A f \in Files : uploaded[f] <= created[f]

(* As long as a file is in the tree someone is on the way to collect it:    *)
(* the notification is never cut off between the mutex, the slot, the       *)
(* SleepThread and the flag, unless the service was paused.                 *)
NoStrandedFile ==
  tree # {} => \/ lpc \in {"parse", "notify"} /\ need
               \/ lpc = "post"
               \/ slot = "send_payload" \/ sreason = "send_payload"
               \/ flag
               \/ ppc \in {"get_all", "clear"}
               \/ "reason" \in lost

(* A file entered in the tree leaves it, in a service that is not paused.   *)
TreeIsEmptied == tree # {} ~> (tree = {} \/ "reason" \in lost)

Quiet ==
  /\ events = << >> /\ lpc = "wait" /\ slot = "none" /\ spc = "wait"
  /\ ~flag /\ ppc = "wait"

AllUploaded == \A f \in Files : disk[f] = "full" => uploaded[f] > 0

(* README, "New files can be uploaded automatically": in the end every file *)
(* that stands complete in the folder has been uploaded, when no event, no  *)
(* reason, no entry of the tree and no request was lost, none was looked at *)
(* while it was empty, and no other file vanished.                          *)
NewFilesUploaded == Quiet /\ lost = {} => AllUploaded
==============================================================================
