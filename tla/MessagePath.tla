----------------------------- MODULE MessagePath -----------------------------
(***************************************************************************)
(* A request from the two message subscriptions to its answer.  Each       *)
(* subscription has a delivery thread; both assign the one string          *)
(* g_current_message and pass that string, not their own message, to       *)
(* on_recv_message, which tells a synchronisation request from the others  *)
(* by searching the text.  The message thread exchanges the string for the *)
(* empty one and answers; the synfile thread uploads the folder and never  *)
(* looks at it.                                                            *)
(*                                                                         *)
(* The reason signal is the mailbox of ReasonSignal, the wake flags are    *)
(* those of WakeFlag, the NATS connection stays up; what an answer holds   *)
(* is left out, and what a synchronisation uploads is SyncFiles.  answered,*)
(* syncs, unsynced (sync requests no synchronisation has followed) and     *)
(* lost, which names what went wrong, are history variables.               *)
(***************************************************************************)
EXTENDS Naturals, FiniteSets

CONSTANTS
  MessageRequests,  \* requests on the message channel, each sent once
  SyncRequests,     \* requests on the synfile channel, each sent once
  Mentions,         \* message requests whose text holds MSG_SYNC_FILES somewhere
  None,             \* the empty string
  Torn,             \* what a string touched in the middle of its assignment may hold
  MaxOthers         \* bound: other reasons posted

Requests == MessageRequests \cup SyncRequests

ASSUME RequestsAssumption ==
  /\ MessageRequests \cap SyncRequests = {}
  /\ Mentions \subseteq MessageRequests
  /\ None \notin Requests /\ Torn \notin Requests /\ None # Torn
ASSUME BoundsAssumption == MaxOthers \in Nat

Channels == {"message", "syncfile"}
Sent(d) == IF d = "message" THEN MessageRequests ELSE SyncRequests
Reasons == {"none", "recv_message", "send_synfile", "cmd__empty"}

VARIABLES
  dpc, dmsg, dreason,   \* the delivery thread of each channel
  current,              \* g_current_message
  slot, others,         \* the global reason signal
  spc, sreason,         \* the SleepThread
  msignal, ysignal,     \* _message_signal and _synfile_signal
  mpc, mmsg,            \* the message thread; mmsg is _message
  ypc,                  \* the synfile thread
  received, answered, syncs, unsynced, lost

delivery == <<dpc, dmsg, dreason>>
reason == <<slot, others>>
sleep == <<spc, sreason>>
message == <<mpc, mmsg, answered>>
synfile == <<ypc, syncs>>

vars == <<delivery, current, reason, sleep, msignal, ysignal, message, synfile,
          received, unsynced, lost>>

Init ==
  /\ dpc = [d \in Channels |-> "idle"]
  /\ dmsg = [d \in Channels |-> None]
  /\ dreason = [d \in Channels |-> "none"]
  /\ current = None
  /\ slot = "none" /\ others = 0 /\ spc = "wait" /\ sreason = "none"
  /\ msignal \in BOOLEAN /\ ysignal \in BOOLEAN  \* stop_threads may have left them up
  /\ mpc = "wait" /\ mmsg = None /\ ypc = "wait"
  /\ received = {} /\ unsynced = {} /\ lost = {}
  /\ answered = [m \in MessageRequests |-> 0] /\ syncs = 0

Storing(d) == dpc[d] = "store"

(* msg.contains(MSG_SYNC_FILES), on any bytes. *)
Contains(m) == CASE m \in SyncRequests \cup Mentions -> {TRUE}
                 [] m = Torn                         -> BOOLEAN
                 [] OTHER                            -> {FALSE}

-----------------------------------------------------------------------------
(* Slips used to check that the properties bite. *)
ClassifyAll(d) == \* every message asks for a synchronisation
  /\ dpc[d] = "classify" /\ dreason' = [dreason EXCEPT ![d] = "send_synfile"]
  /\ dpc' = [dpc EXCEPT ![d] = "post"] /\ dmsg' = [dmsg EXCEPT ![d] = None]
  /\ UNCHANGED <<lost, current, reason, sleep, msignal, ysignal, message, synfile,
                 received, unsynced>>

SleepDispatchSilent(running) == \* maybe_send_message without notify_message
  /\ spc = "dispatch" /\ spc' = "wait" /\ sreason' = "none"
  /\ ysignal' = (ysignal \/ (running /\ sreason = "send_synfile"))
  /\ lost' = IF running \/ sreason = "cmd__empty" THEN lost ELSE lost \cup {"reason"}
  /\ UNCHANGED <<delivery, current, reason, msignal, message, synfile, received, unsynced>>

MessageClearKept == \* a copy in place of the exchange
  /\ mpc = "clear" /\ mpc' = "assert"
  /\ UNCHANGED <<lost, current, mmsg, answered, delivery, reason, sleep, msignal, ysignal,
                 synfile, received, unsynced>>

-----------------------------------------------------------------------------
(* The delivery threads: subject_recv_message and subject_syncfile_message. *)

Receive(d, m) ==
  /\ dpc[d] = "idle"
  /\ m \in Sent(d) \ received
  /\ received' = received \cup {m}
  /\ unsynced' = IF d = "syncfile" THEN unsynced \cup {m} ELSE unsynced
  /\ dmsg' = [dmsg EXCEPT ![d] = m]
  /\ dpc' = [dpc EXCEPT ![d] = "store"]
  /\ UNCHANGED <<dreason, current, reason, sleep, msignal, ysignal, message, synfile, lost>>

(* The assignment ends; two that overlap may leave the string torn, and a   *)
(* torn string may stay so.                                                 *)
Store(d) ==
  LET clash == current = Torn \/ \E e \in Channels \ {d} : Storing(e)
      unread == current \in MessageRequests /\ ~(mpc = "clear" /\ mmsg = current)
  IN
  /\ Storing(d)
  /\ current' \in {dmsg[d]} \cup (IF clash THEN {Torn} ELSE {})
  /\ lost' = lost \cup (IF unread THEN {"overwritten"} ELSE {})
                  \cup (IF current' = Torn THEN {"torn"} ELSE {})
  /\ dpc' = [dpc EXCEPT ![d] = "check"]
  /\ UNCHANGED <<dmsg, dreason, reason, sleep, msignal, ysignal, message, synfile,
                 received, unsynced>>

(* if (!g_current_message.empty()): the message thread may have taken it. *)
CheckEmpty(d) ==
  /\ dpc[d] = "check"
  /\ dpc' = [dpc EXCEPT ![d] = IF current = None THEN "idle" ELSE "classify"]
  /\ dmsg' = [dmsg EXCEPT ![d] = IF current = None THEN None ELSE @]
  /\ lost' = IF current = None /\ d = "syncfile" THEN lost \cup {"swallowed"} ELSE lost
  /\ UNCHANGED <<dreason, current, reason, sleep, msignal, ysignal, message, synfile,
                 received, unsynced>>

(* on_recv_message, whose parameter is a reference to g_current_message: it *)
(* tests the string once more and searches what it holds by then.           *)
OnRecvMessage(d) ==
  /\ dpc[d] = "classify"
  /\ \/ /\ current = None
        /\ dpc' = [dpc EXCEPT ![d] = "idle"]
        /\ lost' = IF d = "syncfile" THEN lost \cup {"swallowed"} ELSE lost
        /\ UNCHANGED dreason
     \/ /\ current # None
        /\ \E text \in {current} \cup (IF \E e \in Channels : Storing(e) THEN {Torn} ELSE {}) :
             \E sync \in Contains(text) :
               /\ dreason' = [dreason EXCEPT ![d] = IF sync THEN "send_synfile" ELSE "recv_message"]
               /\ lost' = IF sync \in Contains(dmsg[d]) THEN lost ELSE lost \cup {"misread"}
        /\ dpc' = [dpc EXCEPT ![d] = "post"]
  /\ dmsg' = [dmsg EXCEPT ![d] = None]
  /\ UNCHANGED <<current, reason, sleep, msignal, ysignal, message, synfile,
                 received, unsynced>>

Post(d) ==
  /\ dpc[d] = "post"
  /\ slot = "none"
  /\ slot' = dreason[d]
  /\ dreason' = [dreason EXCEPT ![d] = "none"]
  /\ dpc' = [dpc EXCEPT ![d] = "idle"]
  /\ UNCHANGED <<dmsg, others, current, sleep, msignal, ysignal, message, synfile,
                 received, unsynced, lost>>

PostOther ==
  /\ slot = "none"
  /\ others < MaxOthers
  /\ others' = others + 1
  /\ slot' = "cmd__empty"
  /\ UNCHANGED <<delivery, current, sleep, msignal, ysignal, message, synfile, received,
                 unsynced, lost>>

-----------------------------------------------------------------------------
(* The SleepThread. *)

SleepWait ==
  /\ spc = "wait"
  /\ slot # "none"
  /\ sreason' = slot
  /\ slot' = "none"
  /\ spc' = "dispatch"
  /\ UNCHANGED <<others, delivery, current, msignal, ysignal, message, synfile, received,
                 unsynced, lost>>

(* maybe_send_message and maybe_send_synfile; a reason is dropped while the *)
(* service is not running.                                                  *)
SleepDispatch(running) ==
  /\ spc = "dispatch"
  /\ msignal' = (msignal \/ (running /\ sreason = "recv_message"))
  /\ ysignal' = (ysignal \/ (running /\ sreason = "send_synfile"))
  /\ lost' = IF running \/ sreason = "cmd__empty" THEN lost ELSE lost \cup {"reason"}
  /\ spc' = "wait"
  /\ sreason' = "none"
  /\ UNCHANGED <<delivery, current, reason, message, synfile, received, unsynced>>

-----------------------------------------------------------------------------
(* The message thread: message_response. *)

MessageWait ==
  /\ mpc = "wait"
  /\ msignal
  /\ msignal' = FALSE
  /\ mpc' = "test"
  /\ UNCHANGED <<mmsg, answered, delivery, current, reason, sleep, ysignal, synfile, received,
                 unsynced, lost>>

(* An empty string is left alone; otherwise std::exchange reads ...         *)
MessageRead ==
  /\ mpc = "test"
  /\ \/ /\ current = None
        /\ mpc' = "wait"
        /\ UNCHANGED <<mmsg, lost>>
     \/ /\ current # None
        /\ mmsg' \in {current} \cup (IF \E d \in Channels : Storing(d) THEN {Torn} ELSE {})
        /\ lost' = IF mmsg' = Torn THEN lost \cup {"torn"} ELSE lost
        /\ mpc' = "clear"
  /\ UNCHANGED <<answered, delivery, current, reason, sleep, msignal, ysignal, synfile,
                 received, unsynced>>

(* ... and then clears, whatever was stored in between.                     *)
MessageClear ==
  /\ mpc = "clear"
  /\ current' = None
  /\ lost' = IF current \in MessageRequests \ {mmsg} THEN lost \cup {"cleared"} ELSE lost
  /\ mpc' = "assert"
  /\ UNCHANGED <<mmsg, answered, delivery, reason, sleep, msignal, ysignal, synfile,
                 received, unsynced>>

(* The assertion, the parser and the handler.  Bytes that do not parse      *)
(* throw, and so does a directory that cannot be listed; nothing catches,   *)
(* and the process ends.  A sync request is not known here.  The result of  *)
(* publish_message is ignored.                                              *)
MessageResponse ==
  /\ mpc = "assert"
  /\ \/ /\ mmsg \in MessageRequests \cup {Torn}
        /\ mpc' = "terminated"
        /\ UNCHANGED <<answered, lost>>
     \/ /\ mmsg \in SyncRequests \cup {Torn}
        /\ mpc' = "wait"
        /\ UNCHANGED <<answered, lost>>
     \/ /\ mmsg \in MessageRequests
        /\ mpc' = "wait"
        /\ answered' = [answered EXCEPT ![mmsg] = @ + 1]
        /\ UNCHANGED lost
     \/ /\ mmsg \in MessageRequests
        /\ mpc' = "wait"
        /\ lost' = lost \cup {"answer"}
        /\ UNCHANGED answered
  /\ mmsg' = None
  /\ UNCHANGED <<delivery, current, reason, sleep, msignal, ysignal, synfile, received, unsynced>>

-----------------------------------------------------------------------------
(* The synfile thread: sync_files. *)

SynfileWait ==
  /\ ypc = "wait"
  /\ ysignal
  /\ ysignal' = FALSE
  /\ ypc' = "sync"
  /\ UNCHANGED <<syncs, delivery, current, reason, sleep, msignal, message, received, unsynced,
                 lost>>

SyncFiles ==
  /\ ypc = "sync"
  /\ syncs' = syncs + 1
  /\ unsynced' = {}
  /\ ypc' = "wait"
  /\ UNCHANGED <<delivery, current, reason, sleep, msignal, ysignal, message, received, lost>>

-----------------------------------------------------------------------------
Deliver(d) == Store(d) \/ CheckEmpty(d) \/ OnRecvMessage(d) \/ Post(d)
Sleep == SleepWait \/ \E running \in BOOLEAN : SleepDispatch(running)
Message == MessageWait \/ MessageRead \/ MessageClear \/ MessageResponse
Synfile == SynfileWait \/ SyncFiles

Next ==
  /\ mpc # "terminated"
  /\ \/ \E d \in Channels : Deliver(d) \/ \E m \in Requests : Receive(d, m)
     \/ PostOther \/ Sleep \/ Message \/ Synfile

Spec == Init /\ [][Next]_vars

-----------------------------------------------------------------------------
TypeDelivery ==
  /\ dpc \in [Channels -> {"idle", "store", "check", "classify", "post"}]
  /\ dmsg \in [Channels -> Requests \cup {None}]
  /\ \A d \in Channels :
       /\ dpc[d] \in {"store", "check", "classify"} => dmsg[d] \in Sent(d) \cap received
       /\ dpc[d] = "post" <=> dreason[d] # "none"
  /\ dreason \in [Channels -> Reasons]
  /\ current \in Requests \cup {None, Torn}

TypeSleep ==
  /\ slot \in Reasons /\ others \in 0..MaxOthers
  /\ spc \in {"wait", "dispatch"} /\ sreason \in Reasons
  /\ msignal \in BOOLEAN /\ ysignal \in BOOLEAN

TypeThreads ==
  /\ mpc \in {"wait", "test", "clear", "assert", "terminated"}
  /\ mmsg \in Requests \cup {None, Torn}
  /\ mpc \in {"clear", "assert"} <=> mmsg # None   \* an empty message is never handled
  /\ ypc \in {"wait", "sync"}

TypeHistory ==
  /\ received \subseteq Requests /\ unsynced \subseteq SyncRequests \cap received
  /\ answered \in [MessageRequests -> Nat] /\ syncs \in Nat
  /\ lost \subseteq {"overwritten", "torn", "swallowed", "misread", "reason", "cleared", "answer"}

(* Every variable has its type, and the message thread handles a message    *)
(* that is not empty.                                                       *)
TypeOK == TypeDelivery /\ TypeSleep /\ TypeThreads /\ TypeHistory

(* No request is answered twice, however many wake-ups the two channels     *)
(* raise for the one string.                                                *)
AnsweredAtMostOnce == \A m \in MessageRequests : answered[m] <= 1

Quiet ==
  /\ \A d \in Channels : dpc[d] = "idle"
  /\ slot = "none" /\ spc = "wait" /\ ~msignal /\ ~ysignal /\ mpc = "wait" /\ ypc = "wait"

Unanswered == {m \in MessageRequests \cap received : answered[m] = 0}

(* docs/code_flow.md: every request is answered and every sync request      *)
(* followed by a synchronisation, unless lost names what became of one; the *)
(* message that mentions MSG_SYNC_FILES is taken for a sync request, and    *)
(* nobody need answer it.                                                   *)
RequestsHandled == Quiet /\ lost = {} => Unanswered \subseteq Mentions /\ unsynced = {}

(* The folder, whose every file a synchronisation uploads, is not           *)
(* synchronised more often than requests ask for it, unless one is read in  *)
(* place of another; the 1 is a wake flag left up.                          *)
SyncsAreAskedFor ==
  "misread" \notin lost => syncs <= Cardinality(received \cap (SyncRequests \cup Mentions)) + 1
==============================================================================
