---------------------------- MODULE ClientThreads ----------------------------
(***************************************************************************)
(* Who waits for whom when the NATS connection is lost.  connect(), called *)
(* by the SleepThread and by the timer callback, destroys the connection,  *)
(* makes a new one, stops and joins the four client threads, starts them   *)
(* again and subscribes, all under the client's mutex.  Meanwhile the      *)
(* delivery threads, the command thread, the watcher's loop thread and the *)
(* timer thread spin in notify_reason until the SleepThread empties the    *)
(* one slot of the reason signal.                                          *)
(*                                                                         *)
(* At the end, told to stop, the SleepThread closes the connection and     *)
(* stops the threads once more, without the mutex.  The process may end at *)
(* any time after that it was told, and main's destructor of the client    *)
(* closes it too; that one is left out.                                    *)
(*                                                                         *)
(* What the threads do with what they are given is the matter of           *)
(* MessagePath, CommandPath and PayloadPath; of it only what they wait for *)
(* is left.  The service manager does not pause the service.  Whether the  *)
(* reason that tells the SleepThread to end is ever posted, and that the   *)
(* timer callback may start another SleepThread during the stop, is the    *)
(* matter of ServiceControl.                                               *)
(***************************************************************************)
EXTENDS Naturals, Sequences

CONSTANTS
  Channels,       \* the subscriptions on which messages come
  MaxEvents,      \* bound: messages delivered, notifications of the watch tree, timer
                  \* callbacks and losses of the connection, taken together
  Stops           \* bound: whether the service is ever told to stop

ASSUME ChannelsAssumption == Channels \subseteq {"message", "command", "syncfile"}
ASSUME BoundsAssumption == MaxEvents \in Nat /\ Stops \in BOOLEAN

Callers == {"sleep", "timer"}       \* of connect
Stoppers == Callers \cup {"close"}   \* of the threads: the SleepThread that has left its loop, too
Threads == <<"message", "command", "payload", "synfile">>   \* in the order of stop_threads
ThreadNames == {Threads[i] : i \in 1..Len(Threads)}

(* The reason a delivery thread posts, and the client thread it is for. *)
Posted(channel) == CASE channel = "message"  -> {"recv_message", "send_synfile"}
                     [] channel = "command"  -> {"recv_command"}
                     [] channel = "syncfile" -> {"send_synfile"}
Served(reason) == CASE reason = "recv_message" -> {"message"}
                    [] reason = "recv_command" -> {"command"}
                    [] reason = "send_payload" -> {"payload"}
                    [] reason = "send_synfile" -> {"synfile"}
                    [] OTHER -> {}
Reasons == {"recv_message", "recv_command", "send_payload", "send_synfile",
            "cmd_result", "cmd__empty", "exit__thread"}

VARIABLES
  nc,             \* _nc: null, connected, or waiting for a reconnection of its own
  subscribed,     \* the subscriptions of _nc
  mutex,          \* the holder of the client's _mutex
  pc,             \* where the SleepThread, its end and the timer thread are
  sreason,        \* the reason the SleepThread has taken, or startup before its loop
  at,             \* stop_threads: the position in Threads, for each who is in it
  running,        \* _msg_thread_running etc.
  flag,           \* _message_signal etc.
  thread,         \* the four client threads
  slot,           \* the global reason signal
  paused,         \* the SleepThread marks the service paused
  delivery,       \* the reason each delivery thread is posting
  loop,           \* the watcher's loop thread posts, with the tree's mutex locked
  events,         \* how many of them there were
  told,           \* bb_sleep_thread_exit and bb_timer_thread_exit
  crash,          \* what has terminated the process
  trouble         \* history: _nc is left by a connect that failed, or made too late

client == <<at, running, flag, thread>>
connection == <<nc, subscribed, mutex, trouble>>
posters == <<delivery, loop>>
ending == <<told, crash>>

vars == <<connection, pc, sreason, client, slot, paused, posters, events, ending>>

Init ==
  /\ nc = "null" /\ subscribed = FALSE /\ mutex = "free"
  /\ pc = [sleep |-> "start", timer |-> "idle", close |-> "none"]
  /\ sreason = "startup"
  /\ at = [a \in Stoppers |-> 1]
  /\ running = [t \in ThreadNames |-> TRUE]
  /\ flag = [t \in ThreadNames |-> FALSE]
  /\ thread = [t \in ThreadNames |-> "none"]
  /\ slot = "none" /\ paused = FALSE
  /\ delivery = [c \in Channels |-> "none"]
  /\ loop = FALSE
  /\ events = 0
  /\ told = FALSE /\ crash = "no" /\ trouble = {}

Goto(a, place) == pc' = [pc EXCEPT ![a] = place]

-----------------------------------------------------------------------------
(* Slips used to check that the properties bite. *)
ConnectLockless(a) == \* without the unique_lock
  /\ pc[a] = "lock"
  /\ mutex' = a
  /\ Goto(a, "destroy")
  /\ UNCHANGED <<nc, subscribed, trouble, sreason, client, slot, paused, posters, events, ending>>

StopThreadSilent(a) == \* the thread to be joined is not woken
  /\ pc[a] = "stop" /\ running[Threads[at[a]]]
  /\ running' = [running EXCEPT ![Threads[at[a]]] = FALSE]
  /\ Goto(a, "join")
  /\ UNCHANGED <<at, flag, connection, sreason, thread, slot, paused, posters, events, ending>>

StartThreadsUnset(a) == \* running is not raised again
  /\ pc[a] = "spawn"
  /\ thread' = [t \in ThreadNames |-> "wait"]
  /\ subscribed' = TRUE
  /\ mutex' = "free"
  /\ Goto(a, IF a = "timer" THEN "beat" ELSE IF sreason = "startup" THEN "wait" ELSE "pause")
  /\ UNCHANGED <<nc, trouble, sreason, at, running, flag, slot, paused, posters, events, ending>>

CloseOnly == \* without stop_threads
  /\ pc["close"] = "destroy"
  /\ nc' = "null" /\ subscribed' = FALSE
  /\ Goto("close", "ended")
  /\ UNCHANGED <<mutex, trouble, sreason, client, slot, paused, posters, events, ending>>

-----------------------------------------------------------------------------
(* The head of the SleepThread's loop, and the end of it. *)
Loops ==
  /\ sreason' = "none"
  /\ pc' = IF told THEN [pc EXCEPT !["sleep"] = "ended", !["close"] = "destroy"]
                   ELSE [pc EXCEPT !["sleep"] = "wait"]

(* What may terminate the process where two threads are in the same place.  *)
MayCrash(how, when) == crash' \in {"no"} \cup (IF when THEN {how} ELSE {})

(* Someone else than a uses the connection that a is going to destroy.      *)
InUse(a) ==
  \/ \E t \in ThreadNames \ {"command"} : thread[t] = "work"
  \/ \E b \in Stoppers \ {a} : pc[b] \in {"destroy", "dial", "assert", "check", "beat"}

-----------------------------------------------------------------------------
(* nats_client::connect, called by a. *)

(* Where its caller goes on: at startup the SleepThread ends when connect   *)
(* fails, later it drops the reason.                                        *)
ConnectReturns(a, ok) ==
  /\ mutex' = "free"
  /\ \/ a = "timer" /\ Goto(a, IF ok THEN "beat" ELSE "idle") /\ UNCHANGED sreason
     \/ a = "sleep" /\ ok # (sreason = "startup") /\ Goto(a, IF ok THEN "pause" ELSE "ended")
        /\ UNCHANGED sreason
     \/ a = "sleep" /\ ok = (sreason = "startup") /\ Loops

ConnectLock(a) ==
  /\ pc[a] = "lock"
  /\ mutex = "free"
  /\ mutex' = a
  /\ Goto(a, "destroy")
  /\ UNCHANGED <<nc, subscribed, trouble, sreason, client, slot, paused, posters, events, ending>>

(* _destroy.  The client threads are stopped only afterwards. *)
ConnectDestroy(a) ==
  /\ pc[a] = "destroy"
  /\ MayCrash("in_use", nc # "null" /\ InUse(a))
  /\ nc' = "null" /\ subscribed' = FALSE
  /\ trouble' = trouble \cap {"revived"}
  /\ Goto(a, "dial")
  /\ UNCHANGED <<mutex, sreason, client, slot, paused, posters, events, told>>

Late == IF pc["close"] # "none" THEN {"revived"} ELSE {}

(* _connect: a server without header support leaves a connection behind     *)
(* although connect fails.                                                  *)
ConnectDial(a) ==
  /\ pc[a] = "dial"
  /\ \/ /\ nc' = "up" /\ trouble' = trouble \cup Late
        /\ Goto(a, "assert")
        /\ UNCHANGED <<mutex, sreason>>
     \/ /\ nc' = "up" /\ trouble' = trouble \cup {"no_headers"} \cup Late
        /\ ConnectReturns(a, FALSE)
     \/ /\ ConnectReturns(a, FALSE)
        /\ UNCHANGED <<nc, trouble>>
  /\ UNCHANGED <<subscribed, client, slot, paused, posters, events, ending>>

(* The assertion, and the second look at the connection. *)
ConnectTest(a) ==
  /\ pc[a] = "assert"
  /\ \/ /\ nc = "up"
        /\ Goto(a, "stop")
        /\ UNCHANGED <<mutex, trouble, sreason>>
     \/ /\ nc # "up"
        /\ trouble' = trouble \cup {"early_drop"}
        /\ ConnectReturns(a, FALSE)
  /\ MayCrash("assertion", nc = "null")
  /\ UNCHANGED <<nc, subscribed, client, slot, paused, posters, events, told>>

NextThread(a) ==
  IF at[a] = Len(Threads)
    THEN Goto(a, IF a = "close" THEN "ended" ELSE "spawn") /\ at' = [at EXCEPT ![a] = 1]
    ELSE Goto(a, "stop") /\ at' = [at EXCEPT ![a] = @ + 1]

Joining(b, t) == pc[b] = "join" /\ Threads[at[b]] = t

(* stop_threads: ask one thread to end; someone who is about to join the    *)
(* same thread may have asked it after a had seen it running ...            *)
StopThread(a) ==
  /\ pc[a] = "stop"
  /\ LET t == Threads[at[a]] IN
       \/ /\ running[t] \/ \E b \in Stoppers : Joining(b, t)
          /\ running' = [running EXCEPT ![t] = FALSE]
          /\ flag' = [flag EXCEPT ![t] = TRUE]
          /\ Goto(a, "join") /\ UNCHANGED at
       \/ /\ ~running[t]
          /\ NextThread(a)
          /\ UNCHANGED <<running, flag>>
  /\ UNCHANGED <<connection, sreason, thread, slot, paused, posters, events, ending>>

(* ... and wait until it has; a thread that was never started, or that was  *)
(* joined, is not joinable.  Two who join the same thread get an exception. *)
JoinThread(a) ==
  /\ pc[a] = "join"
  /\ LET t == Threads[at[a]] IN
       /\ thread[t] \in {"none", "ended"}
       /\ thread' = [thread EXCEPT ![t] = "none"]
       /\ MayCrash("joined", \E b \in Stoppers \ {a} : Joining(b, t))
  /\ NextThread(a)
  /\ UNCHANGED <<connection, sreason, running, flag, slot, paused, posters, events, told>>

(* The rest of init_threads, and the subscriptions, which fail without a    *)
(* connection.  A std::thread that was not joined terminates the process    *)
(* when it is assigned to.                                                  *)
StartThreads(a) ==
  /\ pc[a] = "spawn"
  /\ running' = [t \in ThreadNames |-> TRUE]
  /\ thread' = [t \in ThreadNames |-> "wait"]
  /\ subscribed' = (nc # "null")
  /\ crash' = IF \E t \in ThreadNames : thread[t] # "none" THEN "assigned" ELSE "no"
  /\ trouble' = trouble \cup Late
  /\ ConnectReturns(a, TRUE)
  /\ UNCHANGED <<nc, at, flag, slot, paused, posters, events, told>>

Connect(a) == \/ ConnectLock(a) \/ ConnectDestroy(a) \/ ConnectDial(a) \/ ConnectTest(a)
              \/ StopThread(a) \/ JoinThread(a) \/ StartThreads(a)

-----------------------------------------------------------------------------
(* nats_client::close, without the mutex. *)

CloseDestroy ==
  /\ pc["close"] = "destroy"
  /\ MayCrash("in_use", InUse("close"))
  /\ nc' = "null" /\ subscribed' = FALSE
  /\ trouble' = trouble \cap {"revived"}
  /\ Goto("close", "stop")
  /\ UNCHANGED <<mutex, sreason, client, slot, paused, posters, events, told>>

Close == CloseDestroy \/ StopThread("close") \/ JoinThread("close")

-----------------------------------------------------------------------------
(* The SleepThread. *)

(* Without a usable address it ends. *)
SleepStart(ip) ==
  /\ pc["sleep"] = "start"
  /\ Goto("sleep", IF ip THEN "lock" ELSE "ended")
  /\ UNCHANGED <<connection, sreason, client, slot, paused, posters, events, ending>>

SleepWait ==
  /\ pc["sleep"] = "wait"
  /\ slot # "none"
  /\ slot' = "none" /\ sreason' = slot
  /\ IF slot = "exit__thread"
       THEN pc' = [pc EXCEPT !["sleep"] = "ended", !["close"] = "destroy"]
       ELSE Goto("sleep", "check")
  /\ UNCHANGED <<connection, client, paused, posters, events, ending>>

(* is_connected, or else connect again; without an address drop the reason, *)
(* as in a service that is being stopped.                                   *)
SleepCheck(ip) ==
  /\ pc["sleep"] = "check"
  /\ \/ nc = "up" /\ Goto("sleep", "pause") /\ UNCHANGED sreason
     \/ nc # "up" /\ ip /\ Goto("sleep", "lock") /\ UNCHANGED sreason
     \/ ((nc # "up" /\ ~ip) \/ told) /\ Loops
  /\ UNCHANGED <<connection, client, slot, paused, posters, events, ending>>

SleepPause ==
  /\ pc["sleep"] = "pause"
  /\ paused' = TRUE
  /\ Goto("sleep", "notify")
  /\ UNCHANGED <<connection, sreason, client, slot, posters, events, ending>>

(* The switch, and the resume.  maybe_send_message alone looks at the       *)
(* connection again.                                                        *)
SleepDispatch ==
  /\ pc["sleep"] = "notify"
  /\ flag' = [t \in ThreadNames |->
                flag[t] \/ (t \in Served(sreason) /\ (t = "message" => nc = "up"))]
  /\ paused' = FALSE
  /\ Loops
  /\ UNCHANGED <<connection, at, running, thread, slot, posters, events, ending>>

-----------------------------------------------------------------------------
(* The client threads: what they wait for. *)

ThreadWake(t) ==
  /\ thread[t] = "wait"
  /\ flag[t]
  /\ flag' = [flag EXCEPT ![t] = FALSE]
  /\ thread' = [thread EXCEPT ![t] = IF running[t] THEN "work" ELSE "ended"]
  /\ UNCHANGED <<connection, pc, sreason, at, running, slot, paused, posters, events, ending>>

(* The command thread has always something to post, an empty result at      *)
(* least; send_payload takes the mutex of the watch tree.                   *)
ThreadWork(t) ==
  /\ thread[t] = "work"
  /\ t = "payload" => ~loop
  /\ thread' = [thread EXCEPT ![t] = IF t = "command" THEN "post" ELSE "wait"]
  /\ UNCHANGED <<connection, pc, sreason, at, running, flag, slot, paused, posters, events, ending>>

(* notify_reason, at the end of command_handle_result *)
CommandPost ==
  /\ thread["command"] = "post"
  /\ slot = "none"
  /\ slot' = "cmd_result"
  /\ thread' = [thread EXCEPT !["command"] = "wait"]
  /\ UNCHANGED <<connection, pc, sreason, at, running, flag, paused, posters, events, ending>>

-----------------------------------------------------------------------------
Happens == events < MaxEvents /\ events' = events + 1

(* The delivery threads and the watcher's loop thread. *)

Deliver(c, reason) ==
  /\ nc = "up" /\ subscribed
  /\ Happens
  /\ delivery[c] = "none"
  /\ delivery' = [delivery EXCEPT ![c] = reason]
  /\ UNCHANGED <<connection, pc, sreason, client, slot, paused, loop, ending>>

DeliveryPost(c) ==
  /\ delivery[c] # "none"
  /\ slot = "none"
  /\ slot' = delivery[c]
  /\ delivery' = [delivery EXCEPT ![c] = "none"]
  /\ UNCHANGED <<connection, pc, sreason, client, paused, loop, events, ending>>

(* watch_tree::notify *)
NotifyLock ==
  /\ ~loop
  /\ Happens
  /\ loop' = TRUE
  /\ UNCHANGED <<connection, pc, sreason, client, slot, paused, delivery, ending>>

NotifyPost ==
  /\ loop
  /\ slot = "none"
  /\ slot' = "send_payload"
  /\ loop' = FALSE
  /\ UNCHANGED <<connection, pc, sreason, client, paused, delivery, events, ending>>

-----------------------------------------------------------------------------
(* The timer thread and the network. *)

TimerCallback(ip) ==
  /\ pc["timer"] = "idle"
  /\ Happens
  /\ ~paused
  /\ Goto("timer", IF nc = "up" THEN "beat" ELSE IF ip THEN "lock" ELSE "idle")
  /\ UNCHANGED <<connection, sreason, client, slot, paused, posters, ending>>

(* test_sleep_thread: its APC runs on the timer thread after the callback; *)
(* the handle of a SleepThread that ended is not null.  In a service that  *)
(* is being stopped the APC may be refused.                                *)
TestSleepThread ==
  /\ pc["timer"] = "beat"
  /\ \/ slot = "none" /\ slot' = "cmd__empty"
     \/ told /\ UNCHANGED slot
  /\ Goto("timer", "idle")
  /\ UNCHANGED <<connection, sreason, client, paused, posters, events, ending>>

(* stop_threadpool: the flags, and the APC that posts the reason, which the *)
(* timer thread runs unless it sees its flag before.                        *)
StopThreadpool ==
  /\ Stops /\ ~told
  /\ told' = TRUE
  /\ UNCHANGED <<connection, pc, sreason, client, slot, paused, posters, events, crash>>

TimerEnds ==
  /\ told
  /\ \/ pc["timer"] = "idle" /\ \E place \in {"exit", "ended"} : Goto("timer", place) /\ UNCHANGED slot
     \/ pc["timer"] = "exit" /\ slot = "none" /\ slot' = "exit__thread" /\ Goto("timer", "ended")
  /\ UNCHANGED <<connection, sreason, client, paused, posters, events, ending>>

Drop ==
  /\ nc = "up"
  /\ Happens
  /\ nc' = "down"
  /\ UNCHANGED <<subscribed, mutex, trouble, pc, sreason, client, slot, paused, posters, ending>>

(* nats.c reconnects by itself. *)
Reconnect ==
  /\ nc = "down"
  /\ nc' = "up"
  /\ UNCHANGED <<subscribed, mutex, trouble, pc, sreason, client, slot, paused, posters, events, ending>>

-----------------------------------------------------------------------------
Sleep == SleepWait \/ SleepPause \/ SleepDispatch \/ \E ip \in BOOLEAN : SleepStart(ip) \/ SleepCheck(ip)
ClientThread == CommandPost \/ \E t \in ThreadNames : ThreadWake(t) \/ ThreadWork(t)

(* A step of a thread that has something to do ... *)
Step == \/ \E a \in Callers : Connect(a)
        \/ Close
        \/ Sleep
        \/ ClientThread
        \/ \E c \in Channels : DeliveryPost(c)
        \/ NotifyPost
        \/ TestSleepThread
        \/ TimerEnds

(* ... and what comes from outside. *)
Outside == \/ \E c \in Channels : \E reason \in Posted(c) : Deliver(c, reason)
           \/ NotifyLock
           \/ \E ip \in BOOLEAN : TimerCallback(ip)
           \/ Drop \/ Reconnect
           \/ StopThreadpool

Alive == crash = "no"

Next == Alive /\ (Step \/ Outside)

Spec == Init /\ [][Next]_vars

(* The threads run on as long as one of them can.  What comes from outside  *)
(* is bounded and each of it is worth finitely many steps, so that this     *)
(* serves every thread that is not blocked, the spinning ones included.     *)
FairSpec == Spec /\ WF_vars(Alive /\ Step)

-----------------------------------------------------------------------------
TypeConnection ==
  /\ nc \in {"null", "up", "down"} /\ subscribed \in BOOLEAN
  /\ mutex \in Callers \cup {"free"}
  /\ trouble \subseteq {"no_headers", "early_drop", "revived"}
  /\ told \in BOOLEAN /\ crash \in {"no", "in_use", "assertion", "joined", "assigned"}

Places == {"start", "ended", "wait", "check", "pause", "notify", "idle", "beat", "exit", "none",
           "lock", "destroy", "dial", "assert", "stop", "join", "spawn"}

TypeCallers ==
  /\ pc \in [Stoppers -> Places]
  /\ pc["sleep"] \notin {"idle", "beat", "exit", "none"}
  /\ pc["timer"] \notin {"start", "wait", "check", "pause", "notify", "none"}
  /\ pc["close"] \in {"none", "destroy", "stop", "join", "ended"}
  /\ (pc["timer"] \in {"exit", "ended"} \/ pc["close"] # "none") => told
  /\ sreason \in Reasons \cup {"none", "startup"}
  /\ paused \in BOOLEAN /\ (paused <=> pc["sleep"] = "notify")

TypeThreads ==
  /\ at \in [Stoppers -> 1..Len(Threads)]
  /\ running \in [ThreadNames -> BOOLEAN]
  /\ flag \in [ThreadNames -> BOOLEAN]
  /\ thread \in [ThreadNames -> {"none", "wait", "work", "post", "ended"}]
  /\ \A t \in ThreadNames : thread[t] = "post" => t = "command"

TypePosters ==
  /\ slot \in Reasons \cup {"none"} /\ (slot = "exit__thread" => told)
  /\ delivery \in [Channels -> (Reasons \ {"exit__thread"}) \cup {"none"}]
  /\ loop \in BOOLEAN
  /\ events \in 0..MaxEvents

(* Every variable has its type. *)
TypeOK == TypeConnection /\ TypeCallers /\ TypeThreads /\ TypePosters

(* Until the service is told to stop, the client's mutex keeps the two      *)
(* callers of connect apart: the connection that it asserts to have is      *)
(* there, no thread is joined twice, none is assigned to that still runs.   *)
(* Only a client thread or a heart-beat on the connection that connect      *)
(* destroys, before it stops the threads, can end the process.              *)
CrashesAreAtTheStop == crash \in {"no", "in_use"} \/ told

(* A connection that counts as made has its subscriptions and its four      *)
(* threads, except the two ways in which connect fails and leaves one.      *)
ConnectionIsServed ==
  mutex = "free" /\ nc = "up" /\ trouble = {} /\ ~told =>
    subscribed /\ \A t \in ThreadNames : running[t] /\ thread[t] \in {"wait", "work", "post"}

(* When the SleepThread has closed the client and nobody connects, the      *)
(* connection and the client threads are gone, unless the timer callback    *)
(* made them anew behind its back.                                          *)
ClosedAtStop ==
  pc["close"] = "ended" /\ mutex = "free" /\ crash = "no" /\ "revived" \notin trouble
  => nc = "null" /\ ~subscribed /\ \A t \in ThreadNames : thread[t] = "none"

(* The thread that a joins waits for the slot, itself or by the tree's      *)
(* mutex, and the SleepThread, which would empty it, is the one that joins, *)
(* waits for it to leave connect, or has left its loop.                     *)
JoinsPoster(a) ==
  \/ Joining(a, "command") /\ thread["command"] = "post"
  \/ Joining(a, "payload") /\ thread["payload"] = "work" /\ loop
Wedged == /\ slot # "none" /\ pc["sleep"] \in {"join", "lock", "ended"}
          /\ \E a \in Stoppers : JoinsPoster(a)

(* Once they wait for each other like that they do so for ever, until the   *)
(* service is told to stop.                                                 *)
WedgeIsForEver == [][Wedged /\ ~told' => Wedged']_vars

(* A thread has something to do and nobody to wait for.                     *)
Unblocked ==
  \/ \E a \in Callers : \/ pc[a] = "lock" /\ mutex = "free"
                        \/ pc[a] \in {"destroy", "dial", "assert", "spawn"}
  \/ \E a \in Stoppers : \/ pc[a] = "stop"
                         \/ pc[a] = "join" /\ thread[Threads[at[a]]] \in {"none", "ended"}
  \/ pc["close"] = "destroy"
  \/ pc["sleep"] \in {"start", "check", "pause", "notify"} \/ (pc["sleep"] = "wait" /\ slot # "none")
  \/ \E t \in ThreadNames : \/ thread[t] = "wait" /\ flag[t]
                            \/ thread[t] = "work" /\ (t = "payload" => ~loop)
  \/ /\ slot = "none"
     /\ thread["command"] = "post" \/ loop \/ pc["timer"] \in {"beat", "exit"}
        \/ \E c \in Channels : delivery[c] # "none"
  \/ told /\ pc["timer"] \in {"idle", "beat"}

(* Nothing else stops the service: when no thread can go on, each of them   *)
(* waits for something to come from outside, unless threads wait for each   *)
(* other as above, the SleepThread ended, at startup or at the stop, or the *)
(* timer callback made the threads anew that close was joining.  Who is     *)
(* called unblocked above has a step, and nobody else.                      *)
AtRest ==
  /\ pc["sleep"] = "wait" /\ pc["timer"] \in {"idle", "ended"} /\ slot = "none"
  /\ \A c \in Channels : delivery[c] = "none"
  /\ ~loop
  /\ pc["close"] \in {"none", "ended"}
  /\ \A t \in ThreadNames : thread[t] = "none" \/ (thread[t] = "wait" /\ ~flag[t])
Stalled ==
  \/ Wedged
  \/ \E t \in ThreadNames : Joining("close", t) /\ running[t]
  \/ (pc["sleep"] = "ended" /\ pc["close"] \in {"none", "ended"})
OnlyOutsideIsAwaited == Alive => Unblocked \/ AtRest \/ Stalled
NoOtherDeadlock == OnlyOutsideIsAwaited /\ (Unblocked <=> ENABLED Step)

(* docs/code_flow.md, steps 7 and 9 of a command: the SleepThread, once it  *)
(* has served its reason, sleeps again, if it is not told to stop and the   *)
(* process lives.                                                           *)
SleepThreadSleepsAgain == pc["sleep"] = "check" ~> (pc["sleep"] = "wait" \/ told \/ ~Alive)
==============================================================================
