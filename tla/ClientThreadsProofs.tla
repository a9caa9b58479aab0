------------------------- MODULE ClientThreadsProofs -------------------------
(***************************************************************************)
(* Proofs about ClientThreads, for any channels and any number of events:  *)
(* its types, the exclusion that the client's mutex gives until the stop,  *)
(* that a connection is served, that the stop leaves nothing behind, that  *)
(* the wedge of connect and the posters is for ever, that there is no      *)
(* other deadlock, and that the threads cannot keep each other busy.       *)
(***************************************************************************)
EXTENDS ClientThreads, TLAPS

(* The four threads, by position. *)
LEMMA ThreadsAre ==
  /\ Len(Threads) = 4
  /\ \A i \in 1..4 : Threads[i] \in ThreadNames
  /\ ThreadNames = {"message", "command", "payload", "synfile"}
  /\ Threads[1] = "message" /\ Threads[2] = "command" /\ Threads[3] = "payload"
  /\ Threads[4] = "synfile"
  BY DEF Threads, ThreadNames

(* How a step moves those who stop the threads: only a, and close when the  *)
(* SleepThread leaves its loop.                                             *)
Moves(a, places) ==
  /\ pc' \in [Stoppers -> Places] /\ pc'[a] \in places
  /\ \A b \in Callers \ {a} : pc'[b] = pc[b]
  /\ a # "close" => pc'["close"] = pc["close"] \/ (a = "sleep" /\ told /\ pc'["close"] = "destroy")

LEMMA Going ==
  ASSUME TypeCallers, NEW a \in Stoppers, NEW p \in Places, Goto(a, p)
  PROVE  Moves(a, {p})
  BY DEF TypeCallers, Goto, Moves, Stoppers, Callers

LEMMA Looping ==
  ASSUME TypeCallers, Loops
  PROVE  Moves("sleep", {"wait", "ended"}) /\ sreason' = "none"
<1>1. CASE told
  <2>1. pc' = [pc EXCEPT !["sleep"] = "ended", !["close"] = "destroy"]
    BY <1>1 DEF Loops
  <2> QED
    BY <1>1, <2>1 DEF Loops, TypeCallers, Moves, Stoppers, Callers, Places
<1>2. CASE ~told
  <2>1. pc' = [pc EXCEPT !["sleep"] = "wait"]
    BY <1>2 DEF Loops
  <2> QED
    BY <2>1 DEF Loops, TypeCallers, Moves, Stoppers, Callers, Places
<1> QED
  BY <1>1, <1>2

LEMMA Returns ==
  ASSUME TypeCallers, NEW a \in Callers, NEW ok \in BOOLEAN, ConnectReturns(a, ok)
  PROVE  /\ Moves(a, IF a = "timer" THEN {"beat", "idle"} ELSE {"wait", "ended", "pause"})
         /\ mutex' = "free" /\ sreason' \in {sreason, "none"}
<1>1. CASE Loops /\ a = "sleep"
  BY <1>1, Looping DEF ConnectReturns, Moves
<1>2. CASE a = "timer"
  <2>1. \E p \in {"beat", "idle"} : Goto("timer", p)
    BY <1>2 DEF ConnectReturns
  <2> QED
    BY <1>2, <2>1, Going DEF ConnectReturns, Moves, Places, Stoppers
<1>3. CASE a = "sleep" /\ ~Loops
  <2>1. \E p \in {"pause", "ended"} : Goto("sleep", p)
    BY <1>3 DEF ConnectReturns
  <2> QED
    BY <1>3, <2>1, Going DEF ConnectReturns, Moves, Places, Stoppers
<1> QED
  BY <1>1, <1>2, <1>3 DEF Callers

(* What TypeCallers needs of a step. *)
LEMMA CallersMove ==
  ASSUME TypeCallers, NEW a \in Stoppers, NEW P, Moves(a, P),
         a = "sleep" => P \subseteq {"wait", "ended", "check", "pause", "notify", "lock", "destroy",
                                     "dial", "assert", "stop", "join", "spawn"},
         a = "timer" => P \subseteq {"idle", "beat", "lock", "destroy", "dial", "assert", "stop",
                                     "join", "spawn"} \cup (IF told THEN {"exit", "ended"} ELSE {}),
         a = "close" => P \subseteq {"stop", "join", "ended"} /\ told,
         sreason' \in Reasons \cup {"none", "startup"},
         paused' \in BOOLEAN, paused' <=> pc'["sleep"] = "notify",
         told' = told
  PROVE  TypeCallers'
<1>1. \A b \in Callers : b # a => pc'[b] = pc[b]
  BY DEF Moves
<1>2. pc'["close"] # "none" => told
  BY DEF Moves, TypeCallers, Stoppers
<1>3. pc'["close"] \in {"none", "destroy", "stop", "join", "ended"}
  BY DEF Moves, TypeCallers, Stoppers
<1>4. /\ pc'["sleep"] \notin {"idle", "beat", "exit", "none"}
      /\ pc'["timer"] \notin {"start", "wait", "check", "pause", "notify", "none"}
      /\ pc'["timer"] \in {"exit", "ended"} => told
  BY <1>1 DEF Moves, TypeCallers, Stoppers, Callers
<1> QED
  BY <1>2, <1>3, <1>4 DEF Moves, TypeCallers

(* Every step keeps the types. *)
LEMMA TypeStep == TypeOK /\ [Next]_vars => TypeOK'
<1> SUFFICES ASSUME TypeOK, [Next]_vars PROVE TypeOK'
  OBVIOUS
<1>0. TypeConnection /\ TypeCallers /\ TypeThreads /\ TypePosters
  BY DEF TypeOK
<1> USE BoundsAssumption, ChannelsAssumption DEF connection, client, posters, ending
<1>1. ASSUME NEW a \in Callers, ConnectLock(a) PROVE TypeOK'
  <2>1. TypeCallers'
    <3>1. Goto(a, "destroy") /\ UNCHANGED <<sreason, told>>
      BY <1>1 DEF ConnectLock
    <3>2. Moves(a, {"destroy"})
      BY <1>0, <3>1, Going DEF Places, Stoppers, Callers
    <3> QED
      BY <1>0, <1>1, <3>1, <3>2, CallersMove DEF ConnectLock, TypeCallers, Moves, Stoppers, Callers
  <2>2. TypeConnection'
    BY <1>0, <1>1 DEF ConnectLock, TypeConnection
  <2>3. TypeThreads' /\ TypePosters'
    BY <1>0, <1>1 DEF ConnectLock, TypeThreads, TypePosters
  <2> QED
    BY <2>1, <2>2, <2>3 DEF TypeOK
<1>2. ASSUME NEW a \in Callers, ConnectDestroy(a) PROVE TypeOK'
  <2>1. TypeCallers'
    <3>1. Goto(a, "dial") /\ UNCHANGED <<sreason, told>>
      BY <1>2 DEF ConnectDestroy
    <3>2. Moves(a, {"dial"})
      BY <1>0, <3>1, Going DEF Places, Stoppers, Callers
    <3> QED
      BY <1>0, <1>2, <3>1, <3>2, CallersMove DEF ConnectDestroy, TypeCallers, Moves, Stoppers, Callers
  <2>2. TypeConnection'
    BY <1>0, <1>2 DEF ConnectDestroy, MayCrash, TypeConnection
  <2>3. TypeThreads' /\ TypePosters'
    BY <1>0, <1>2 DEF ConnectDestroy, TypeThreads, TypePosters
  <2> QED
    BY <2>1, <2>2, <2>3 DEF TypeOK
<1>3. ASSUME NEW a \in Callers, ConnectDial(a) PROVE TypeOK'
  <2>1. TypeCallers'
    <3>1. CASE Goto(a, "assert") /\ UNCHANGED sreason
      <4>1. Moves(a, {"assert"}) /\ UNCHANGED <<told, paused>> /\ pc[a] # "notify"
        BY <1>0, <1>3, <3>1, Going DEF ConnectDial, Places, Stoppers
      <4> QED
        BY <1>0, <3>1, <4>1, CallersMove DEF TypeCallers, Moves, Stoppers, Callers
    <3>2. CASE ConnectReturns(a, FALSE)
      <4>1. Moves(a, IF a = "timer" THEN {"beat", "idle"} ELSE {"wait", "ended", "pause"})
            /\ sreason' \in {sreason, "none"}
        BY <1>0, <3>2, Returns
      <4>2. UNCHANGED <<told, paused>> /\ pc[a] # "notify"
        BY <1>3 DEF ConnectDial
      <4> QED
        BY <1>0, <4>1, <4>2, CallersMove DEF TypeCallers, Moves, Stoppers, Callers
    <3> QED
      BY <1>3, <3>1, <3>2 DEF ConnectDial
  <2>2. TypeConnection'
    BY <1>0, <1>3 DEF ConnectDial, ConnectReturns, Late, TypeConnection
  <2>3. TypeThreads' /\ TypePosters'
    BY <1>0, <1>3 DEF ConnectDial, TypeThreads, TypePosters
  <2> QED
    BY <2>1, <2>2, <2>3 DEF TypeOK
<1>4. ASSUME NEW a \in Callers, ConnectTest(a) PROVE TypeOK'
  <2>1. TypeCallers'
    <3>1. CASE Goto(a, "stop") /\ UNCHANGED sreason
      <4>1. Moves(a, {"stop"}) /\ UNCHANGED <<told, paused>> /\ pc[a] # "notify"
        BY <1>0, <1>4, <3>1, Going DEF ConnectTest, Places, Stoppers
      <4> QED
        BY <1>0, <3>1, <4>1, CallersMove DEF TypeCallers, Moves, Stoppers, Callers
    <3>2. CASE ConnectReturns(a, FALSE)
      <4>1. Moves(a, IF a = "timer" THEN {"beat", "idle"} ELSE {"wait", "ended", "pause"})
            /\ sreason' \in {sreason, "none"}
        BY <1>0, <3>2, Returns
      <4>2. UNCHANGED <<told, paused>> /\ pc[a] # "notify"
        BY <1>4 DEF ConnectTest
      <4> QED
        BY <1>0, <4>1, <4>2, CallersMove DEF TypeCallers, Moves, Stoppers, Callers
    <3> QED
      BY <1>4, <3>1, <3>2 DEF ConnectTest
  <2>2. TypeConnection'
    BY <1>0, <1>4 DEF ConnectTest, ConnectReturns, MayCrash, TypeConnection
  <2>3. TypeThreads' /\ TypePosters'
    BY <1>0, <1>4 DEF ConnectTest, TypeThreads, TypePosters
  <2> QED
    BY <2>1, <2>2, <2>3 DEF TypeOK
<1>5. ASSUME NEW a \in Stoppers, StopThread(a) PROVE TypeOK'
  <2>1. TypeCallers'
    <3>1. \E p \in {"stop", "join", "spawn", "ended"} :
            Goto(a, p) /\ (p = "ended" <=> p = "ended" /\ a = "close") /\ (p = "spawn" => a # "close")
      BY <1>5 DEF StopThread, NextThread
    <3>2. PICK p \in {"stop", "join", "spawn", "ended"} :
            Moves(a, {p}) /\ (p = "ended" => a = "close") /\ (p = "spawn" => a # "close")
      BY <1>0, <3>1, Going DEF Places
    <3>3. UNCHANGED <<sreason, told, paused>> /\ pc[a] \notin {"notify", "none"}
      BY <1>5 DEF StopThread
    <3> QED
      BY <1>0, <3>2, <3>3, CallersMove DEF TypeCallers, Moves, Stoppers, Callers
  <2>2. TypeThreads'
    <3>1. at' \in [Stoppers -> 1..Len(Threads)] /\ UNCHANGED thread
      BY <1>0, <1>5, ThreadsAre DEF StopThread, TypeThreads, NextThread
    <3>2. running' \in [ThreadNames -> BOOLEAN] /\ flag' \in [ThreadNames -> BOOLEAN]
      BY <1>0, <1>5 DEF StopThread, TypeThreads
    <3> QED
      BY <1>0, <3>1, <3>2 DEF TypeThreads
  <2>3. TypeConnection' /\ TypePosters'
    BY <1>0, <1>5 DEF StopThread, TypeConnection, TypePosters
  <2> QED
    BY <2>1, <2>2, <2>3 DEF TypeOK
<1>6. ASSUME NEW a \in Stoppers, JoinThread(a) PROVE TypeOK'
  <2>1. TypeCallers'
    <3>1. \E p \in {"stop", "join", "spawn", "ended"} :
            Goto(a, p) /\ (p = "ended" <=> p = "ended" /\ a = "close") /\ (p = "spawn" => a # "close")
      BY <1>6 DEF JoinThread, NextThread
    <3>2. PICK p \in {"stop", "join", "spawn", "ended"} :
            Moves(a, {p}) /\ (p = "ended" => a = "close") /\ (p = "spawn" => a # "close")
      BY <1>0, <3>1, Going DEF Places
    <3>3. UNCHANGED <<sreason, told, paused>> /\ pc[a] \notin {"notify", "none"}
      BY <1>6 DEF JoinThread
    <3> QED
      BY <1>0, <3>2, <3>3, CallersMove DEF TypeCallers, Moves, Stoppers, Callers
  <2>2. TypeThreads'
    <3>1. at' \in [Stoppers -> 1..Len(Threads)] /\ UNCHANGED <<running, flag>>
      BY <1>0, <1>6, ThreadsAre DEF JoinThread, TypeThreads, NextThread
    <3>2. thread' = [thread EXCEPT ![Threads[at[a]]] = "none"]
      BY <1>6 DEF JoinThread
    <3> QED
      BY <1>0, <3>1, <3>2 DEF TypeThreads
  <2>3. TypeConnection'
    BY <1>0, <1>6 DEF JoinThread, MayCrash, TypeConnection
  <2>4. TypePosters'
    BY <1>0, <1>6 DEF JoinThread, TypePosters
  <2> QED
    BY <2>1, <2>2, <2>3, <2>4 DEF TypeOK
<1>7. ASSUME NEW a \in Callers, StartThreads(a) PROVE TypeOK'
  <2>1. TypeCallers'
    <3>1. ConnectReturns(a, TRUE) /\ UNCHANGED <<told, paused>> /\ pc[a] # "notify"
      BY <1>7 DEF StartThreads
    <3>2. Moves(a, IF a = "timer" THEN {"beat", "idle"} ELSE {"wait", "ended", "pause"})
          /\ sreason' \in {sreason, "none"}
      BY <1>0, <3>1, Returns
    <3> QED
      BY <1>0, <3>1, <3>2, CallersMove DEF TypeCallers, Moves, Stoppers, Callers
  <2>2. TypeThreads'
    BY <1>0, <1>7 DEF StartThreads, TypeThreads
  <2>3. TypeConnection'
    BY <1>0, <1>7 DEF StartThreads, ConnectReturns, Late, TypeConnection
  <2>4. TypePosters'
    BY <1>0, <1>7 DEF StartThreads, TypePosters
  <2> QED
    BY <2>1, <2>2, <2>3, <2>4 DEF TypeOK
<1>8. CASE CloseDestroy
  <2>1. TypeCallers'
    <3>1. Goto("close", "stop") /\ UNCHANGED <<sreason, told, paused>> /\ pc["close"] = "destroy"
      BY <1>8 DEF CloseDestroy
    <3>2. Moves("close", {"stop"})
      BY <1>0, <3>1, Going DEF Places, Stoppers
    <3> QED
      BY <1>0, <3>1, <3>2, CallersMove DEF TypeCallers, Moves, Stoppers, Callers
  <2>2. TypeConnection'
    BY <1>0, <1>8 DEF CloseDestroy, MayCrash, TypeConnection
  <2>3. TypeThreads' /\ TypePosters'
    BY <1>0, <1>8 DEF CloseDestroy, TypeThreads, TypePosters
  <2> QED
    BY <2>1, <2>2, <2>3 DEF TypeOK
<1>9. ASSUME NEW ip \in BOOLEAN, SleepStart(ip) PROVE TypeOK'
  <2>1. TypeCallers'
    <3>1. \E p \in {"lock", "ended"} : Goto("sleep", p)
      BY <1>9 DEF SleepStart
    <3>2. Moves("sleep", {"lock", "ended"})
      BY <1>0, <3>1, Going DEF Moves, Places, Stoppers, Callers
    <3> QED
      BY <1>0, <1>9, <3>2, CallersMove DEF SleepStart, TypeCallers, Moves, Stoppers, Callers
  <2>2. TypeConnection' /\ TypeThreads' /\ TypePosters'
    BY <1>0, <1>9 DEF SleepStart, TypeConnection, TypeThreads, TypePosters
  <2> QED
    BY <2>1, <2>2 DEF TypeOK
<1>10. CASE SleepWait
  <2>1. TypeCallers'
    <3>1. CASE slot = "exit__thread"
      <4>1. pc' = [pc EXCEPT !["sleep"] = "ended", !["close"] = "destroy"] /\ told
        BY <1>0, <1>10, <3>1 DEF SleepWait, TypePosters
      <4>2. Moves("sleep", {"ended"})
        BY <1>0, <4>1 DEF TypeCallers, Moves, Stoppers, Callers, Places
      <4> QED
        BY <1>0, <1>10, <4>2, CallersMove DEF SleepWait, TypeCallers, TypePosters, Moves, Stoppers, Callers
    <3>2. CASE slot # "exit__thread"
      <4>1. Goto("sleep", "check")
        BY <1>10, <3>2 DEF SleepWait
      <4>2. Moves("sleep", {"check"})
        BY <1>0, <4>1, Going DEF Places, Stoppers, Callers
      <4> QED
        BY <1>0, <1>10, <4>2, CallersMove DEF SleepWait, TypeCallers, TypePosters, Moves, Stoppers, Callers
    <3> QED
      BY <3>1, <3>2
  <2>2. TypePosters'
    BY <1>0, <1>10 DEF SleepWait, TypePosters
  <2>3. TypeConnection' /\ TypeThreads'
    BY <1>0, <1>10 DEF SleepWait, TypeConnection, TypeThreads
  <2> QED
    BY <2>1, <2>2, <2>3 DEF TypeOK
<1>11. ASSUME NEW ip \in BOOLEAN, SleepCheck(ip) PROVE TypeOK'
  <2>1. TypeCallers'
    <3>1. CASE Loops
      <4>1. Moves("sleep", {"wait", "ended"}) /\ sreason' = "none"
        BY <1>0, <3>1, Looping
      <4> QED
        BY <1>0, <1>11, <4>1, CallersMove DEF SleepCheck, TypeCallers, Moves, Stoppers, Callers
    <3>2. CASE ~Loops
      <4>1. \E p \in {"pause", "lock"} : Goto("sleep", p) /\ UNCHANGED sreason
        BY <1>11, <3>2 DEF SleepCheck
      <4>2. Moves("sleep", {"pause", "lock"})
        BY <1>0, <4>1, Going DEF Moves, Places, Stoppers, Callers
      <4> QED
        BY <1>0, <1>11, <4>1, <4>2, CallersMove DEF SleepCheck, TypeCallers, Moves, Stoppers, Callers
    <3> QED
      BY <3>1, <3>2
  <2>2. TypeConnection' /\ TypeThreads' /\ TypePosters'
    BY <1>0, <1>11 DEF SleepCheck, TypeConnection, TypeThreads, TypePosters
  <2> QED
    BY <2>1, <2>2 DEF TypeOK
<1>12. CASE SleepPause
  <2>1. TypeCallers'
    <3>1. \E p \in {"notify"} : Goto("sleep", p)
      BY <1>12 DEF SleepPause
    <3>2. Moves("sleep", {"notify"})
      BY <1>0, <3>1, Going DEF Moves, Places, Stoppers, Callers
    <3> QED
      BY <1>0, <1>12, <3>2, CallersMove DEF SleepPause, TypeCallers, Moves, Stoppers, Callers
  <2>2. TypeConnection' /\ TypeThreads' /\ TypePosters'
    BY <1>0, <1>12 DEF SleepPause, TypeConnection, TypeThreads, TypePosters
  <2> QED
    BY <2>1, <2>2 DEF TypeOK
<1>13. CASE SleepDispatch
  <2>1. TypeCallers'
    <3>1. Moves("sleep", {"wait", "ended"}) /\ sreason' = "none"
      BY <1>0, <1>13, Looping DEF SleepDispatch
    <3> QED
      BY <1>0, <1>13, <3>1, CallersMove DEF SleepDispatch, TypeCallers, Moves, Stoppers, Callers
  <2>2. TypeThreads'
    <3>1. flag' \in [ThreadNames -> BOOLEAN]
      BY <1>0, <1>13 DEF SleepDispatch, TypeThreads
    <3> QED
      BY <1>0, <1>13, <3>1 DEF SleepDispatch, TypeThreads
  <2>3. TypeConnection' /\ TypePosters'
    BY <1>0, <1>13 DEF SleepDispatch, TypeConnection, TypePosters
  <2> QED
    BY <2>1, <2>2, <2>3 DEF TypeOK
<1>14. ASSUME NEW t \in ThreadNames, ThreadWake(t) PROVE TypeOK'
  <2>1. TypeThreads'
    BY <1>0, <1>14, ThreadsAre DEF ThreadWake, TypeThreads
  <2>2. TypeConnection' /\ TypeCallers' /\ TypePosters'
    BY <1>0, <1>14 DEF ThreadWake, TypeConnection, TypeCallers, TypePosters
  <2> QED
    BY <2>1, <2>2 DEF TypeOK
<1>15. ASSUME NEW t \in ThreadNames, ThreadWork(t) PROVE TypeOK'
  <2>1. TypeThreads'
    BY <1>0, <1>15, ThreadsAre DEF ThreadWork, TypeThreads
  <2>2. TypeConnection' /\ TypeCallers' /\ TypePosters'
    BY <1>0, <1>15 DEF ThreadWork, TypeConnection, TypeCallers, TypePosters
  <2> QED
    BY <2>1, <2>2 DEF TypeOK
<1>16. CASE CommandPost
  <2>1. TypeThreads'
    BY <1>0, <1>16, ThreadsAre DEF CommandPost, TypeThreads
  <2>2. TypePosters'
    BY <1>0, <1>16 DEF CommandPost, TypePosters, Reasons
  <2>3. TypeConnection' /\ TypeCallers'
    BY <1>0, <1>16 DEF CommandPost, TypeConnection, TypeCallers
  <2> QED
    BY <2>1, <2>2, <2>3 DEF TypeOK
<1>17. ASSUME NEW c \in Channels, DeliveryPost(c) PROVE TypeOK'
  <2>1. TypePosters'
    BY <1>0, <1>17, ThreadsAre DEF DeliveryPost, TypePosters
  <2>2. TypeConnection' /\ TypeCallers' /\ TypeThreads'
    BY <1>0, <1>17 DEF DeliveryPost, TypeConnection, TypeCallers, TypeThreads
  <2> QED
    BY <2>1, <2>2 DEF TypeOK
<1>18. CASE NotifyLock
  <2>1. TypePosters'
    BY <1>0, <1>18, ThreadsAre DEF NotifyLock, TypePosters, Happens
  <2>2. TypeConnection' /\ TypeCallers' /\ TypeThreads'
    BY <1>0, <1>18 DEF NotifyLock, TypeConnection, TypeCallers, TypeThreads
  <2> QED
    BY <2>1, <2>2 DEF TypeOK
<1>19. CASE NotifyPost
  <2>1. TypePosters'
    BY <1>0, <1>19, ThreadsAre DEF NotifyPost, TypePosters, Reasons
  <2>2. TypeConnection' /\ TypeCallers' /\ TypeThreads'
    BY <1>0, <1>19 DEF NotifyPost, TypeConnection, TypeCallers, TypeThreads
  <2> QED
    BY <2>1, <2>2 DEF TypeOK
<1>20. ASSUME NEW ip \in BOOLEAN, TimerCallback(ip) PROVE TypeOK'
  <2>1. TypeCallers'
    <3>1. \E p \in {"beat", "lock", "idle"} : Goto("timer", p)
      BY <1>20 DEF TimerCallback
    <3>2. Moves("timer", {"beat", "lock", "idle"})
      BY <1>0, <3>1, Going DEF Moves, Places, Stoppers, Callers
    <3> QED
      BY <1>0, <1>20, <3>2, CallersMove DEF TimerCallback, TypeCallers, Moves, Stoppers, Callers
  <2>2. TypePosters'
    BY <1>0, <1>20 DEF TimerCallback, Happens, TypePosters
  <2>3. TypeConnection' /\ TypeThreads'
    BY <1>0, <1>20 DEF TimerCallback, TypeConnection, TypeThreads
  <2> QED
    BY <2>1, <2>2, <2>3 DEF TypeOK
<1>21. CASE TestSleepThread
  <2>1. TypeCallers'
    <3>1. \E p \in {"idle"} : Goto("timer", p)
      BY <1>21 DEF TestSleepThread
    <3>2. Moves("timer", {"idle"})
      BY <1>0, <3>1, Going DEF Moves, Places, Stoppers, Callers
    <3> QED
      BY <1>0, <1>21, <3>2, CallersMove DEF TestSleepThread, TypeCallers, Moves, Stoppers, Callers
  <2>2. TypePosters'
    BY <1>0, <1>21 DEF TestSleepThread, TypePosters, Reasons
  <2>3. TypeConnection' /\ TypeThreads'
    BY <1>0, <1>21 DEF TestSleepThread, TypeConnection, TypeThreads
  <2> QED
    BY <2>1, <2>2, <2>3 DEF TypeOK
<1>22. CASE TimerEnds
  <2>1. TypeCallers'
    <3>1. \E p \in {"exit", "ended"} : Goto("timer", p)
      BY <1>22 DEF TimerEnds
    <3>2. Moves("timer", {"exit", "ended"})
      BY <1>0, <3>1, Going DEF Moves, Places, Stoppers, Callers
    <3> QED
      BY <1>0, <1>22, <3>2, CallersMove DEF TimerEnds, TypeCallers, Moves, Stoppers, Callers
  <2>2. TypePosters'
    BY <1>0, <1>22 DEF TimerEnds, TypePosters, Reasons
  <2>3. TypeConnection' /\ TypeThreads'
    BY <1>0, <1>22 DEF TimerEnds, TypeConnection, TypeThreads
  <2> QED
    BY <2>1, <2>2, <2>3 DEF TypeOK
<1>23. CASE StopThreadpool
  <2>1. TypeConnection' /\ TypeCallers' /\ TypePosters'
    BY <1>0, <1>23 DEF StopThreadpool, TypeConnection, TypeCallers, TypePosters
  <2>2. TypeThreads'
    BY <1>0, <1>23 DEF StopThreadpool, TypeThreads
  <2> QED
    BY <2>1, <2>2 DEF TypeOK
<1>24. CASE Drop
  <2>1. TypeConnection' /\ TypePosters'
    BY <1>0, <1>24 DEF Drop, Happens, TypeConnection, TypePosters
  <2>2. TypeCallers' /\ TypeThreads'
    BY <1>0, <1>24 DEF Drop, TypeCallers, TypeThreads
  <2> QED
    BY <2>1, <2>2 DEF TypeOK
<1>25. CASE Reconnect
  <2>1. TypeConnection'
    BY <1>0, <1>25, ThreadsAre DEF Reconnect, TypeConnection
  <2>2. TypeCallers' /\ TypeThreads' /\ TypePosters'
    BY <1>0, <1>25 DEF Reconnect, TypeCallers, TypeThreads, TypePosters
  <2> QED
    BY <2>1, <2>2 DEF TypeOK
<1>26. ASSUME NEW c \in Channels, NEW reason \in Posted(c), Deliver(c, reason) PROVE TypeOK'
  <2>1. TypePosters'
    <3>1. reason \in Reasons \ {"exit__thread"}
      BY <1>26 DEF Posted, Reasons
    <3> QED
      BY <1>0, <1>26, <3>1 DEF Deliver, Happens, TypePosters
  <2>2. TypeConnection' /\ TypeCallers' /\ TypeThreads'
    BY <1>0, <1>26 DEF Deliver, TypeConnection, TypeCallers, TypeThreads
  <2> QED
    BY <2>1, <2>2 DEF TypeOK
<1>27. CASE UNCHANGED vars
  BY <1>0, <1>27 DEF vars, TypeOK, TypeConnection, TypeCallers, TypeThreads, TypePosters
<1> QED
  BY <1>1, <1>2, <1>3, <1>4, <1>5, <1>6, <1>7, <1>8, <1>9, <1>10, <1>11, <1>12, <1>13, <1>14, <1>15,
     <1>16, <1>17, <1>18, <1>19, <1>20, <1>21, <1>22, <1>23, <1>24, <1>25, <1>26, <1>27
     DEF Next, Step, Outside, Connect, Close, Sleep, ClientThread, Stoppers

LEMMA InitTypes == Init => TypeOK
<1> SUFFICES ASSUME Init PROVE TypeOK
  OBVIOUS
<1>1. TypeConnection /\ TypePosters
  <2>1. 0 \in 0..MaxEvents
    BY BoundsAssumption
  <2>2. TypeConnection
    BY DEF Init, TypeConnection
  <2> QED
    BY <2>1, <2>2 DEF Init, TypePosters, Reasons
<1>2. TypeCallers
  <2>1. /\ pc = [sleep |-> "start", timer |-> "idle", close |-> "none"]
        /\ sreason = "startup" /\ paused = FALSE
    BY DEF Init
  <2>2. /\ pc \in [Stoppers -> Places]
        /\ pc["sleep"] = "start" /\ pc["timer"] = "idle" /\ pc["close"] = "none"
    BY <2>1 DEF Stoppers, Callers, Places
  <2> QED
    BY <2>1, <2>2 DEF TypeCallers
<1>3. TypeThreads
  BY ThreadsAre DEF Init, TypeThreads
<1> QED
  BY <1>1, <1>2, <1>3 DEF TypeOK

(* For any channels and bounds: every variable has its type. *)
THEOREM TypeCorrect == Spec => []TypeOK
  BY InitTypes, TypeStep, PTL DEF Spec

-----------------------------------------------------------------------------
(* The mutex: its holder, and no other caller, is inside connect.           *)
Inside == {"destroy", "dial", "assert", "stop", "join", "spawn"}
Exclusion == \A a \in Callers : pc[a] \in Inside <=> mutex = a

(* Until the stop: while connect dials there is no connection, and when it  *)
(* asserts that it has one there is, since nobody else is between its lock  *)
(* and its return; a thread that is not marked running was joined, or is    *)
(* being joined; and connect has joined the threads before its position.    *)
Dialled == \A a \in Callers : /\ pc[a] = "dial" => nc = "null"
                              /\ pc[a] = "assert" => nc # "null"
Serves == subscribed /\ \A t \in ThreadNames : running[t] /\ thread[t] \in {"wait", "work", "post"}
Served0 == mutex = "free" /\ nc # "null" /\ trouble = {} => Serves
Joined == /\ \A t \in ThreadNames :
               running[t] \/ thread[t] = "none" \/ \E a \in Callers : Joining(a, t)
          /\ \A a \in Callers :
               /\ pc[a] \in {"stop", "join"} => \A i \in 1..(at[a] - 1) : thread[Threads[i]] = "none"
               /\ pc[a] = "spawn" => \A t \in ThreadNames : thread[t] = "none"
               /\ pc[a] \notin {"stop", "join"} => at[a] = 1
Settled == crash \in {"no", "in_use"} /\ Dialled /\ Served0 /\ Joined
CInv == TypeOK /\ Exclusion /\ (told \/ Settled)

(* Most steps do not concern it: a step of the SleepThread or the timer     *)
(* callback outside connect, one that moves neither of the two, and the     *)
(* close of the SleepThread that was told to stop.                          *)
OutsideStep(a) == /\ pc[a] \notin Inside \cup {"ended"} /\ Moves(a, Places \ Inside)
                  /\ UNCHANGED <<nc, subscribed, mutex, trouble, at, running, thread, crash>>
OtherStep == UNCHANGED <<pc, mutex, nc, subscribed, trouble, at, running, crash>>
NetworkStep == /\ UNCHANGED <<pc, mutex, subscribed, trouble, at, running, thread, crash>>
               /\ nc # "null" /\ nc' \in {"up", "down"}
ThreadStep == \E t \in ThreadNames :
                /\ thread[t] # "none"
                /\ \E p \in {"wait", "work", "post", "ended"} :
                     thread' = [thread EXCEPT ![t] = p] /\ (p = "ended" => ~running[t])

LEMMA Steps ==
  ASSUME TypeOK, [Next]_vars
  PROVE  \/ \E a \in Callers : Connect(a)
         \/ \E a \in Callers : OutsideStep(a)
         \/ told /\ Close
         \/ OtherStep /\ UNCHANGED thread
         \/ OtherStep /\ ThreadStep
         \/ NetworkStep
<1> USE DEF connection, client, posters, ending
<1>0. TypeCallers /\ TypePosters
  BY DEF TypeOK
<1>1. CASE \E a \in Callers : Connect(a)
  BY <1>1
<1>2. CASE Sleep
  <2>1. /\ pc["sleep"] \notin Inside \cup {"ended"}
        /\ UNCHANGED <<nc, subscribed, mutex, trouble, at, running, thread, crash>>
    BY <1>2 DEF Sleep, SleepStart, SleepWait, SleepCheck, SleepPause, SleepDispatch, Inside
  <2>2. Moves("sleep", Places \ Inside)
    <3>1. CASE Loops
      BY <1>0, <3>1, Looping DEF Moves, Places, Inside
    <3>2. CASE pc' = [pc EXCEPT !["sleep"] = "ended", !["close"] = "destroy"] /\ told
      BY <1>0, <3>2 DEF TypeCallers, Moves, Stoppers, Callers, Places, Inside
    <3>3. CASE \E p \in {"lock", "ended", "check", "pause", "notify"} : Goto("sleep", p)
      BY <1>0, <3>3, Going DEF Moves, Stoppers, Callers, Places, Inside
    <3> QED
      BY <1>0, <1>2, <3>1, <3>2, <3>3
      DEF Sleep, SleepStart, SleepWait, SleepCheck, SleepPause, SleepDispatch, TypePosters
  <2> QED
    BY <2>1, <2>2 DEF OutsideStep, Callers
<1>3. CASE TestSleepThread \/ TimerEnds \/ \E ip \in BOOLEAN : TimerCallback(ip)
  <2>1. /\ pc["timer"] \notin Inside \cup {"ended"}
        /\ UNCHANGED <<nc, subscribed, mutex, trouble, at, running, thread, crash>>
    BY <1>3 DEF TestSleepThread, TimerEnds, TimerCallback, Inside
  <2>2. \E p \in {"lock", "ended", "exit", "idle", "beat"} : Goto("timer", p)
    BY <1>3 DEF TestSleepThread, TimerEnds, TimerCallback
  <2>3. Moves("timer", Places \ Inside)
    BY <1>0, <2>2, Going DEF Moves, Stoppers, Callers, Places, Inside
  <2> QED
    BY <2>1, <2>3 DEF OutsideStep, Callers
<1>4. CASE Close
  <2>1. told
    BY <1>0, <1>4 DEF Close, CloseDestroy, StopThread, JoinThread, TypeCallers
  <2> QED
    BY <1>4, <2>1
<1>5. CASE ClientThread
  <2>1. OtherStep
    BY <1>5 DEF ClientThread, ThreadWake, ThreadWork, CommandPost, OtherStep
  <2>2. ThreadStep
    BY <1>5, ThreadsAre DEF ClientThread, ThreadWake, ThreadWork, CommandPost, ThreadStep
  <2> QED
    BY <2>1, <2>2
<1>6. CASE NotifyPost \/ NotifyLock \/ StopThreadpool \/ UNCHANGED vars
  BY <1>6 DEF NotifyPost, NotifyLock, StopThreadpool, vars, OtherStep
<1>7. CASE \E c \in Channels : DeliveryPost(c) \/ \E reason \in Posted(c) : Deliver(c, reason)
  BY <1>7 DEF DeliveryPost, Deliver, OtherStep
<1>8. CASE Drop \/ Reconnect
  BY <1>8 DEF Drop, Reconnect, NetworkStep
<1> QED
  BY <1>1, <1>2, <1>3, <1>4, <1>5, <1>6, <1>7, <1>8 DEF Next, Step, Outside

(* How a step of connect moves its caller.                                  *)
LEMMA ConnectMoves ==
  ASSUME TypeOK, NEW a \in Callers, Connect(a)
  PROVE  \/ ConnectLock(a) /\ Moves(a, {"destroy"}) /\ mutex = "free" /\ mutex' = a
         \/ pc[a] \in Inside /\ Moves(a, Inside) /\ mutex' = mutex
         \/ pc[a] \in Inside /\ Moves(a, Places \ Inside) /\ mutex' = "free"
<1>0. TypeCallers /\ a \in Stoppers
  BY DEF TypeOK, Stoppers
<1> USE DEF connection, client, posters, ending
<1>1. CASE ConnectLock(a)
  BY <1>0, <1>1, Going DEF ConnectLock, Places
<1>2. CASE \/ ConnectDestroy(a) \/ StopThread(a) \/ JoinThread(a)
           \/ (ConnectDial(a) \/ ConnectTest(a)) /\ (Goto(a, "assert") \/ Goto(a, "stop"))
              /\ UNCHANGED mutex
  <2>1. pc[a] \in Inside /\ mutex' = mutex
    BY <1>2 DEF ConnectDestroy, StopThread, JoinThread, ConnectDial, ConnectTest, Inside
  <2>2. a # "close"
    BY DEF Callers
  <2>3. \E p \in {"dial", "assert", "stop", "join", "spawn"} : Goto(a, p)
    BY <1>2, <2>2 DEF ConnectDestroy, StopThread, JoinThread, NextThread
  <2> QED
    BY <1>0, <2>1, <2>3, Going DEF Moves, Places, Inside
<1>3. CASE /\ ConnectDial(a) \/ ConnectTest(a) \/ StartThreads(a)
           /\ \E ok \in BOOLEAN : ConnectReturns(a, ok)
  <2>1. pc[a] \in Inside
    BY <1>3 DEF ConnectDial, ConnectTest, StartThreads, Inside
  <2> QED
    BY <1>0, <1>3, <2>1, Returns DEF Moves, Places, Inside
<1> QED
  BY <1>1, <1>2, <1>3 DEF Connect, ConnectDial, ConnectTest, StartThreads

LEMMA ExclusionStep == TypeOK /\ Exclusion /\ [Next]_vars => Exclusion'
<1> SUFFICES ASSUME TypeOK, Exclusion, [Next]_vars PROVE Exclusion'
  OBVIOUS
<1>0. "free" \notin Callers
  BY DEF Callers
<1>1. ASSUME NEW a \in Callers, Connect(a) PROVE Exclusion'
  <2>1. CASE ConnectLock(a) /\ Moves(a, {"destroy"}) /\ mutex = "free" /\ mutex' = a
    BY <1>0, <2>1 DEF Moves, Exclusion, Inside
  <2>2. CASE pc[a] \in Inside /\ Moves(a, Inside) /\ mutex' = mutex
    BY <1>0, <2>2 DEF Moves, Exclusion
  <2>3. CASE pc[a] \in Inside /\ Moves(a, Places \ Inside) /\ mutex' = "free"
    BY <1>0, <2>3 DEF Moves, Exclusion
  <2> QED
    BY <1>1, <2>1, <2>2, <2>3, ConnectMoves
<1>2. ASSUME NEW a \in Callers, OutsideStep(a) PROVE Exclusion'
  BY <1>0, <1>2 DEF OutsideStep, Moves, Exclusion
<1>3. CASE Close
  <2>1. \E p \in Places : Goto("close", p)
    BY <1>3 DEF Close, CloseDestroy, StopThread, JoinThread, NextThread, Places
  <2>2. \A b \in Callers : pc'[b] = pc[b]
    BY <2>1, Going DEF TypeOK, Moves, Stoppers, Callers
  <2>3. mutex' = mutex
    BY <1>3 DEF Close, CloseDestroy, StopThread, JoinThread, connection
  <2> QED
    BY <2>2, <2>3 DEF Exclusion
<1>4. CASE OtherStep \/ NetworkStep
  BY <1>4 DEF OtherStep, NetworkStep, Exclusion
<1> QED
  BY <1>1, <1>2, <1>3, <1>4, Steps

-----------------------------------------------------------------------------
LEMMA ServesStep ==
  ASSUME TypeOK, Serves, UNCHANGED <<subscribed, running>>, UNCHANGED thread \/ ThreadStep
  PROVE  Serves'
<1>1. CASE UNCHANGED thread
  BY <1>1 DEF Serves
<1>2. CASE ThreadStep
  <2>1. PICK t \in ThreadNames : \E p \in {"wait", "work", "post"} : thread' = [thread EXCEPT ![t] = p]
    BY <1>2 DEF ThreadStep, Serves
  <2> QED
    BY <2>1 DEF Serves, TypeOK, TypeThreads
<1> QED
  BY <1>1, <1>2

(* A thread that was joined stays so.                                       *)
LEMMA NoneStays ==
  ASSUME TypeOK, UNCHANGED thread \/ ThreadStep, NEW t \in ThreadNames, thread[t] = "none"
  PROVE  thread'[t] = "none"
<1>1. CASE ThreadStep
  <2>1. PICK u \in ThreadNames :
          thread[u] # "none" /\ \E p \in {"wait", "work", "post", "ended"} : thread' = [thread EXCEPT ![u] = p]
    BY <1>1 DEF ThreadStep
  <2> QED
    BY <2>1 DEF TypeOK, TypeThreads
<1> QED
  BY <1>1

(* Joined, when nobody moves among the places it is about. *)
LEMMA JoinedKept ==
  ASSUME TypeOK, Joined, UNCHANGED <<at, running>>, UNCHANGED thread \/ ThreadStep,
         \A b \in Callers : \/ pc'[b] = pc[b]
                            \/ {pc[b], pc'[b]} \cap {"stop", "join", "spawn"} = {}
  PROVE  Joined'
<1>1. \A b \in Callers, t \in ThreadNames : Joining(b, t) => Joining(b, t)'
  BY DEF Joining
<1>2. \A t \in ThreadNames : thread[t] = "none" => thread'[t] = "none"
  BY NoneStays
<1>3. \A b \in Callers : \A i \in 1..(at[b] - 1) : Threads[i] \in ThreadNames
  BY ThreadsAre DEF TypeOK, TypeThreads, Stoppers
<1> QED
  BY <1>1, <1>2, <1>3 DEF Joined

LEMMA SettledStep == CInv /\ [Next]_vars => told' \/ Settled'
<1> SUFFICES ASSUME CInv, [Next]_vars, ~told' PROVE Settled'
  OBVIOUS
<1> USE DEF connection, client, posters, ending
<1>0. TypeOK /\ Exclusion /\ TypeOK' /\ Exclusion'
  BY TypeStep, ExclusionStep DEF CInv
<1>1. ~told
  BY DEF Next, Step, Outside, Connect, Close, Sleep, ClientThread, ConnectLock, ConnectDestroy,
     ConnectDial, ConnectTest, StopThread, JoinThread, StartThreads, CloseDestroy, SleepStart,
     SleepWait, SleepCheck, SleepPause, SleepDispatch, ThreadWake, ThreadWork, CommandPost,
     DeliveryPost, Deliver, NotifyLock, NotifyPost, TimerCallback, TestSleepThread, TimerEnds,
     StopThreadpool, Drop, Reconnect, vars
<1>2. Settled /\ pc["close"] = "none"
  BY <1>0, <1>1 DEF CInv, TypeOK, TypeCallers
<1>3. \A a \in Callers : pc[a] \in Inside => \A b \in Callers \ {a} : pc[b] \notin Inside
  BY <1>0 DEF Exclusion
<1>4. "free" \notin Callers
  BY DEF Callers
<1>5. ASSUME NEW a \in Callers, Connect(a) PROVE Settled'
  <2>0. /\ \A b \in Callers \ {a} : pc'[b] = pc[b]
        /\ \A b \in Callers \ {a} : pc[a] \in Inside => pc[b] \notin Inside
    BY <1>0, <1>3, <1>5, ConnectMoves DEF Moves
  <2>a. TypeCallers /\ a \in Stoppers /\ a # "close"
    BY <1>0 DEF TypeOK, Stoppers, Callers
  <2>1. CASE ConnectLock(a)
    <3>1. pc[a] = "lock" /\ pc'[a] = "destroy" /\ UNCHANGED <<nc, crash, at, running, thread>>
      BY <2>1, <2>a, Going DEF ConnectLock, Moves, Places
    <3>2. Joined'
      BY <1>0, <1>2, <2>0, <3>1, JoinedKept DEF Settled
    <3>3. Dialled' /\ Served0'
      BY <1>2, <1>4, <2>0, <2>1, <3>1 DEF ConnectLock, Settled, Dialled, Served0
    <3> QED
      BY <1>2, <3>1, <3>2, <3>3 DEF Settled
  <2>2. CASE ConnectDestroy(a)
    <3>1. pc[a] = "destroy" /\ pc'[a] = "dial" /\ nc' = "null" /\ UNCHANGED <<mutex, at, running, thread>>
      BY <2>2, <2>a, Going DEF ConnectDestroy, Moves, Places
    <3>2. Joined'
      BY <1>0, <1>2, <2>0, <3>1, JoinedKept DEF Settled
    <3>3. Dialled' /\ Served0'
      BY <2>0, <3>1 DEF Dialled, Served0, Inside
    <3>4. crash' \in {"no", "in_use"}
      BY <2>2 DEF ConnectDestroy, MayCrash
    <3> QED
      BY <3>2, <3>3, <3>4 DEF Settled
  <2>3. CASE ConnectDial(a)
    <3>1. /\ pc[a] = "dial" /\ nc = "null" /\ mutex = a
          /\ UNCHANGED <<at, running, thread, crash>>
      BY <1>0, <1>2, <2>3 DEF Settled, ConnectDial, Dialled, Exclusion, Inside
    <3>2. CASE nc' = "up" /\ Goto(a, "assert") /\ UNCHANGED mutex
      <4>1. pc'[a] = "assert"
        BY <2>a, <3>2, Going DEF Moves, Places
      <4>2. Joined'
        BY <1>0, <1>2, <2>0, <3>1, <4>1, JoinedKept DEF Settled
      <4>3. Dialled' /\ Served0'
        BY <1>4, <2>0, <3>1, <3>2, <4>1 DEF Dialled, Served0, Inside
      <4> QED
        BY <1>2, <3>1, <4>2, <4>3 DEF Settled
    <3>3. CASE ConnectReturns(a, FALSE) /\ (trouble' # {} \/ nc' = nc)
      <4>1. pc'[a] \in {"beat", "idle", "wait", "ended", "pause"}
        BY <2>a, <3>3, Returns DEF Moves
      <4>2. Joined'
        BY <1>0, <1>2, <2>0, <3>1, <4>1, JoinedKept DEF Settled
      <4>3. Dialled' /\ Served0'
        BY <2>0, <3>1, <3>3, <4>1 DEF Dialled, Served0, Inside
      <4> QED
        BY <1>2, <3>1, <4>2, <4>3 DEF Settled
    <3> QED
      BY <2>3, <3>2, <3>3 DEF ConnectDial
  <2>4. CASE ConnectTest(a)
    <3>1. /\ pc[a] = "assert" /\ nc # "null" /\ mutex = a /\ at[a] = 1
          /\ UNCHANGED <<nc, at, running, thread>>
      BY <1>0, <1>2, <2>4 DEF Settled, ConnectTest, Dialled, Joined, Exclusion, Inside
    <3>2. crash' = "no"
      BY <2>4, <3>1 DEF ConnectTest, MayCrash
    <3>3. CASE Goto(a, "stop") /\ UNCHANGED mutex
      <4>1. pc'[a] = "stop"
        BY <2>a, <3>3, Going DEF Moves, Places
      <4>2. \A b \in Callers, t \in ThreadNames : Joining(b, t) => Joining(b, t)'
        BY <2>0, <3>1 DEF Joining, Inside
      <4>3. Joined'
        BY <1>2, <2>0, <3>1, <4>1, <4>2 DEF Settled, Joined
      <4>4. Dialled' /\ Served0'
        BY <1>4, <2>0, <3>1, <3>3, <4>1 DEF Dialled, Served0, Inside
      <4> QED
        BY <3>2, <4>3, <4>4 DEF Settled
    <3>4. CASE ConnectReturns(a, FALSE) /\ trouble' # {}
      <4>1. pc'[a] \in {"beat", "idle", "wait", "ended", "pause"}
        BY <2>a, <3>4, Returns DEF Moves
      <4>2. Joined'
        BY <1>0, <1>2, <2>0, <3>1, <4>1, JoinedKept DEF Settled
      <4>3. Dialled' /\ Served0'
        BY <2>0, <3>1, <3>4, <4>1 DEF Dialled, Served0, Inside
      <4> QED
        BY <3>2, <4>2, <4>3 DEF Settled
    <3> QED
      BY <2>4, <3>3, <3>4 DEF ConnectTest
  <2>5. CASE StopThread(a) \/ JoinThread(a)
    <3> DEFINE T == Threads[at[a]]
    <3>1. /\ pc[a] \in {"stop", "join"} /\ mutex' = a /\ at[a] \in 1..4 /\ T \in ThreadNames
          /\ nc' = nc /\ at \in [Stoppers -> 1..4]
      BY <1>0, <2>5, <2>a, ThreadsAre DEF StopThread, JoinThread, Exclusion, Inside, TypeOK, TypeThreads
    <3>2. \A b \in Callers, t \in ThreadNames : Joining(b, t) => b = a /\ t = T /\ pc[a] = "join"
      BY <2>0, <3>1 DEF Joining, Inside
    <3>3. \A b \in Stoppers \ {a}, t \in ThreadNames : ~Joining(b, t)
      BY <1>2, <3>2 DEF Joining, Stoppers
    <3>4. pc'[a] \in {"stop", "join", "spawn"}
      <4>1. \E p \in {"stop", "join", "spawn"} : Goto(a, p)
        BY <2>5, <2>a DEF StopThread, JoinThread, NextThread
      <4> QED
        BY <2>a, <4>1, Going DEF Moves, Places
    <3>5. Dialled' /\ Served0'
      BY <1>4, <2>0, <3>1, <3>4 DEF Dialled, Served0, Inside
    <3>6. /\ \A b \in Callers \ {a} : pc'[b] \notin {"stop", "join", "spawn"} /\ at'[b] = at[b] /\ at[b] = 1
          /\ \A i \in 1..(at[a] - 1) : thread[Threads[i]] = "none"
      <4>1. at' = at \/ \E i : at' = [at EXCEPT ![a] = i]
        BY <2>5 DEF StopThread, JoinThread, NextThread
      <4>2. \A b \in Callers \ {a} : at'[b] = at[b]
        BY <3>1, <4>1 DEF Stoppers
      <4>3. pc[a] \in Inside
        BY <3>1 DEF Inside
      <4> QED
        BY <1>2, <2>0, <3>1, <4>2, <4>3 DEF Settled, Joined, Inside
    <3>7. ASSUME NextThread(a), thread'[T] = "none", \A t \in ThreadNames \ {T} : thread'[t] = thread[t],
                 UNCHANGED running
          PROVE  Joined'
      <4>1. \A i \in 1..at[a] : thread'[Threads[i]] = "none"
        BY <3>1, <3>6, <3>7, ThreadsAre
      <4>2. \A t \in ThreadNames : running'[t] \/ thread'[t] = "none"
        BY <1>2, <3>2, <3>7 DEF Settled, Joined
      <4>3. CASE at[a] = 4
        <5>1. Goto(a, "spawn") /\ at' = [at EXCEPT ![a] = 1]
          BY <2>a, <3>7, <4>3, ThreadsAre DEF NextThread
        <5>2. pc'[a] = "spawn" /\ at'[a] = 1
          BY <2>a, <3>1, <5>1, Going DEF Moves, Places
        <5>3. \A t \in ThreadNames : thread'[t] = "none"
          BY <4>1, <4>3, ThreadsAre
        <5> QED
          BY <3>6, <4>2, <5>2, <5>3 DEF Joined
      <4>4. CASE at[a] # 4
        <5>1. Goto(a, "stop") /\ at' = [at EXCEPT ![a] = @ + 1]
          BY <2>a, <3>7, <4>4, ThreadsAre DEF NextThread
        <5>2. pc'[a] = "stop" /\ at'[a] = at[a] + 1
          BY <2>a, <3>1, <5>1, Going DEF Moves, Places
        <5>3. \A i \in 1..(at'[a] - 1) : thread'[Threads[i]] = "none"
          BY <3>1, <4>1, <5>2
        <5> QED
          BY <3>6, <4>2, <5>2, <5>3 DEF Joined
      <4> QED
        BY <4>3, <4>4
    <3>8. CASE StopThread(a)
      <4>1. pc[a] = "stop" /\ UNCHANGED <<thread, crash>>
        BY <3>8 DEF StopThread
      <4>2. CASE running[T]
        <5>1. running' = [running EXCEPT ![T] = FALSE] /\ Goto(a, "join") /\ UNCHANGED at
          BY <3>1, <3>8, <4>2 DEF StopThread
        <5>2. pc'[a] = "join" /\ \A t \in ThreadNames \ {T} : running'[t] = running[t]
          <6>1. pc'[a] = "join"
            BY <2>a, <5>1, Going DEF Moves, Places
          <6> QED
            BY <1>0, <5>1, <6>1 DEF TypeOK, TypeThreads
        <5>3. pc'[a] = "join" /\ Threads[at'[a]] = T
          BY <5>1, <5>2
        <5>4. \A t \in ThreadNames : running[t] \/ thread[t] = "none"
          BY <1>2, <3>2, <4>1 DEF Settled, Joined
        <5>5. \A t \in ThreadNames : running'[t] \/ thread'[t] = "none" \/ Joining(a, t)'
          BY <4>1, <5>2, <5>3, <5>4 DEF Joining
        <5>6. Joined'
          BY <3>6, <4>1, <5>1, <5>2, <5>5 DEF Joined
        <5> QED
          BY <1>2, <3>5, <4>1, <5>6 DEF Settled
      <4>3. CASE ~running[T]
        <5>1. NextThread(a) /\ UNCHANGED running
          BY <3>1, <3>2, <3>3, <3>8, <4>1, <4>3 DEF StopThread
        <5>2. thread'[T] = "none"
          BY <1>2, <3>1, <3>2, <4>1, <4>3 DEF Settled, Joined
        <5>3. Joined'
          BY <3>7, <4>1, <4>3, <5>1, <5>2
        <5> QED
          BY <1>2, <3>5, <4>1, <5>3 DEF Settled
      <4> QED
        BY <4>2, <4>3
    <3>9. CASE JoinThread(a)
      <4>1. NextThread(a) /\ thread' = [thread EXCEPT ![T] = "none"] /\ UNCHANGED running
        BY <3>9 DEF JoinThread
      <4>2. crash' = "no"
        BY <3>1, <3>3, <3>9 DEF JoinThread, MayCrash
      <4>3. thread'[T] = "none" /\ \A t \in ThreadNames \ {T} : thread'[t] = thread[t]
        BY <1>0, <3>1, <4>1 DEF TypeOK, TypeThreads
      <4>4. \A t \in ThreadNames \ {T} : running[t] \/ thread[t] = "none"
        BY <1>2, <3>2 DEF Settled, Joined
      <4> QED
        BY <3>5, <3>7, <4>1, <4>2, <4>3, <4>4 DEF Settled
    <3> QED
      BY <2>5, <3>8, <3>9
  <2>6. CASE StartThreads(a)
    <3>1. /\ pc[a] = "spawn" /\ nc' = nc /\ UNCHANGED at
          /\ pc'[a] \in {"beat", "idle", "wait", "ended", "pause"}
      BY <2>6, <2>a, Returns DEF StartThreads, Moves
    <3>2. \A t \in ThreadNames : thread[t] = "none"
      BY <1>2, <3>1 DEF Settled, Joined
    <3>3. crash' = "no"
      BY <2>6, <3>2 DEF StartThreads
    <3>4. Dialled' /\ Served0'
      BY <1>2, <2>0, <2>6, <3>1 DEF StartThreads, Settled, Dialled, Served0, Serves, Inside
    <3>5. \A b \in Callers : pc'[b] \notin {"stop", "join", "spawn"} /\ at'[b] = 1
      BY <1>2, <2>0, <3>1 DEF Settled, Joined, Inside
    <3>6. Joined'
      BY <2>6, <3>5 DEF StartThreads, Joined
    <3> QED
      BY <3>3, <3>4, <3>6 DEF Settled
  <2> QED
    BY <1>5, <2>1, <2>2, <2>3, <2>4, <2>5, <2>6 DEF Connect
<1>6. ASSUME NEW a \in Callers, OutsideStep(a) PROVE Settled'
  <2>1. /\ \A b \in Callers \ {a} : pc'[b] = pc[b]
        /\ pc[a] \notin Inside /\ pc'[a] \notin Inside
        /\ UNCHANGED <<nc, subscribed, mutex, trouble, at, running, thread, crash>>
    BY <1>6 DEF OutsideStep, Moves
  <2>2. Joined'
    BY <1>0, <1>2, <2>1, JoinedKept DEF Settled, Inside
  <2>3. Dialled' /\ Served0'
    BY <1>2, <2>1 DEF Settled, Dialled, Served0, Serves, Inside
  <2> QED
    BY <1>2, <2>1, <2>2, <2>3 DEF Settled
<1>7. ASSUME OtherStep, UNCHANGED thread \/ ThreadStep PROVE Settled'
  <2>1. Served0'
    BY <1>0, <1>2, <1>7, ServesStep DEF Settled, OtherStep, Served0
  <2>2. Joined'
    BY <1>0, <1>2, <1>7, JoinedKept DEF Settled, OtherStep
  <2> QED
    BY <1>2, <1>7, <2>1, <2>2 DEF Settled, OtherStep, Dialled
<1>8. CASE NetworkStep
  <2>1. /\ UNCHANGED <<pc, mutex, subscribed, trouble, at, running, thread, crash>>
        /\ nc # "null" /\ nc' # "null"
    BY <1>8 DEF NetworkStep
  <2>2. Joined'
    BY <1>0, <1>2, <2>1, JoinedKept DEF Settled
  <2>3. Dialled' /\ Served0'
    BY <1>2, <2>1 DEF Settled, Dialled, Served0, Serves
  <2> QED
    BY <1>2, <2>1, <2>2, <2>3 DEF Settled
<1> QED
  BY <1>0, <1>1, <1>5, <1>6, <1>7, <1>8, Steps

LEMMA ConnectionStep == CInv /\ [Next]_vars => CInv'
  BY TypeStep, ExclusionStep, SettledStep DEF CInv

LEMMA InitConnection == Init => CInv
<1> SUFFICES ASSUME Init PROVE CInv
  OBVIOUS
<1>1. /\ mutex = "free" /\ nc = "null" /\ crash = "no"
      /\ pc["sleep"] = "start" /\ pc["timer"] = "idle"
      /\ \A a \in Callers : at[a] = 1
      /\ \A t \in ThreadNames : running[t] = TRUE
  BY DEF Init, Stoppers
<1> QED
  BY <1>1, InitTypes DEF CInv, Exclusion, Inside, Settled, Dialled, Served0, Joined, Callers

(* For any channels and bounds: until the service is told to stop, only a   *)
(* client thread or a heart-beat that uses the connection which connect     *)
(* destroys can end the process.                                            *)
THEOREM NothingElseCrashes == Spec => []CrashesAreAtTheStop
<1>1. CInv => CrashesAreAtTheStop
  BY DEF CInv, Settled, CrashesAreAtTheStop
<1> QED
  BY <1>1, InitConnection, ConnectionStep, PTL DEF Spec

(* For any channels and bounds: a connection that counts as made is served  *)
(* by its subscriptions and by four running threads, unless the connect     *)
(* that made it failed in one of the two ways that leave a connection.      *)
THEOREM ConnectionsAreServed == Spec => []ConnectionIsServed
<1>1. CInv => ConnectionIsServed
  BY DEF CInv, Settled, Served0, Serves, ConnectionIsServed
<1> QED
  BY <1>1, InitConnection, ConnectionStep, PTL DEF Spec

-----------------------------------------------------------------------------
(* The stop.  A thread that is not marked running was joined, or is being   *)
(* joined; once close has destroyed the connection it stays away, and the   *)
(* threads that close has passed were joined, or connect is joining them,   *)
(* unless a connect in progress made them anew.                             *)
Joiner(t) == \E a \in Callers : Joining(a, t)
Passed(i) == pc["close"] = "ended" \/ (pc["close"] \in {"stop", "join"} /\ i < at["close"])
Closing ==
  /\ pc["sleep"] # "ended" => pc["close"] = "none"
  /\ pc["close"] \notin {"stop", "join"} => at["close"] = 1
  /\ \A t \in ThreadNames : running[t] \/ thread[t] = "none" \/ \E a \in Stoppers : Joining(a, t)
  /\ "revived" \notin trouble =>
       /\ pc["close"] \notin {"none", "destroy"} => nc = "null" /\ ~subscribed
       /\ \A i \in 1..4 : Passed(i) => thread[Threads[i]] = "none" \/ Joiner(Threads[i])

(* Closing, when nobody leaves a join and the threads are not made anew.    *)
LEMMA ClosingKept ==
  ASSUME TypeOK, Closing, UNCHANGED <<at, running>>, UNCHANGED thread \/ ThreadStep,
         \A b \in Callers : pc[b] = "join" => pc'[b] = "join",
         \/ pc'["close"] = pc["close"]
         \/ pc["close"] \in {"none", "destroy"} /\ pc'["close"] \in {"destroy", "stop"},
         pc'["sleep"] # "ended" => pc'["close"] = "none",
         "revived" \in trouble => "revived" \in trouble',
         "revived" \notin trouble' /\ pc'["close"] \notin {"none", "destroy"} =>
           nc' = "null" /\ ~subscribed'
  PROVE  Closing'
<1>1. \A b \in Stoppers, t \in ThreadNames : Joining(b, t) => Joining(b, t)'
  BY DEF Joining, Stoppers
<1>2. \A t \in ThreadNames : thread[t] = "none" => thread'[t] = "none"
  BY NoneStays
<1>3. \A i \in 1..4 : Threads[i] \in ThreadNames
  BY ThreadsAre
<1>4. at["close"] = 1 \/ pc'["close"] = pc["close"]
  BY DEF Closing
<1>5. \A i \in 1..4 : Passed(i)' => Passed(i)
  BY <1>4 DEF Passed
<1>6. \A t \in ThreadNames : Joiner(t) => Joiner(t)'
  BY <1>1 DEF Joiner, Stoppers
<1>7. \A t \in ThreadNames : running'[t] \/ thread'[t] = "none" \/ \E a \in Stoppers : Joining(a, t)'
  BY <1>1, <1>2 DEF Closing
<1>8. pc'["close"] \notin {"stop", "join"} => at'["close"] = 1
  BY DEF Closing
<1>9. "revived" \notin trouble' =>
        \A i \in 1..4 : Passed(i)' => thread'[Threads[i]] = "none" \/ Joiner(Threads[i])'
  BY <1>2, <1>3, <1>5, <1>6 DEF Closing
<1> QED
  BY <1>7, <1>8, <1>9 DEF Closing

(* The SleepThread in its loop, and close not begun. *)
LEMMA MovesClose ==
  ASSUME TypeOK, Closing, NEW a \in Callers, NEW P, Moves(a, P),
         a = "sleep" => pc["sleep"] # "ended",
         a = "sleep" => (pc'["close"] # "none" => pc'["sleep"] = "ended")
  PROVE  /\ \/ pc'["close"] = pc["close"]
            \/ pc["close"] = "none" /\ pc'["close"] = "destroy"
         /\ pc'["sleep"] # "ended" => pc'["close"] = "none"
  BY DEF Moves, Closing, Callers

(* It leaves its loop only to end. *)
LEMMA SleepEnds ==
  ASSUME TypeOK, Closing, [Next]_vars, pc["sleep"] # "ended"
  PROVE  pc'["close"] # "none" => pc'["sleep"] = "ended"
<1>1. pc["close"] = "none"
  BY DEF Closing
<1> QED
  BY <1>1 DEF Next, Step, Outside, Connect, Close, Sleep, ClientThread, ConnectLock, ConnectDestroy,
     ConnectDial, ConnectTest, StopThread, JoinThread, StartThreads, CloseDestroy, SleepStart,
     SleepWait, SleepCheck, SleepPause, SleepDispatch, ThreadWake, ThreadWork, CommandPost,
     DeliveryPost, Deliver, NotifyLock, NotifyPost, TimerCallback, TestSleepThread, TimerEnds,
     StopThreadpool, Drop, Reconnect, vars, ConnectReturns, Loops, Goto, NextThread, Callers, Stoppers,
     TypeOK, TypeCallers

LEMMA ClosingStep == TypeOK /\ Closing /\ [Next]_vars => Closing'
<1> SUFFICES ASSUME TypeOK, Closing, [Next]_vars PROVE Closing'
  OBVIOUS
<1> USE DEF connection, client, posters, ending
<1>0. /\ pc \in [Stoppers -> Places] /\ at \in [Stoppers -> 1..4]
      /\ thread \in [ThreadNames -> {"none", "wait", "work", "post", "ended"}]
      /\ running \in [ThreadNames -> BOOLEAN]
  BY ThreadsAre DEF TypeOK, TypeCallers, TypeThreads
<1>1. ASSUME NEW a \in Callers, Connect(a) PROVE Closing'
  <2>1. pc[a] \in Inside \cup {"lock"} /\ \E P : Moves(a, P)
    BY <1>1, ConnectMoves DEF ConnectLock, Inside
  <2>2. /\ \/ pc'["close"] = pc["close"]
           \/ pc["close"] = "none" /\ pc'["close"] = "destroy"
        /\ pc'["sleep"] # "ended" => pc'["close"] = "none"
        /\ \A b \in Callers \ {a} : pc'[b] = pc[b]
    BY <2>1, MovesClose, SleepEnds DEF Inside, Moves
  <2>3. CASE ConnectLock(a) \/ ConnectDestroy(a) \/ ConnectDial(a) \/ ConnectTest(a)
    <3>1. pc[a] # "join" /\ UNCHANGED <<at, running, thread>>
      BY <2>3 DEF ConnectLock, ConnectDestroy, ConnectDial, ConnectTest
    <3>2. "revived" \in trouble => "revived" \in trouble'
      BY <2>3 DEF ConnectLock, ConnectDestroy, ConnectDial, ConnectTest
    <3>3. "revived" \notin trouble' /\ pc'["close"] \notin {"none", "destroy"} =>
            nc' = "null" /\ ~subscribed'
      BY <2>2, <2>3, <3>2 DEF ConnectLock, ConnectDestroy, ConnectDial, ConnectTest, Late, Closing
    <3> QED
      BY <2>2, <3>1, <3>2, <3>3, ClosingKept
  <2>4. CASE StopThread(a) \/ JoinThread(a)
    <3> DEFINE T == Threads[at[a]]
    <3>1. /\ UNCHANGED <<nc, subscribed, trouble>> /\ a # "close" /\ a \in Stoppers /\ T \in ThreadNames
          /\ pc[a] \in {"stop", "join"}
      BY <1>0, <2>4, ThreadsAre DEF StopThread, JoinThread, Callers, Stoppers
    <3>2. pc'["close"] = pc["close"] /\ at'["close"] = at["close"]
          /\ \A b \in Stoppers \ {a} : pc'[b] = pc[b] /\ at'[b] = at[b]
      BY <1>0, <2>4, <3>1 DEF StopThread, JoinThread, NextThread, Goto, Stoppers
    <3>3. \A b \in Stoppers \ {a}, t \in ThreadNames : Joining(b, t) => Joining(b, t)'
      BY <3>2 DEF Joining
    <3>4. \A i \in 1..4 : Passed(i)' <=> Passed(i)
      BY <3>2 DEF Passed
    <3>5. \A i \in 1..4 : Threads[i] \in ThreadNames
      BY ThreadsAre
    <3>6. CASE StopThread(a)
      <4>1. pc[a] = "stop" /\ UNCHANGED thread
        BY <3>6 DEF StopThread
      <4>2. \A t \in ThreadNames : Joining(a, t) => FALSE
        BY <4>1 DEF Joining
      <4>3. \A b \in Stoppers, t \in ThreadNames : Joining(b, t) => Joining(b, t)'
        BY <3>3, <4>2
      <4>4. \A t \in ThreadNames : running'[t] = running[t] \/ Joining(a, t)'
        <5>1. CASE UNCHANGED running
          BY <5>1
        <5>2. CASE running' = [running EXCEPT ![T] = FALSE] /\ Goto(a, "join") /\ UNCHANGED at
          BY <1>0, <3>1, <5>2 DEF Goto, Joining
        <5> QED
          BY <3>6, <5>1, <5>2 DEF StopThread
      <4>5. \A t \in ThreadNames : running'[t] \/ thread'[t] = "none" \/ \E b \in Stoppers : Joining(b, t)'
        BY <3>1, <4>1, <4>3, <4>4 DEF Closing
      <4>6. \A t \in ThreadNames : Joiner(t) => Joiner(t)'
        BY <4>3 DEF Joiner, Stoppers
      <4> QED
        BY <2>2, <3>1, <3>2, <3>4, <3>5, <4>1, <4>5, <4>6 DEF Closing
    <3>7. CASE JoinThread(a)
      <4>1. UNCHANGED running /\ thread' = [thread EXCEPT ![T] = "none"] /\ pc[a] = "join"
        BY <3>7 DEF JoinThread
      <4>2. thread'[T] = "none" /\ \A t \in ThreadNames \ {T} : thread'[t] = thread[t] /\ ~Joining(a, t)
        BY <1>0, <3>1, <4>1 DEF Joining
      <4>3. \A t \in ThreadNames : running'[t] \/ thread'[t] = "none" \/ \E b \in Stoppers : Joining(b, t)'
        BY <3>3, <4>1, <4>2 DEF Closing
      <4>4. \A t \in ThreadNames : thread[t] = "none" \/ Joiner(t) => thread'[t] = "none" \/ Joiner(t)'
        BY <3>3, <4>2 DEF Joiner, Stoppers
      <4> QED
        BY <2>2, <3>1, <3>2, <3>4, <3>5, <4>3, <4>4 DEF Closing
    <3> QED
      BY <2>4, <3>6, <3>7
  <2>5. CASE StartThreads(a)
    <3>1. running' = [t \in ThreadNames |-> TRUE] /\ UNCHANGED at /\ trouble' = trouble \cup Late
      BY <2>5 DEF StartThreads
    <3>2. pc["close"] = "none" \/ "revived" \in trouble'
      BY <3>1 DEF Late
    <3>3. \A t \in ThreadNames : running'[t]
      BY <3>1
    <3>4. pc["close"] = "none" => pc'["close"] \in {"none", "destroy"}
      BY <2>2
    <3>5. pc'["close"] \in {"none", "destroy"} => \A i \in 1..4 : ~Passed(i)'
      BY DEF Passed
    <3>6. pc'["close"] \notin {"stop", "join"} => at'["close"] = 1
      BY <2>2, <3>1 DEF Closing
    <3> QED
      BY <2>2, <3>2, <3>3, <3>4, <3>5, <3>6 DEF Closing
  <2> QED
    BY <1>1, <2>3, <2>4, <2>5 DEF Connect
<1>2. CASE Close
  <2>1. /\ pc["close"] # "none" /\ pc["sleep"] = "ended" /\ "close" \in Stoppers
        /\ \A b \in Callers : pc'[b] = pc[b]
    BY <1>0, <1>2 DEF Close, CloseDestroy, StopThread, JoinThread, NextThread, Goto, Closing, Stoppers,
                      Callers
  <2>2. "sleep" \in Callers
    BY DEF Callers
  <2>3. CASE CloseDestroy
    <3>1. /\ pc["close"] = "destroy" /\ pc'["close"] = "stop" /\ nc' = "null" /\ subscribed' = FALSE
          /\ UNCHANGED <<at, running, thread>> /\ trouble' = trouble \cap {"revived"}
      BY <1>0, <2>1, <2>3 DEF CloseDestroy, Goto
    <3> QED
      BY <2>1, <2>2, <3>1, ClosingKept
  <2>4. CASE StopThread("close") \/ JoinThread("close")
    <3> DEFINE k == at["close"]
               T == Threads[k]
    <3>1. /\ UNCHANGED <<nc, subscribed, trouble>> /\ k \in 1..4 /\ T \in ThreadNames
          /\ pc["close"] \in {"stop", "join"}
      BY <1>0, <2>1, <2>4, ThreadsAre DEF StopThread, JoinThread
    <3>2. \A b \in Callers : pc'[b] = pc[b] /\ at'[b] = at[b]
      BY <1>0, <2>1, <2>4 DEF StopThread, JoinThread, NextThread, Stoppers, Callers
    <3>3. \A b \in Callers, t \in ThreadNames : Joining(b, t) <=> Joining(b, t)'
      BY <3>2 DEF Joining
    <3>4. \A t \in ThreadNames : Joiner(t) <=> Joiner(t)'
      BY <3>3 DEF Joiner
    <3>5. \A t \in ThreadNames : ~running[t] => \/ thread[t] = "none" \/ Joiner(t)
                                                \/ (t = T /\ pc["close"] = "join")
      BY DEF Closing, Joiner, Joining, Stoppers
    <3>6. \A i \in 1..4 : Threads[i] \in ThreadNames
      BY ThreadsAre
    <3>7. "revived" \notin trouble => \A i \in 1..(k - 1) : thread[Threads[i]] = "none" \/ Joiner(Threads[i])
      BY <3>1 DEF Closing, Passed
    <3>8. ASSUME NextThread("close"), UNCHANGED running, thread'[T] = "none" \/ Joiner(T),
                 \A t \in ThreadNames \ {T} : thread'[t] = thread[t],
                 ~running[T] \/ thread'[T] = "none"
          PROVE  Closing'
      <4>1. \A t \in ThreadNames : running'[t] \/ thread'[t] = "none" \/ Joiner(t)'
        BY <3>4, <3>5, <3>8
      <4>2. "revived" \notin trouble =>
              \A i \in 1..k : thread'[Threads[i]] = "none" \/ Joiner(Threads[i])'
        <5>1. SUFFICES ASSUME "revived" \notin trouble, NEW i \in 1..k
                       PROVE  thread'[Threads[i]] = "none" \/ Joiner(Threads[i])'
          OBVIOUS
        <5>2. CASE Threads[i] = T
          BY <3>4, <3>1, <3>8, <5>2
        <5>3. CASE Threads[i] # T
          BY <3>1, <3>4, <3>6, <3>7, <3>8, <5>1, <5>3
        <5> QED
          BY <5>2, <5>3
      <4>3. \/ k = 4 /\ pc'["close"] = "ended" /\ at'["close"] = 1
            \/ k < 4 /\ pc'["close"] = "stop" /\ at'["close"] = k + 1
        <5>1. CASE k = 4
          <6>1. Goto("close", "ended") /\ at' = [at EXCEPT !["close"] = 1]
            BY <3>8, <5>1, ThreadsAre DEF NextThread
          <6> QED
            BY <1>0, <2>1, <5>1, <6>1 DEF Goto
        <5>2. CASE k # 4
          <6>1. Goto("close", "stop") /\ at' = [at EXCEPT !["close"] = @ + 1]
            BY <3>8, <5>2, ThreadsAre DEF NextThread
          <6> QED
            BY <1>0, <2>1, <3>1, <5>2, <6>1 DEF Goto
        <5> QED
          BY <5>1, <5>2
      <4>4. \A i \in 1..4 : Passed(i)' => i \in 1..k
        BY <3>1, <4>3 DEF Passed
      <4>5. \A t \in ThreadNames : Joiner(t)' => \E b \in Stoppers : Joining(b, t)'
        BY DEF Joiner, Stoppers
      <4> QED
        BY <2>1, <2>2, <3>1, <4>1, <4>2, <4>3, <4>4, <4>5 DEF Closing
    <3>9. CASE StopThread("close")
      <4>1. pc["close"] = "stop" /\ UNCHANGED thread
        BY <3>9 DEF StopThread
      <4>2. CASE running' = [running EXCEPT ![T] = FALSE] /\ Goto("close", "join") /\ UNCHANGED at
        <5>1. pc'["close"] = "join" /\ at'["close"] = k
              /\ \A t \in ThreadNames \ {T} : running'[t] = running[t]
          BY <1>0, <2>1, <4>2 DEF Goto
        <5>2. \A t \in ThreadNames : running'[t] \/ thread'[t] = "none" \/ \E b \in Stoppers : Joining(b, t)'
          <6>1. SUFFICES ASSUME NEW t \in ThreadNames
                         PROVE  running'[t] \/ thread'[t] = "none" \/ \E b \in Stoppers : Joining(b, t)'
            OBVIOUS
          <6>2. CASE t = T
            BY <2>1, <4>2, <5>1, <6>2 DEF Joining
          <6>3. CASE t # T
            BY <3>4, <3>5, <4>1, <5>1, <6>3 DEF Joiner, Stoppers
          <6> QED
            BY <6>2, <6>3
        <5>3. \A i \in 1..4 : Passed(i)' => Passed(i)
          BY <3>1, <5>1 DEF Passed
        <5> QED
          BY <2>1, <2>2, <3>1, <3>4, <3>6, <4>1, <5>1, <5>2, <5>3 DEF Closing
      <4>3. CASE ~running[T] /\ NextThread("close") /\ UNCHANGED running
        BY <3>1, <3>5, <3>8, <4>1, <4>3
      <4> QED
        BY <3>9, <4>2, <4>3 DEF StopThread
    <3>10. CASE JoinThread("close")
      <4>1. NextThread("close") /\ UNCHANGED running /\ thread' = [thread EXCEPT ![T] = "none"]
        BY <3>10 DEF JoinThread
      <4>2. thread'[T] = "none" /\ \A t \in ThreadNames \ {T} : thread'[t] = thread[t]
        BY <1>0, <3>1, <4>1
      <4> QED
        BY <3>8, <4>1, <4>2
    <3> QED
      BY <2>4, <3>9, <3>10
  <2> QED
    BY <1>2, <2>3, <2>4 DEF Close
<1>3. ASSUME NEW a \in Callers, OutsideStep(a) PROVE Closing'
  <2>1. /\ pc[a] \notin Inside \cup {"ended"} /\ Moves(a, Places \ Inside)
        /\ UNCHANGED <<nc, subscribed, trouble, at, running, thread>>
    BY <1>3 DEF OutsideStep
  <2>2. /\ \/ pc'["close"] = pc["close"]
           \/ pc["close"] = "none" /\ pc'["close"] = "destroy"
        /\ pc'["sleep"] # "ended" => pc'["close"] = "none"
    BY <2>1, MovesClose, SleepEnds
  <2>3. \A b \in Callers : pc[b] = "join" => pc'[b] = "join"
    BY <2>1 DEF Moves, Inside
  <2>4. "revived" \notin trouble' /\ pc'["close"] \notin {"none", "destroy"} => nc' = "null" /\ ~subscribed'
    BY <2>1, <2>2 DEF Closing
  <2> QED
    BY <2>1, <2>2, <2>3, <2>4, ClosingKept
<1>4. ASSUME OtherStep, UNCHANGED thread \/ ThreadStep PROVE Closing'
  <2>1. UNCHANGED <<pc, nc, subscribed, trouble, at, running>>
    BY <1>4 DEF OtherStep
  <2> QED
    BY <1>4, <2>1, ClosingKept DEF Closing
<1>5. CASE NetworkStep
  <2>1. /\ UNCHANGED <<pc, subscribed, trouble, at, running, thread>>
        /\ nc # "null"
    BY <1>5 DEF NetworkStep
  <2> QED
    BY <2>1, ClosingKept DEF Closing
<1> QED
  BY <1>1, <1>2, <1>3, <1>4, <1>5, Steps

LEMMA InitClosing == Init => Closing
<1> SUFFICES ASSUME Init PROVE Closing
  OBVIOUS
<1>1. /\ pc["close"] = "none" /\ at["close"] = 1
      /\ \A t \in ThreadNames : running[t] = TRUE
  BY DEF Init, Stoppers
<1> QED
  BY <1>1 DEF Closing, Passed

(* For any channels and bounds: when the SleepThread has closed the client  *)
(* and nobody connects, there is no connection and no client thread left,   *)
(* unless a connect in progress made them anew.                             *)
THEOREM StopLeavesNothing == Spec => []ClosedAtStop
<1>1. TypeOK /\ Exclusion /\ Closing => ClosedAtStop
  <2> SUFFICES ASSUME TypeOK, Exclusion, Closing, pc["close"] = "ended", mutex = "free",
                      "revived" \notin trouble
               PROVE  nc = "null" /\ ~subscribed /\ \A t \in ThreadNames : thread[t] = "none"
    BY DEF ClosedAtStop
  <2>1. \A t \in ThreadNames : ~Joiner(t)
    BY DEF Joiner, Joining, Exclusion, Inside, Callers
  <2>2. \A i \in 1..4 : thread[Threads[i]] = "none"
    BY <2>1, ThreadsAre DEF Closing, Passed
  <2> QED
    BY <2>2, ThreadsAre DEF Closing
<1>2. CInv => TypeOK /\ Exclusion
  BY DEF CInv
<1>3. CInv /\ Closing /\ [Next]_vars => Closing'
  BY <1>2, ClosingStep
<1> QED
  BY <1>1, <1>2, <1>3, InitConnection, InitClosing, ConnectionStep, PTL DEF Spec

-----------------------------------------------------------------------------
(* The wedge.  Its slot is full, so that no poster moves; the joiner waits  *)
(* for a poster, and the SleepThread for the joiner, or it has ended.       *)
LEMMA WedgeStep == TypeOK /\ Exclusion /\ Wedged /\ [Next]_vars /\ ~told' => Wedged'
<1> SUFFICES ASSUME TypeOK, Exclusion, Wedged, [Next]_vars, ~told' PROVE Wedged'
  OBVIOUS
<1> USE DEF connection, client, posters, ending
<1>0. CASE told
  BY <1>0 DEF Next, Step, Outside, Connect, Close, Sleep, ClientThread, ConnectLock, ConnectDestroy,
     ConnectDial, ConnectTest, StopThread, JoinThread, StartThreads, CloseDestroy, SleepStart,
     SleepWait, SleepCheck, SleepPause, SleepDispatch, ThreadWake, ThreadWork, CommandPost,
     DeliveryPost, Deliver, NotifyLock, NotifyPost, TimerCallback, TestSleepThread, TimerEnds,
     StopThreadpool, Drop, Reconnect, vars
<1>1. CASE ~told
  <2>1. PICK a \in Stoppers : JoinsPoster(a)
    BY DEF Wedged
  <2>2. /\ slot # "none" /\ pc["sleep"] \in {"join", "lock", "ended"} /\ pc[a] = "join"
        /\ pc["close"] = "none"
    BY <1>1, <2>1 DEF Wedged, JoinsPoster, Joining, TypeOK, TypeCallers
  <2>3. a \in Callers /\ mutex = a /\ mutex # "free"
    BY <2>2 DEF Exclusion, Inside, Stoppers, Callers
  <2>4. \A b \in Callers : pc[b] \in Inside => b = a
    BY <2>3 DEF Exclusion
  <2>5. ASSUME UNCHANGED <<slot, at, thread, loop>>, pc'[a] = pc[a], pc'["sleep"] = pc["sleep"]
        PROVE  Wedged'
    BY <2>1, <2>2, <2>5 DEF Wedged, JoinsPoster, Joining
  <2>6. ASSUME NEW b \in Callers, Connect(b) PROVE FALSE
    <3>1. b = a \/ pc[b] = "lock"
      BY <2>4, <2>6 DEF Connect, ConnectLock, ConnectDestroy, ConnectDial, ConnectTest, StopThread,
                        JoinThread, StartThreads, Inside
    <3>2. ~ConnectLock(b)
      BY <2>3 DEF ConnectLock
    <3>3. thread[Threads[at[a]]] \notin {"none", "ended"}
      BY <2>1 DEF JoinsPoster, Joining
    <3> QED
      BY <2>2, <2>6, <3>1, <3>2, <3>3 DEF Connect, ConnectDestroy, ConnectDial, ConnectTest, StopThread,
                                         JoinThread, StartThreads
  <2>7. ~Close /\ ~Sleep /\ ~TimerEnds /\ ~TestSleepThread /\ ~StopThreadpool
    BY <1>1, <2>2 DEF Close, CloseDestroy, StopThread, JoinThread, Sleep, SleepStart, SleepWait,
       SleepCheck, SleepPause, SleepDispatch, TimerEnds, TestSleepThread, StopThreadpool
  <2>8. ASSUME NEW ip \in BOOLEAN, TimerCallback(ip) PROVE Wedged'
    <3>1. pc["timer"] = "idle" /\ UNCHANGED <<slot, at, thread, loop>>
      BY <2>8 DEF TimerCallback
    <3>2. a = "sleep"
      BY <2>2, <2>3, <3>1 DEF Callers
    <3>3. pc'["sleep"] = pc["sleep"]
      BY <2>8 DEF TimerCallback, Goto, TypeOK, TypeCallers, Stoppers, Callers
    <3> QED
      BY <2>5, <3>1, <3>2, <3>3
  <2>9. ASSUME NEW t \in ThreadNames, ThreadWake(t) \/ ThreadWork(t) PROVE Wedged'
    <3>1. /\ \E p : thread' = [thread EXCEPT ![t] = p]
          /\ UNCHANGED <<pc, at, loop, slot>>
          /\ thread["command"] = "post" => t # "command"
          /\ thread["payload"] = "work" /\ loop => t # "payload"
      BY <2>9 DEF ThreadWake, ThreadWork
    <3>2. /\ "command" \in ThreadNames /\ "payload" \in ThreadNames
          /\ \A u \in ThreadNames : u # t => thread'[u] = thread[u]
      BY <3>1, ThreadsAre DEF TypeOK, TypeThreads
    <3>3. JoinsPoster(a)'
      BY <2>1, <3>1, <3>2 DEF JoinsPoster, Joining
    <3> QED
      BY <2>2, <3>1, <3>3 DEF Wedged
  <2>10. ~CommandPost /\ ~NotifyPost /\ \A c \in Channels : ~DeliveryPost(c)
    BY <2>2 DEF CommandPost, NotifyPost, DeliveryPost
  <2>11. CASE NotifyLock
    <3>1. UNCHANGED <<slot, at, thread, pc>> /\ loop'
      BY <2>11 DEF NotifyLock
    <3> QED
      BY <2>1, <2>2, <3>1 DEF Wedged, JoinsPoster, Joining
  <2>12. CASE \/ \E c \in Channels : \E reason \in Posted(c) : Deliver(c, reason)
              \/ Drop \/ Reconnect \/ UNCHANGED vars
    BY <2>5, <2>12 DEF Deliver, Drop, Reconnect, vars
  <2> QED
    BY <2>6, <2>7, <2>8, <2>9, <2>10, <2>11, <2>12 DEF Next, Step, Outside, ClientThread
<1> QED
  BY <1>0, <1>1

(* For any channels and bounds: once a poster is joined while the           *)
(* SleepThread joins, waits for the mutex or has ended, it is for ever,     *)
(* until the service is told to stop.                                       *)
THEOREM WedgesAreForEver == Spec => WedgeIsForEver
<1>1. CInv => TypeOK /\ Exclusion
  BY DEF CInv
<1>2. CInv /\ [Next]_vars => [Wedged /\ ~told' => Wedged']_vars
  BY <1>1, WedgeStep
<1> QED
  BY <1>2, InitConnection, ConnectionStep, PTL DEF Spec, WedgeIsForEver

-----------------------------------------------------------------------------
(* Who can wait for whom.  A thread that is told to end finds its flag up   *)
(* when it waits; it ends only when it was told, and somebody joins it;     *)
(* connect joins only threads it has told, as nobody else starts them       *)
(* meanwhile.                                                               *)
Asked ==
  /\ \A t \in ThreadNames : running[t] \/ flag[t] \/ thread[t] \in {"none", "ended"}
  /\ \A t \in ThreadNames : thread[t] = "ended" => ~running[t]
  /\ \A a \in Callers : pc[a] = "join" => ~running[Threads[at[a]]]

LEMMA AskedStep == TypeOK /\ Exclusion /\ Asked /\ [Next]_vars => Asked'
<1> SUFFICES ASSUME TypeOK, Exclusion, Asked, [Next]_vars PROVE Asked'
  OBVIOUS
<1> USE DEF connection, client, posters, ending
<1>0. /\ pc \in [Stoppers -> Places] /\ at \in [Stoppers -> 1..4]
      /\ thread \in [ThreadNames -> {"none", "wait", "work", "post", "ended"}]
      /\ running \in [ThreadNames -> BOOLEAN] /\ flag \in [ThreadNames -> BOOLEAN]
      /\ \A a \in Stoppers : Threads[at[a]] \in ThreadNames
  BY ThreadsAre DEF TypeOK, TypeCallers, TypeThreads
<1>1. ASSUME UNCHANGED <<at, running, flag, thread>>,
             \A b \in Callers : pc'[b] = "join" => pc[b] = "join"
      PROVE  Asked'
  BY <1>1 DEF Asked
<1>2. ASSUME NEW a \in Stoppers, StopThread(a) PROVE Asked'
  <2>1. pc[a] = "stop" /\ UNCHANGED thread /\ \A b \in Callers \ {a} : pc'[b] = pc[b] /\ at'[b] = at[b]
    BY <1>0, <1>2 DEF StopThread, NextThread, Goto, Stoppers
  <2>2. CASE /\ running' = [running EXCEPT ![Threads[at[a]]] = FALSE]
             /\ flag' = [flag EXCEPT ![Threads[at[a]]] = TRUE]
             /\ UNCHANGED at
    <3>1. \A t \in ThreadNames : running'[t] => running[t]
      BY <1>0, <2>2
    <3>2. \A t \in ThreadNames : running'[t] \/ flag'[t] \/ thread'[t] \in {"none", "ended"}
      BY <1>0, <2>1, <2>2 DEF Asked
    <3>3. ASSUME NEW b \in Callers, pc'[b] = "join" PROVE ~running'[Threads[at'[b]]]
      <4>1. CASE b = a
        BY <1>0, <2>2, <4>1
      <4>2. CASE b # a
        BY <1>0, <2>1, <2>2, <3>1, <3>3, <4>2 DEF Asked, Stoppers
      <4> QED
        BY <4>1, <4>2
    <3> QED
      BY <2>1, <3>1, <3>2, <3>3 DEF Asked
  <2>3. CASE NextThread(a) /\ UNCHANGED <<running, flag>>
    <3>1. pc'[a] # "join"
      BY <1>0, <2>3 DEF NextThread, Goto
    <3>2. \A b \in Callers : pc'[b] = "join" => pc[b] = "join" /\ at'[b] = at[b]
      BY <2>1, <3>1
    <3> QED
      BY <2>1, <2>3, <3>2 DEF Asked
  <2> QED
    BY <1>2, <2>2, <2>3 DEF StopThread
<1>3. ASSUME NEW a \in Stoppers, JoinThread(a) PROVE Asked'
  <2>1. /\ thread' = [thread EXCEPT ![Threads[at[a]]] = "none"] /\ UNCHANGED <<running, flag>>
        /\ NextThread(a)
    BY <1>3 DEF JoinThread
  <2>2. pc'[a] # "join" /\ \A b \in Callers \ {a} : pc'[b] = pc[b] /\ at'[b] = at[b]
    BY <1>0, <2>1 DEF NextThread, Goto, Stoppers
  <2>3. \A t \in ThreadNames : thread'[t] \in {thread[t], "none"}
    BY <1>0, <2>1
  <2> QED
    BY <2>1, <2>2, <2>3 DEF Asked
<1>4. ASSUME NEW a \in Callers, StartThreads(a) PROVE Asked'
  <2>1. /\ running' = [t \in ThreadNames |-> TRUE] /\ thread' = [t \in ThreadNames |-> "wait"]
        /\ pc[a] = "spawn"
    BY <1>4 DEF StartThreads
  <2>2. \A b \in Callers : pc'[b] # "join"
    <3>1. \A b \in Callers \ {a} : pc[b] # "join"
      BY <2>1 DEF Exclusion, Inside
    <3>2. Moves(a, Places \ Inside) \/ Moves(a, {"beat", "idle", "wait", "ended", "pause"})
      BY <1>4, Returns DEF StartThreads, Moves, TypeOK
    <3> QED
      BY <3>1, <3>2 DEF Moves, Inside
  <2> QED
    BY <2>1, <2>2 DEF Asked
<1>5. ASSUME NEW a \in Callers, ConnectLock(a) \/ ConnectDestroy(a) \/ ConnectDial(a) \/ ConnectTest(a)
      PROVE  Asked'
  <2>1. UNCHANGED <<at, running, flag, thread>> /\ pc[a] # "join"
    BY <1>5 DEF ConnectLock, ConnectDestroy, ConnectDial, ConnectTest
  <2>2. \/ \E p \in {"destroy", "dial", "assert", "stop"} : Goto(a, p)
        \/ \E ok \in BOOLEAN : ConnectReturns(a, ok)
    BY <1>5 DEF ConnectLock, ConnectDestroy, ConnectDial, ConnectTest
  <2>3. /\ TypeCallers /\ a \in Stoppers /\ {"destroy", "dial", "assert", "stop"} \subseteq Places
    BY DEF TypeOK, Stoppers, Places
  <2>4. pc'[a] # "join" /\ \A b \in Callers \ {a} : pc'[b] = pc[b]
    <3>1. ASSUME NEW p \in {"destroy", "dial", "assert", "stop"}, Goto(a, p)
          PROVE  pc'[a] # "join" /\ \A b \in Callers \ {a} : pc'[b] = pc[b]
      BY <1>0, <2>3, <3>1 DEF Goto, Stoppers
    <3>2. ASSUME NEW ok \in BOOLEAN, ConnectReturns(a, ok)
          PROVE  pc'[a] # "join" /\ \A b \in Callers \ {a} : pc'[b] = pc[b]
      BY <2>3, <3>2, Returns DEF Moves
    <3> QED
      BY <2>2, <3>1, <3>2
  <2> QED
    BY <1>1, <2>1, <2>4
<1>6. CASE CloseDestroy
  BY <1>0, <1>1, <1>6 DEF CloseDestroy, Goto, Stoppers, Callers
<1>7. CASE Sleep
  <2>1. UNCHANGED <<at, running, thread>> /\ \A t \in ThreadNames : flag[t] => flag'[t]
    BY <1>7 DEF Sleep, SleepStart, SleepWait, SleepCheck, SleepPause, SleepDispatch
  <2>2. pc'["sleep"] # "join" /\ pc'["timer"] = pc["timer"]
    BY <1>0, <1>7 DEF Sleep, SleepStart, SleepWait, SleepCheck, SleepPause, SleepDispatch, Goto, Loops,
                      Stoppers, Callers
  <2> QED
    BY <2>1, <2>2 DEF Asked, Callers
<1>8. ASSUME NEW t \in ThreadNames, ThreadWake(t) PROVE Asked'
  <2>1. /\ UNCHANGED <<pc, at, running>> /\ flag' = [flag EXCEPT ![t] = FALSE]
        /\ thread' = [thread EXCEPT ![t] = IF running[t] THEN "work" ELSE "ended"]
    BY <1>8 DEF ThreadWake
  <2> QED
    BY <1>0, <2>1 DEF Asked
<1>9. ASSUME NEW t \in ThreadNames, ThreadWork(t) \/ (CommandPost /\ t = "command") PROVE Asked'
  <2>1. /\ UNCHANGED <<pc, at, running, flag>> /\ thread[t] \in {"work", "post"}
        /\ \E p \in {"wait", "post"} : thread' = [thread EXCEPT ![t] = p]
    BY <1>9 DEF ThreadWork, CommandPost
  <2> QED
    BY <1>0, <2>1 DEF Asked
<1>10. CASE TestSleepThread \/ TimerEnds \/ \E ip \in BOOLEAN : TimerCallback(ip)
  <2>1. UNCHANGED <<at, running, flag, thread>>
    BY <1>10 DEF TestSleepThread, TimerEnds, TimerCallback
  <2>2. \E p \in {"idle", "exit", "ended", "beat", "lock"} : Goto("timer", p)
    BY <1>10 DEF TestSleepThread, TimerEnds, TimerCallback
  <2> QED
    BY <1>0, <1>1, <2>1, <2>2 DEF Goto, Stoppers, Callers
<1>11. CASE NotifyPost \/ NotifyLock \/ StopThreadpool \/ Drop \/ Reconnect \/ UNCHANGED vars
  BY <1>1, <1>11 DEF NotifyPost, NotifyLock, StopThreadpool, Drop, Reconnect, vars
<1>12. CASE \E c \in Channels : DeliveryPost(c) \/ \E reason \in Posted(c) : Deliver(c, reason)
  BY <1>1, <1>12 DEF DeliveryPost, Deliver
<1>13. Stoppers = Callers \cup {"close"} /\ "command" \in ThreadNames
  BY ThreadsAre DEF Stoppers
<1> QED
  BY <1>2, <1>3, <1>4, <1>5, <1>6, <1>7, <1>8, <1>9, <1>10, <1>11, <1>12, <1>13
     DEF Next, Step, Outside, Connect, Close, ClientThread

(* A thread that is joined and cannot be, yet, waits for the slot, or was   *)
(* started anew.                                                            *)
LEMMA JoinWaits ==
  ASSUME TypeOK, Asked, ~Unblocked, NEW a \in Stoppers, pc[a] = "join"
  PROVE  (slot # "none" /\ JoinsPoster(a)) \/ (a = "close" /\ Stalled)
<1> DEFINE t == Threads[at[a]]
<1>1. t \in ThreadNames /\ Joining(a, t) /\ t \in {"message", "command", "payload", "synfile"}
  BY ThreadsAre DEF TypeOK, TypeThreads, Joining
<1>2. thread[t] \in {"wait", "work", "post"}
  BY <1>1 DEF Unblocked, TypeOK, TypeThreads
<1>3. CASE thread[t] = "wait"
  <2>1. running[t]
    BY <1>1, <1>3 DEF Unblocked, Asked
  <2>2. a = "close"
    BY <2>1 DEF Asked, Stoppers
  <2> QED
    BY <1>1, <2>1, <2>2 DEF Stalled
<1>4. CASE thread[t] = "work"
  <2>1. t = "payload" /\ loop
    BY <1>1, <1>4 DEF Unblocked
  <2> QED
    BY <1>1, <1>4, <2>1 DEF Unblocked, JoinsPoster
<1>5. CASE thread[t] = "post"
  <2>1. t = "command"
    BY <1>1, <1>5 DEF TypeOK, TypeThreads
  <2> QED
    BY <1>1, <1>5, <2>1 DEF Unblocked, JoinsPoster
<1> QED
  BY <1>2, <1>3, <1>4, <1>5

LEMMA BlockedAreNamed == TypeOK /\ Exclusion /\ Closing /\ Asked => OnlyOutsideIsAwaited
<1> SUFFICES ASSUME TypeOK, Exclusion, Closing, Asked, ~Unblocked, ~Stalled PROVE AtRest
  BY DEF OnlyOutsideIsAwaited
<1>0. /\ pc \in [Stoppers -> Places] /\ pc["sleep"] \notin {"idle", "beat", "exit", "none"}
      /\ pc["timer"] \notin {"start", "wait", "check", "pause", "notify", "none"}
      /\ pc["close"] \in {"none", "destroy", "stop", "join", "ended"}
      /\ pc["timer"] \in {"exit", "ended"} => told
      /\ "sleep" \in Stoppers /\ "timer" \in Stoppers /\ "close" \in Stoppers
  BY DEF TypeOK, TypeCallers, Stoppers, Callers
<1>1. ~Wedged /\ (pc["sleep"] = "ended" => pc["close"] \notin {"none", "ended"})
  BY DEF Stalled
<1>2. \A a \in Stoppers : pc[a] = "join" => slot # "none" /\ JoinsPoster(a)
  BY JoinWaits
<1>3. \A a \in Callers : pc[a] = "lock" => \E b \in Callers : pc[b] = "join"
  <2> SUFFICES ASSUME NEW a \in Callers, pc[a] = "lock" PROVE \E b \in Callers : pc[b] = "join"
    OBVIOUS
  <2>1. mutex \in Callers
    BY DEF Unblocked, TypeOK, TypeConnection
  <2>2. pc[mutex] \in Inside
    BY <2>1 DEF Exclusion
  <2>3. pc[mutex] = "join"
    BY <2>1, <2>2 DEF Unblocked, Inside, Stoppers
  <2> QED
    BY <2>1, <2>3
<1>4. pc["close"] \in {"none", "join", "ended"} /\ pc["sleep"] \in {"ended", "wait", "lock", "join"}
  BY <1>0 DEF Unblocked, Places, Callers, Stoppers
<1>5. \A a \in Stoppers : pc[a] # "join"
  <2> SUFFICES ASSUME NEW a \in Stoppers, pc[a] = "join" PROVE FALSE
    OBVIOUS
  <2>1. slot # "none" /\ JoinsPoster(a)
    BY <1>2
  <2>2. pc["sleep"] \in {"ended", "lock", "join"}
    BY <1>4, <2>1 DEF Unblocked
  <2> QED
    BY <1>1, <2>1, <2>2 DEF Wedged
<1>6. \A a \in Callers : pc[a] # "lock"
  BY <1>3, <1>5 DEF Stoppers
<1>7. pc["sleep"] = "wait" /\ slot = "none" /\ pc["close"] \in {"none", "ended"}
  BY <1>0, <1>1, <1>4, <1>5, <1>6 DEF Unblocked, Callers
<1>8. pc["timer"] \in {"idle", "ended"}
  BY <1>0, <1>5, <1>6, <1>7 DEF Unblocked, Places, Callers, Stoppers
<1>9. ~loop /\ (\A c \in Channels : delivery[c] = "none") /\ thread["command"] # "post"
  BY <1>7 DEF Unblocked
<1>10. ASSUME NEW t \in ThreadNames PROVE thread[t] = "none" \/ (thread[t] = "wait" /\ ~flag[t])
  <2>1. thread[t] # "ended"
    BY <1>5 DEF Closing, Asked, Joining
  <2>2. thread[t] \notin {"work", "post"}
    BY <1>9 DEF Unblocked, TypeOK, TypeThreads
  <2>3. thread[t] = "wait" => ~flag[t]
    BY DEF Unblocked
  <2> QED
    BY <2>1, <2>2, <2>3 DEF TypeOK, TypeThreads
<1> QED
  BY <1>7, <1>8, <1>9, <1>10 DEF AtRest

(* For any channels and bounds: when no thread of the living process is     *)
(* unblocked, each of them waits for something from outside, or it is one   *)
(* of the named stalls.                                                     *)
THEOREM BlockedThreadsAreNamed == Spec => []OnlyOutsideIsAwaited
<1>1. Init => Asked
  BY DEF Init, Asked, Callers, Stoppers
<1>2. CInv /\ Asked /\ [Next]_vars => Asked'
  BY AskedStep DEF CInv
<1>3. CInv /\ Closing /\ [Next]_vars => Closing'
  BY ClosingStep DEF CInv
<1>4. CInv /\ Closing /\ Asked => OnlyOutsideIsAwaited
  BY BlockedAreNamed DEF CInv
<1> QED
  BY <1>1, <1>2, <1>3, <1>4, InitConnection, InitClosing, ConnectionStep, PTL DEF Spec

-----------------------------------------------------------------------------
(* The work left between two events from outside.  What is posted costs a   *)
(* turn of the SleepThread's loop, with the connect that may be in it, and  *)
(* the flag it raises; connect wakes all four threads, of which the command *)
(* thread posts again.  There is no circle, as the next turn finds the      *)
(* connection up: a connection that is not counts for the connect that      *)
(* makes it (DownLeft).                                                     *)
ReasonLeft(r) == IF r = "recv_command" THEN 54
                 ELSE IF r \in {"recv_message", "send_payload", "send_synfile"} THEN 2 ELSE 0
SlotLeft(r) == IF r = "none" THEN 0 ELSE 51 + ReasonLeft(r)

Raised(t) == IF t = "command" THEN 54 ELSE 2
FlagLeft(t, up) == IF up THEN Raised(t) ELSE 0
ThreadLeft(t, place) == CASE place = "work" -> IF t = "command" THEN 53 ELSE 1
                          [] place = "post" -> 52
                          [] OTHER          -> 0
ClientLeft(f, th) ==
  LET Left(t) == FlagLeft(t, f[t]) + ThreadLeft(t, th[t]) IN
  Left("message") + Left("command") + Left("payload") + Left("synfile")

PostLeft(d, c) == IF c \in Channels /\ d[c] # "none" THEN SlotLeft(d[c]) + 1 ELSE 0
PostersLeft(d, posts) == PostLeft(d, "message") + PostLeft(d, "command") + PostLeft(d, "syncfile")
                         + (IF posts THEN 54 ELSE 0)

StopsLeft(place, i) == IF place = "stop" THEN <<68, 64, 8, 4>>[i] ELSE <<65, 9, 5, 1>>[i]
SleepLeft(place, i) ==
  CASE place = "start"            -> 76
    [] place = "check"            -> 50
    [] place = "lock"             -> 45
    [] place = "destroy"          -> 44
    [] place = "dial"             -> 43
    [] place = "assert"           -> 72
    [] place \in {"stop", "join"} -> 3 + StopsLeft(place, i)
    [] place = "spawn"            -> 3
    [] place = "pause"            -> 2
    [] place = "notify"           -> 1
    [] OTHER                      -> 0
TimerLeft(place, i) ==
  CASE place = "lock"             -> 208
    [] place = "destroy"          -> 207
    [] place = "dial"             -> 176
    [] place = "assert"           -> 175
    [] place \in {"stop", "join"} -> 106 + StopsLeft(place, i)
    [] place = "spawn"            -> 106
    [] place = "beat"             -> 105
    [] place = "idle"             -> 53
    [] place = "exit"             -> 52
    [] OTHER                      -> 0
CloseLeft(place, i) ==
  CASE place = "none"             -> 100
    [] place = "destroy"          -> 99
    [] place \in {"stop", "join"} -> StopsLeft(place, i)
    [] OTHER                      -> 0
DownLeft(c, place) == IF c # "up" \/ place \in {"lock", "destroy"} THEN 30 ELSE 0
CallersLeft(places, i, c) ==
  SleepLeft(places["sleep"], i["sleep"]) + DownLeft(c, places["sleep"])
  + TimerLeft(places["timer"], i["timer"]) + CloseLeft(places["close"], i["close"])

Work == SlotLeft(slot) + ReasonLeft(sreason) + ClientLeft(flag, thread)
        + PostersLeft(delivery, loop) + CallersLeft(pc, at, nc)
WorkRunsOut == [][Outside \/ Work' < Work]_vars

(* The measure's numbers. *)
LEMMA ReasonNat == ASSUME NEW r PROVE ReasonLeft(r) \in Nat /\ SlotLeft(r) \in Nat
  BY DEF ReasonLeft, SlotLeft

LEMMA StopsNat == \A i \in 1..4, place \in {"stop", "join"} : StopsLeft(place, i) \in 1..68
<1>1. ASSUME NEW i \in 1..4, NEW place \in {"stop", "join"} PROVE StopsLeft(place, i) \in 1..68
  <2>1. i = 1 \/ i = 2 \/ i = 3 \/ i = 4
    OBVIOUS
  <2> QED
    BY <2>1 DEF StopsLeft
<1> QED
  BY <1>1

LEMMA CallerNat ==
  ASSUME NEW i \in 1..4, NEW place
  PROVE  /\ SleepLeft(place, i) \in Nat /\ TimerLeft(place, i) \in Nat
         /\ CloseLeft(place, i) \in Nat
<1>1. CASE place \in {"stop", "join"}
  <2>1. StopsLeft(place, i) \in Nat
    BY <1>1, StopsNat
  <2> QED
    BY <1>1, <2>1 DEF SleepLeft, TimerLeft, CloseLeft
<1>2. CASE place \notin {"stop", "join"}
  BY <1>2 DEF SleepLeft, TimerLeft, CloseLeft
<1> QED
  BY <1>1, <1>2

LEMMA ThreadNat ==
  ASSUME NEW t, NEW up, NEW place
  PROVE  FlagLeft(t, up) \in Nat /\ ThreadLeft(t, place) \in Nat
  BY DEF FlagLeft, Raised, ThreadLeft

LEMMA ClientNat == ASSUME NEW f, NEW th PROVE ClientLeft(f, th) \in Nat
<1> DEFINE Left(t) == FlagLeft(t, f[t]) + ThreadLeft(t, th[t])
<1>1. ASSUME NEW t PROVE Left(t) \in Nat
  <2>1. FlagLeft(t, f[t]) \in Nat /\ ThreadLeft(t, th[t]) \in Nat
    BY ThreadNat
  <2> QED
    BY <2>1
<1>2. ClientLeft(f, th) = Left("message") + Left("command") + Left("payload") + Left("synfile")
  BY DEF ClientLeft
<1> HIDE DEF Left
<1>3. /\ Left("message") \in Nat /\ Left("command") \in Nat /\ Left("payload") \in Nat
      /\ Left("synfile") \in Nat
  BY <1>1
<1> QED
  BY <1>2, <1>3

LEMMA PostNat == ASSUME NEW d, NEW posts PROVE PostersLeft(d, posts) \in Nat
<1>1. ASSUME NEW c PROVE PostLeft(d, c) \in Nat
  <2>1. SlotLeft(d[c]) \in Nat
    BY ReasonNat
  <2> QED
    BY <2>1 DEF PostLeft
<1>2. PostLeft(d, "message") \in Nat /\ PostLeft(d, "command") \in Nat /\ PostLeft(d, "syncfile") \in Nat
  BY <1>1
<1> QED
  BY <1>2 DEF PostersLeft

LEMMA DownNat == ASSUME NEW c, NEW place PROVE DownLeft(c, place) \in Nat
  BY DEF DownLeft

LEMMA CallersNat ==
  ASSUME NEW places, NEW i \in [Stoppers -> 1..4], NEW c
  PROVE  CallersLeft(places, i, c) \in Nat
<1>1. i["sleep"] \in 1..4 /\ i["timer"] \in 1..4 /\ i["close"] \in 1..4
  BY DEF Stoppers, Callers
<1>2. /\ SleepLeft(places["sleep"], i["sleep"]) \in Nat /\ TimerLeft(places["timer"], i["timer"]) \in Nat
      /\ CloseLeft(places["close"], i["close"]) \in Nat /\ DownLeft(c, places["sleep"]) \in Nat
  BY <1>1, CallerNat, DownNat
<1> QED
  BY <1>2 DEF CallersLeft

LEMMA CallersNow ==
  ASSUME TypeOK, TypeOK'
  PROVE  /\ at \in [Stoppers -> 1..4] /\ at' \in [Stoppers -> 1..4]
         /\ CallersLeft(pc, at, nc) \in Nat /\ CallersLeft(pc', at', nc') \in Nat
<1>1. at \in [Stoppers -> 1..4] /\ at' \in [Stoppers -> 1..4]
  BY ThreadsAre DEF TypeOK, TypeThreads
<1> QED
  BY <1>1, CallersNat

(* One of those who stop the threads moves. *)
LEMMA SleepMoved ==
  ASSUME TypeOK, TypeOK', Closing, [Next]_vars, pc["sleep"] # "ended", NEW P, Moves("sleep", P),
         at'["timer"] = at["timer"], at'["close"] = at["close"]
  PROVE  CallersLeft(pc', at', nc') + SleepLeft(pc["sleep"], at["sleep"]) + DownLeft(nc, pc["sleep"])
         <= CallersLeft(pc, at, nc) + SleepLeft(pc'["sleep"], at'["sleep"]) + DownLeft(nc', pc'["sleep"])
<1>1. pc'["timer"] = pc["timer"]
  BY DEF Moves, Callers
<1>2. CloseLeft(pc'["close"], at'["close"]) <= CloseLeft(pc["close"], at["close"])
  <2>1. pc["close"] = "none"
    BY DEF Closing
  <2>2. pc'["close"] \in {"none", "destroy"}
    BY <2>1 DEF Moves
  <2> QED
    BY <2>1, <2>2 DEF CloseLeft
<1>3. /\ \A a \in Stoppers : at[a] \in 1..4 /\ at'[a] \in 1..4
      /\ "sleep" \in Stoppers /\ "timer" \in Stoppers /\ "close" \in Stoppers
  BY ThreadsAre DEF TypeOK, TypeThreads, Stoppers, Callers
<1>4. /\ SleepLeft(pc["sleep"], at["sleep"]) \in Nat /\ SleepLeft(pc'["sleep"], at'["sleep"]) \in Nat
      /\ TimerLeft(pc["timer"], at["timer"]) \in Nat
      /\ CloseLeft(pc["close"], at["close"]) \in Nat /\ CloseLeft(pc'["close"], at'["close"]) \in Nat
      /\ DownLeft(nc, pc["sleep"]) \in Nat /\ DownLeft(nc', pc'["sleep"]) \in Nat
  BY <1>3, CallerNat, DownNat
<1> QED
  BY <1>1, <1>2, <1>4 DEF CallersLeft

LEMMA TimerMoved ==
  ASSUME TypeOK, TypeOK', NEW P, Moves("timer", P),
         at'["sleep"] = at["sleep"], at'["close"] = at["close"]
  PROVE  CallersLeft(pc', at', nc') + TimerLeft(pc["timer"], at["timer"]) + DownLeft(nc, pc["sleep"])
         = CallersLeft(pc, at, nc) + TimerLeft(pc'["timer"], at'["timer"]) + DownLeft(nc', pc["sleep"])
<1>1. pc'["sleep"] = pc["sleep"] /\ pc'["close"] = pc["close"]
  BY DEF Moves, Callers
<1>2. /\ \A a \in Stoppers : at[a] \in 1..4 /\ at'[a] \in 1..4
      /\ "sleep" \in Stoppers /\ "timer" \in Stoppers /\ "close" \in Stoppers
  BY ThreadsAre DEF TypeOK, TypeThreads, Stoppers, Callers
<1>3. /\ SleepLeft(pc["sleep"], at["sleep"]) \in Nat /\ CloseLeft(pc["close"], at["close"]) \in Nat
      /\ TimerLeft(pc["timer"], at["timer"]) \in Nat /\ TimerLeft(pc'["timer"], at'["timer"]) \in Nat
      /\ DownLeft(nc, pc["sleep"]) \in Nat /\ DownLeft(nc', pc["sleep"]) \in Nat
  BY <1>2, CallerNat, DownNat
<1> QED
  BY <1>1, <1>3 DEF CallersLeft

LEMMA CloseMoved ==
  ASSUME TypeOK, TypeOK', NEW P, Moves("close", P),
         at'["sleep"] = at["sleep"], at'["timer"] = at["timer"]
  PROVE  CallersLeft(pc', at', nc') + CloseLeft(pc["close"], at["close"]) + DownLeft(nc, pc["sleep"])
         = CallersLeft(pc, at, nc) + CloseLeft(pc'["close"], at'["close"]) + DownLeft(nc', pc["sleep"])
<1>1. pc'["sleep"] = pc["sleep"] /\ pc'["timer"] = pc["timer"]
  BY DEF Moves, Callers
<1>2. /\ \A a \in Stoppers : at[a] \in 1..4 /\ at'[a] \in 1..4
      /\ "sleep" \in Stoppers /\ "timer" \in Stoppers /\ "close" \in Stoppers
  BY ThreadsAre DEF TypeOK, TypeThreads, Stoppers, Callers
<1>3. /\ SleepLeft(pc["sleep"], at["sleep"]) \in Nat /\ TimerLeft(pc["timer"], at["timer"]) \in Nat
      /\ CloseLeft(pc["close"], at["close"]) \in Nat /\ CloseLeft(pc'["close"], at'["close"]) \in Nat
      /\ DownLeft(nc, pc["sleep"]) \in Nat /\ DownLeft(nc', pc["sleep"]) \in Nat
  BY <1>2, CallerNat, DownNat
<1> QED
  BY <1>1, <1>3 DEF CallersLeft

(* One client thread and its flag change. *)
LEMMA ClientMoved ==
  ASSUME TypeOK, NEW t \in ThreadNames,
         \A u \in ThreadNames \ {t} : flag'[u] = flag[u] /\ thread'[u] = thread[u]
  PROVE  ClientLeft(flag', thread') + FlagLeft(t, flag[t]) + ThreadLeft(t, thread[t])
         = ClientLeft(flag, thread) + FlagLeft(t, flag'[t]) + ThreadLeft(t, thread'[t])
<1>2. /\ t \in {"message", "command", "payload", "synfile"}
      /\ ThreadNames = {"message", "command", "payload", "synfile"}
  BY ThreadsAre
<1> DEFINE Left(u) == FlagLeft(u, flag[u]) + ThreadLeft(u, thread[u])
           Next1(u) == FlagLeft(u, flag'[u]) + ThreadLeft(u, thread'[u])
<1>3. /\ ClientLeft(flag, thread) = Left("message") + Left("command") + Left("payload") + Left("synfile")
      /\ ClientLeft(flag', thread')
         = Next1("message") + Next1("command") + Next1("payload") + Next1("synfile")
  BY DEF ClientLeft
<1>4. \A u \in ThreadNames \ {t} : Next1(u) = Left(u)
  OBVIOUS
<1>5. /\ FlagLeft(t, flag'[t]) \in Nat /\ ThreadLeft(t, thread'[t]) \in Nat
      /\ FlagLeft(t, flag[t]) \in Nat /\ ThreadLeft(t, thread[t]) \in Nat
  BY ThreadNat
<1>6. Left(t) = FlagLeft(t, flag[t]) + ThreadLeft(t, thread[t])
      /\ Next1(t) = FlagLeft(t, flag'[t]) + ThreadLeft(t, thread'[t])
  OBVIOUS
<1>7. ASSUME NEW u PROVE Left(u) \in Nat /\ Next1(u) \in Nat
  <2>1. /\ FlagLeft(u, flag[u]) \in Nat /\ ThreadLeft(u, thread[u]) \in Nat
        /\ FlagLeft(u, flag'[u]) \in Nat /\ ThreadLeft(u, thread'[u]) \in Nat
    BY ThreadNat
  <2> QED
    BY <2>1
<1> HIDE DEF Left, Next1
<1>8. CASE t = "message"
  <2>1. /\ Next1("command") = Left("command") /\ Next1("payload") = Left("payload")
        /\ Next1("synfile") = Left("synfile")
    BY <1>2, <1>4, <1>8
  <2> QED
    BY <1>3, <1>5, <1>6, <1>7, <1>8, <2>1
<1>9. CASE t = "command"
  <2>1. /\ Next1("message") = Left("message") /\ Next1("payload") = Left("payload")
        /\ Next1("synfile") = Left("synfile")
    BY <1>2, <1>4, <1>9
  <2> QED
    BY <1>3, <1>5, <1>6, <1>7, <1>9, <2>1
<1>10. CASE t = "payload"
  <2>1. /\ Next1("message") = Left("message") /\ Next1("command") = Left("command")
        /\ Next1("synfile") = Left("synfile")
    BY <1>2, <1>4, <1>10
  <2> QED
    BY <1>3, <1>5, <1>6, <1>7, <1>10, <2>1
<1>11. CASE t = "synfile"
  <2>1. /\ Next1("message") = Left("message") /\ Next1("command") = Left("command")
        /\ Next1("payload") = Left("payload")
    BY <1>2, <1>4, <1>11
  <2> QED
    BY <1>3, <1>5, <1>6, <1>7, <1>11, <2>1
<1> QED
  BY <1>2, <1>8, <1>9, <1>10, <1>11

(* While connect dials there is no connection, after the stop, too. *)
DialsFromNone == \A a \in Callers : pc[a] = "dial" => nc = "null"

LEMMA DialsStep == TypeOK /\ Exclusion /\ DialsFromNone /\ [Next]_vars => DialsFromNone'
<1> SUFFICES ASSUME TypeOK, Exclusion, DialsFromNone, [Next]_vars PROVE DialsFromNone'
  OBVIOUS
<1> USE DEF connection, client, posters, ending
<1>1. ASSUME NEW a \in Callers, Connect(a) PROVE DialsFromNone'
  <2>1. \A b \in Callers \ {a} : pc'[b] = pc[b]
    BY <1>1, ConnectMoves DEF Moves
  <2>2. CASE ConnectDestroy(a)
    BY <2>2 DEF ConnectDestroy, DialsFromNone
  <2>3. CASE ConnectDial(a)
    <3>1. \A b \in Callers \ {a} : pc[b] # "dial"
      BY <2>3 DEF ConnectDial, Exclusion, Inside
    <3>2. pc'[a] # "dial"
      <4>1. CASE Goto(a, "assert")
        BY <4>1 DEF Goto, TypeOK, TypeCallers, Stoppers
      <4>2. CASE ConnectReturns(a, FALSE)
        <5>1. Moves(a, IF a = "timer" THEN {"beat", "idle"} ELSE {"wait", "ended", "pause"})
          BY <4>2, Returns DEF TypeOK
        <5> QED
          BY <5>1 DEF Moves
      <4> QED
        BY <2>3, <4>1, <4>2 DEF ConnectDial
    <3> QED
      BY <2>1, <3>1, <3>2 DEF DialsFromNone
  <2>4. CASE ConnectLock(a) \/ StopThread(a) \/ JoinThread(a)
    <3>1. nc' = nc
      BY <2>4 DEF ConnectLock, StopThread, JoinThread
    <3>2. \E p \in {"destroy", "join", "stop", "spawn", "ended"} : Goto(a, p)
      BY <2>4 DEF ConnectLock, StopThread, JoinThread, NextThread
    <3>3. pc'[a] # "dial"
      BY <3>2 DEF Goto, TypeOK, TypeCallers, Stoppers
    <3> QED
      BY <2>1, <3>1, <3>3 DEF DialsFromNone
  <2>5. CASE ConnectTest(a) \/ StartThreads(a)
    <3>1. nc' = nc
      BY <2>5 DEF ConnectTest, StartThreads
    <3>2. pc'[a] # "dial"
      <4>1. CASE Goto(a, "stop")
        BY <4>1 DEF Goto, TypeOK, TypeCallers, Stoppers
      <4>2. CASE \E ok \in BOOLEAN : ConnectReturns(a, ok)
        <5>1. Moves(a, IF a = "timer" THEN {"beat", "idle"} ELSE {"wait", "ended", "pause"})
          BY <4>2, Returns DEF TypeOK
        <5> QED
          BY <5>1 DEF Moves
      <4> QED
        BY <2>5, <4>1, <4>2 DEF ConnectTest, StartThreads
    <3> QED
      BY <2>1, <3>1, <3>2 DEF DialsFromNone
  <2> QED
    BY <1>1, <2>2, <2>3, <2>4, <2>5 DEF Connect
<1>2. ASSUME NEW a \in Callers, OutsideStep(a) PROVE DialsFromNone'
  BY <1>2 DEF OutsideStep, Moves, Inside, DialsFromNone
<1>3. CASE Close
  <2>1. \E p \in Places : Goto("close", p)
    BY <1>3 DEF Close, CloseDestroy, StopThread, JoinThread, NextThread, Places
  <2>2. \A b \in Callers : pc'[b] = pc[b]
    BY <2>1, Going DEF TypeOK, Moves, Stoppers, Callers
  <2>3. nc' \in {nc, "null"}
    BY <1>3 DEF Close, CloseDestroy, StopThread, JoinThread
  <2> QED
    BY <2>2, <2>3 DEF DialsFromNone
<1>4. CASE OtherStep \/ NetworkStep
  BY <1>4 DEF OtherStep, NetworkStep, DialsFromNone
<1> QED
  BY <1>1, <1>2, <1>3, <1>4, Steps

-----------------------------------------------------------------------------
(* The turns of connect outside stop_threads. *)
LEMMA CallerLess ==
  ASSUME TypeOK, TypeOK', Closing, [Next]_vars, NEW a \in Callers, NEW P, Moves(a, P),
         UNCHANGED at, a = "sleep" => pc["sleep"] # "ended",
         a = "sleep" => SleepLeft(pc'["sleep"], at["sleep"]) + DownLeft(nc', pc'["sleep"])
                        < SleepLeft(pc["sleep"], at["sleep"]) + DownLeft(nc, pc["sleep"]),
         a = "timer" => TimerLeft(pc'["timer"], at["timer"]) + DownLeft(nc', pc["sleep"])
                        < TimerLeft(pc["timer"], at["timer"]) + DownLeft(nc, pc["sleep"])
  PROVE  CallersLeft(pc', at', nc') < CallersLeft(pc, at, nc)
<1>1. /\ at["sleep"] \in 1..4 /\ at["timer"] \in 1..4
      /\ CallersLeft(pc, at, nc) \in Nat /\ CallersLeft(pc', at', nc') \in Nat
  BY CallersNow DEF Stoppers, Callers
<1>2. /\ SleepLeft(pc["sleep"], at["sleep"]) \in Nat /\ SleepLeft(pc'["sleep"], at["sleep"]) \in Nat
      /\ TimerLeft(pc["timer"], at["timer"]) \in Nat /\ TimerLeft(pc'["timer"], at["timer"]) \in Nat
  BY <1>1, CallerNat
<1>3. /\ DownLeft(nc, pc["sleep"]) \in Nat /\ DownLeft(nc', pc'["sleep"]) \in Nat
      /\ DownLeft(nc', pc["sleep"]) \in Nat
  BY DownNat
<1>4. CASE a = "sleep"
  <2>1. CallersLeft(pc', at', nc') + SleepLeft(pc["sleep"], at["sleep"]) + DownLeft(nc, pc["sleep"])
        <= CallersLeft(pc, at, nc) + SleepLeft(pc'["sleep"], at["sleep"]) + DownLeft(nc', pc'["sleep"])
    BY <1>4, SleepMoved
  <2> QED
    BY <1>1, <1>2, <1>3, <1>4, <2>1
<1>5. CASE a = "timer"
  <2>1. CallersLeft(pc', at', nc') + TimerLeft(pc["timer"], at["timer"]) + DownLeft(nc, pc["sleep"])
        = CallersLeft(pc, at, nc) + TimerLeft(pc'["timer"], at["timer"]) + DownLeft(nc', pc["sleep"])
    BY <1>5, TimerMoved
  <2> QED
    BY <1>1, <1>2, <1>3, <1>5, <2>1
<1> QED
  BY <1>4, <1>5 DEF Callers

LEMMA ConnectLess ==
  ASSUME TypeOK, TypeOK', Closing, DialsFromNone, [Next]_vars, NEW a \in Callers,
         \/ ConnectLock(a) \/ ConnectDestroy(a) \/ ConnectDial(a) \/ ConnectTest(a)
         \/ StartThreads(a)
  PROVE  CallersLeft(pc', at', nc') < CallersLeft(pc, at, nc)
<1> USE DEF connection, client, posters, ending
<1>0. TypeCallers /\ a \in Stoppers /\ (a = "sleep" \/ a = "timer")
  BY DEF TypeOK, Stoppers, Callers
<1>1. UNCHANGED at
  BY DEF ConnectLock, ConnectDestroy, ConnectDial, ConnectTest, StartThreads
<1>2. \A i \in 1..4 : StopsLeft("stop", i) \in 1..68
  BY StopsNat
<1>3. at["sleep"] \in 1..4 /\ at["timer"] \in 1..4
  BY ThreadsAre DEF TypeOK, TypeThreads, Stoppers, Callers
<1>4. CASE ConnectLock(a)
  <2>1. pc[a] = "lock" /\ nc' = nc /\ Moves(a, {"destroy"})
    BY <1>0, <1>4, Going DEF ConnectLock, Places
  <2>2. pc'[a] = "destroy"
    BY <2>1 DEF Moves
  <2> QED
    BY <1>0, <1>1, <2>1, <2>2, CallerLess DEF SleepLeft, TimerLeft, DownLeft
<1>5. CASE ConnectDestroy(a)
  <2>1. pc[a] = "destroy" /\ nc' = "null" /\ Moves(a, {"dial"})
    BY <1>0, <1>5, Going DEF ConnectDestroy, Places
  <2>2. pc'[a] = "dial"
    BY <2>1 DEF Moves
  <2> QED
    BY <1>0, <1>1, <2>1, <2>2, CallerLess DEF SleepLeft, TimerLeft, DownLeft
<1>6. CASE ConnectDial(a)
  <2>1. pc[a] = "dial" /\ nc = "null"
    BY <1>6 DEF ConnectDial, DialsFromNone
  <2>2. CASE nc' = "up" /\ Goto(a, "assert")
    <3>1. Moves(a, {"assert"})
      BY <1>0, <2>2, Going DEF Places
    <3>2. pc'[a] = "assert"
      BY <3>1 DEF Moves
    <3> QED
      BY <1>0, <1>1, <2>1, <2>2, <3>1, <3>2, CallerLess DEF SleepLeft, TimerLeft, DownLeft
  <2>3. CASE ConnectReturns(a, FALSE)
    <3>1. Moves(a, IF a = "timer" THEN {"beat", "idle"} ELSE {"wait", "ended", "pause"})
      BY <1>0, <2>3, Returns
    <3>2. /\ a = "timer" => pc'[a] \in {"beat", "idle"}
          /\ a = "sleep" => pc'[a] \in {"wait", "ended", "pause"}
      BY <3>1 DEF Moves
    <3> QED
      BY <1>0, <1>1, <2>1, <3>1, <3>2, CallerLess DEF SleepLeft, TimerLeft, DownLeft
  <2> QED
    BY <1>6, <2>2, <2>3 DEF ConnectDial
<1>7. CASE ConnectTest(a)
  <2>1. pc[a] = "assert" /\ nc' = nc
    BY <1>7 DEF ConnectTest
  <2>2. CASE Goto(a, "stop")
    <3>1. Moves(a, {"stop"})
      BY <1>0, <2>2, Going DEF Places
    <3>2. pc'[a] = "stop"
      BY <3>1 DEF Moves
    <3>3. /\ StopsLeft("stop", at["sleep"]) \in 1..68 /\ StopsLeft("stop", at["timer"]) \in 1..68
      BY <1>2, <1>3
    <3> QED
      BY <1>0, <1>1, <2>1, <3>1, <3>2, <3>3, CallerLess DEF SleepLeft, TimerLeft, DownLeft
  <2>3. CASE ConnectReturns(a, FALSE)
    <3>1. Moves(a, IF a = "timer" THEN {"beat", "idle"} ELSE {"wait", "ended", "pause"})
      BY <1>0, <2>3, Returns
    <3>2. /\ a = "timer" => pc'[a] \in {"beat", "idle"}
          /\ a = "sleep" => pc'[a] \in {"wait", "ended", "pause"}
      BY <3>1 DEF Moves
    <3> QED
      BY <1>0, <1>1, <2>1, <3>1, <3>2, CallerLess DEF SleepLeft, TimerLeft, DownLeft
  <2> QED
    BY <1>7, <2>2, <2>3 DEF ConnectTest
<1>8. CASE StartThreads(a)
  <2>1. pc[a] = "spawn" /\ nc' = nc /\ ConnectReturns(a, TRUE)
    BY <1>8 DEF StartThreads
  <2>2. Moves(a, IF a = "timer" THEN {"beat", "idle"} ELSE {"wait", "ended", "pause"})
    BY <1>0, <2>1, Returns
  <2>3. /\ a = "timer" => pc'[a] \in {"beat", "idle"}
        /\ a = "sleep" => pc'[a] \in {"wait", "ended", "pause"}
    BY <2>2 DEF Moves
  <2> QED
    BY <1>0, <1>1, <2>1, <2>2, <2>3, CallerLess DEF SleepLeft, TimerLeft, DownLeft
<1> QED
  BY <1>4, <1>5, <1>6, <1>7, <1>8

(* stop_threads: a thread told and joined costs more than its wake-up. *)
LEMMA StopsDown ==
  ASSUME NEW i \in 1..4
  PROVE  /\ StopsLeft("join", i) + Raised(Threads[i]) < StopsLeft("stop", i)
         /\ i < 4 => StopsLeft("stop", i + 1) < StopsLeft("join", i)
         /\ StopsLeft("join", i) \in Nat /\ StopsLeft("stop", i) \in Nat
         /\ StopsLeft("join", i) > 0 /\ StopsLeft("stop", i) > StopsLeft("join", i)
<1>1. i = 1 \/ i = 2 \/ i = 3 \/ i = 4
  OBVIOUS
<1> QED
  BY <1>1, ThreadsAre DEF StopsLeft, Raised

LEMMA StopMoved ==
  ASSUME TypeOK, TypeOK', Closing, [Next]_vars, NEW a \in Stoppers, pc[a] \in {"stop", "join"},
         NEW P, Moves(a, P), \A b \in Stoppers \ {a} : at'[b] = at[b], nc' = nc,
         NEW n \in Nat,
         \/ pc'[a] \in {"stop", "join"} /\ n = StopsLeft(pc'[a], at'[a])
         \/ pc'[a] = (IF a = "close" THEN "ended" ELSE "spawn") /\ n = 0
  PROVE  CallersLeft(pc', at', nc') + StopsLeft(pc[a], at[a]) <= CallersLeft(pc, at, nc) + n
<1>1. /\ at[a] \in 1..4 /\ at'[a] \in 1..4
      /\ CallersLeft(pc, at, nc) \in Nat /\ CallersLeft(pc', at', nc') \in Nat
  BY CallersNow DEF TypeOK
<1>2. StopsLeft(pc[a], at[a]) \in Nat
  BY <1>1, StopsNat
<1>3. CASE a = "sleep"
  <2>1. CallersLeft(pc', at', nc') + SleepLeft(pc["sleep"], at["sleep"]) + DownLeft(nc, pc["sleep"])
        <= CallersLeft(pc, at, nc) + SleepLeft(pc'["sleep"], at'["sleep"]) + DownLeft(nc', pc'["sleep"])
    BY <1>3, SleepMoved DEF Stoppers, Callers
  <2>2. SleepLeft(pc["sleep"], at["sleep"]) = 3 + StopsLeft(pc[a], at[a])
    BY <1>3 DEF SleepLeft
  <2>3. SleepLeft(pc'["sleep"], at'["sleep"]) = 3 + n
    BY <1>3 DEF SleepLeft
  <2>4. DownLeft(nc', pc'["sleep"]) = DownLeft(nc, pc["sleep"]) /\ DownLeft(nc, pc["sleep"]) \in Nat
    BY <1>3 DEF DownLeft
  <2> QED
    BY <1>1, <1>2, <2>1, <2>2, <2>3, <2>4
<1>4. CASE a = "timer"
  <2>1. CallersLeft(pc', at', nc') + TimerLeft(pc["timer"], at["timer"]) + DownLeft(nc, pc["sleep"])
        = CallersLeft(pc, at, nc) + TimerLeft(pc'["timer"], at'["timer"]) + DownLeft(nc', pc["sleep"])
    BY <1>4, TimerMoved DEF Stoppers, Callers
  <2>2. TimerLeft(pc["timer"], at["timer"]) = 106 + StopsLeft(pc[a], at[a])
    BY <1>4 DEF TimerLeft
  <2>3. TimerLeft(pc'["timer"], at'["timer"]) = 106 + n
    BY <1>4 DEF TimerLeft
  <2>4. DownLeft(nc, pc["sleep"]) \in Nat
    BY DownNat
  <2> QED
    BY <1>1, <1>2, <2>1, <2>2, <2>3, <2>4
<1>5. CASE a = "close"
  <2>1. CallersLeft(pc', at', nc') + CloseLeft(pc["close"], at["close"]) + DownLeft(nc, pc["sleep"])
        = CallersLeft(pc, at, nc) + CloseLeft(pc'["close"], at'["close"]) + DownLeft(nc', pc["sleep"])
    BY <1>5, CloseMoved DEF Stoppers, Callers
  <2>2. CloseLeft(pc["close"], at["close"]) = StopsLeft(pc[a], at[a])
    BY <1>5 DEF CloseLeft
  <2>3. CloseLeft(pc'["close"], at'["close"]) = n
    BY <1>5 DEF CloseLeft
  <2>4. DownLeft(nc, pc["sleep"]) \in Nat
    BY DownNat
  <2> QED
    BY <1>1, <1>2, <2>1, <2>2, <2>3, <2>4
<1> QED
  BY <1>3, <1>4, <1>5 DEF Stoppers, Callers

LEMMA NextThreadLess ==
  ASSUME TypeOK, TypeOK', Closing, [Next]_vars, NEW a \in Stoppers, pc[a] \in {"stop", "join"},
         NextThread(a), nc' = nc
  PROVE  CallersLeft(pc', at', nc') < CallersLeft(pc, at, nc)
<1>1. /\ at[a] \in 1..4 /\ at \in [Stoppers -> 1..4] /\ TypeCallers
      /\ CallersLeft(pc, at, nc) \in Nat /\ CallersLeft(pc', at', nc') \in Nat
  BY CallersNow DEF TypeOK
<1>2. \A b \in Stoppers \ {a} : at'[b] = at[b]
  BY <1>1 DEF NextThread
<1>3. CASE at[a] = 4
  <2>1. Goto(a, IF a = "close" THEN "ended" ELSE "spawn")
    BY <1>3, ThreadsAre DEF NextThread
  <2>2. \E p \in Places : Moves(a, {p}) /\ p = (IF a = "close" THEN "ended" ELSE "spawn")
    BY <1>1, <2>1, Going DEF Places
  <2>3. CallersLeft(pc', at', nc') + StopsLeft(pc[a], at[a]) <= CallersLeft(pc, at, nc) + 0
    BY <1>2, <2>2, StopMoved DEF Moves
  <2>4. StopsLeft(pc[a], at[a]) \in Nat /\ StopsLeft(pc[a], at[a]) > 0
    BY <1>1, StopsNat
  <2> QED
    BY <1>1, <2>3, <2>4
<1>4. CASE at[a] # 4
  <2>1. Goto(a, "stop") /\ at'[a] = at[a] + 1
    BY <1>1, <1>4, ThreadsAre DEF NextThread
  <2>2. Moves(a, {"stop"})
    BY <1>1, <2>1, Going DEF Places
  <2>3. at'[a] \in 1..4 /\ pc'[a] = "stop"
    BY <1>1, <1>4, <2>1, <2>2 DEF Moves
  <2>4. StopsLeft("stop", at'[a]) \in Nat
    BY <2>3, StopsDown
  <2>5. CallersLeft(pc', at', nc') + StopsLeft(pc[a], at[a])
        <= CallersLeft(pc, at, nc) + StopsLeft("stop", at'[a])
    BY <1>2, <2>2, <2>3, <2>4, StopMoved
  <2>6. StopsLeft("stop", at'[a]) < StopsLeft(pc[a], at[a]) /\ StopsLeft(pc[a], at[a]) \in Nat
    <3>1. at[a] < 4
      BY <1>1, <1>4
    <3>2. /\ StopsLeft("stop", at[a] + 1) < StopsLeft("join", at[a])
          /\ StopsLeft("join", at[a]) < StopsLeft("stop", at[a])
          /\ StopsLeft("join", at[a]) \in Nat /\ StopsLeft("stop", at[a]) \in Nat
      BY <1>1, <3>1, StopsDown
    <3> QED
      BY <2>1, <2>4, <3>2
  <2> QED
    BY <1>1, <2>4, <2>5, <2>6
<1> QED
  BY <1>3, <1>4

LEMMA StopLess ==
  ASSUME TypeOK, TypeOK', Closing, [Next]_vars, NEW a \in Stoppers,
         StopThread(a) \/ JoinThread(a)
  PROVE  CallersLeft(pc', at', nc') + ClientLeft(flag', thread')
         < CallersLeft(pc, at, nc) + ClientLeft(flag, thread)
<1> USE DEF connection, client, posters, ending
<1> DEFINE t == Threads[at[a]]
<1>1. /\ at[a] \in 1..4 /\ at \in [Stoppers -> 1..4] /\ TypeCallers /\ t \in ThreadNames
      /\ CallersLeft(pc, at, nc) \in Nat /\ CallersLeft(pc', at', nc') \in Nat
      /\ ClientLeft(flag, thread) \in Nat /\ ClientLeft(flag', thread') \in Nat
  BY ThreadsAre, CallersNow, ClientNat DEF TypeOK
<1>2. nc' = nc /\ pc[a] \in {"stop", "join"}
  BY DEF StopThread, JoinThread
<1>3. CASE StopThread(a) /\ NextThread(a) /\ flag' = flag
  <2>1. thread' = thread
    BY <1>3 DEF StopThread
  <2> QED
    BY <1>1, <1>2, <1>3, <2>1, NextThreadLess
<1>4. CASE StopThread(a) /\ flag' = [flag EXCEPT ![t] = TRUE] /\ Goto(a, "join") /\ at' = at
  <2>1. pc[a] = "stop" /\ thread' = thread
    BY <1>4 DEF StopThread
  <2>2. \A u \in ThreadNames \ {t} : flag'[u] = flag[u] /\ thread'[u] = thread[u]
    BY <1>4, <2>1 DEF TypeOK, TypeThreads
  <2>3. flag'[t] /\ thread'[t] = thread[t]
    BY <1>1, <1>4, <2>1 DEF TypeOK, TypeThreads
  <2>4. Moves(a, {"join"})
    BY <1>1, <1>4, Going DEF Places
  <2>5. pc'[a] = "join"
    BY <2>4 DEF Moves
  <2>6. /\ StopsLeft("join", at[a]) + Raised(t) < StopsLeft("stop", at[a])
        /\ StopsLeft("join", at[a]) \in Nat /\ StopsLeft("stop", at[a]) \in Nat
    BY <1>1, StopsDown
  <2>7. CallersLeft(pc', at', nc') + StopsLeft("stop", at[a])
        <= CallersLeft(pc, at, nc) + StopsLeft("join", at[a])
    BY <1>2, <1>4, <2>1, <2>4, <2>5, <2>6, StopMoved
  <2> HIDE DEF t
  <2>8. /\ FlagLeft(t, flag[t]) \in Nat /\ Raised(t) \in Nat /\ ThreadLeft(t, thread[t]) \in Nat
        /\ FlagLeft(t, flag'[t]) = Raised(t) /\ ThreadLeft(t, thread'[t]) = ThreadLeft(t, thread[t])
    BY <2>3, ThreadNat DEF FlagLeft, Raised
  <2>9. ClientLeft(flag', thread') <= ClientLeft(flag, thread) + Raised(t)
    <3>1. ClientLeft(flag', thread') + FlagLeft(t, flag[t]) + ThreadLeft(t, thread[t])
          = ClientLeft(flag, thread) + FlagLeft(t, flag'[t]) + ThreadLeft(t, thread'[t])
      BY <1>1, <2>2, ClientMoved
    <3> QED
      BY <1>1, <2>8, <3>1
  <2>10. CallersLeft(pc', at', nc') + Raised(t) < CallersLeft(pc, at, nc)
    BY <1>1, <2>6, <2>7, <2>8
  <2> QED
    BY <1>1, <2>8, <2>9, <2>10
<1>5. CASE JoinThread(a)
  <2>1. NextThread(a) /\ flag' = flag /\ thread' = [thread EXCEPT ![t] = "none"]
    BY <1>5 DEF JoinThread
  <2>2. /\ flag'[t] = flag[t] /\ thread'[t] = "none"
        /\ \A u \in ThreadNames \ {t} : flag'[u] = flag[u] /\ thread'[u] = thread[u]
    BY <1>1, <2>1 DEF TypeOK, TypeThreads
  <2>3. ClientLeft(flag', thread') + FlagLeft(t, flag[t]) + ThreadLeft(t, thread[t])
        = ClientLeft(flag, thread) + FlagLeft(t, flag'[t]) + ThreadLeft(t, thread'[t])
    BY <1>1, <2>2, ClientMoved
  <2>4. CallersLeft(pc', at', nc') < CallersLeft(pc, at, nc)
    BY <1>2, <2>1, NextThreadLess
  <2>5. /\ ThreadLeft(t, thread'[t]) = 0 /\ FlagLeft(t, flag'[t]) = FlagLeft(t, flag[t])
        /\ FlagLeft(t, flag[t]) \in Nat /\ ThreadLeft(t, thread[t]) \in Nat
    BY <2>2, ThreadNat DEF ThreadLeft
  <2> HIDE DEF t
  <2> QED
    BY <1>1, <2>3, <2>4, <2>5
<1> QED
  BY <1>3, <1>4, <1>5 DEF StopThread

(* The turns of the SleepThread. *)
LEMMA ReasonTaken ==
  ASSUME TypeOK,
         flag' = [t \in ThreadNames |->
                    flag[t] \/ (t \in Served(sreason) /\ (t = "message" => nc = "up"))],
         thread' = thread
  PROVE  ClientLeft(flag', thread') <= ClientLeft(flag, thread) + ReasonLeft(sreason)
<1> DEFINE Left(t) == FlagLeft(t, flag[t]) + ThreadLeft(t, thread[t])
           Next1(t) == FlagLeft(t, flag'[t]) + ThreadLeft(t, thread[t])
<1>1. ASSUME NEW t \in ThreadNames, t \notin Served(sreason) PROVE Next1(t) = Left(t)
  <2>1. flag'[t] = flag[t]
    BY <1>1 DEF TypeOK, TypeThreads
  <2> QED
    BY <2>1
<1>2. ASSUME NEW t \in ThreadNames, t \in Served(sreason)
      PROVE  Next1(t) <= Left(t) + ReasonLeft(sreason)
  <2>1. FlagLeft(t, flag'[t]) <= ReasonLeft(sreason)
    BY <1>2 DEF Served, FlagLeft, Raised, ReasonLeft
  <2>2. /\ FlagLeft(t, flag[t]) \in Nat /\ FlagLeft(t, flag'[t]) \in Nat
        /\ ThreadLeft(t, thread[t]) \in Nat /\ ReasonLeft(sreason) \in Nat
    BY ThreadNat, ReasonNat
  <2> QED
    BY <2>1, <2>2
<1>3. ASSUME NEW t PROVE Left(t) \in Nat /\ Next1(t) \in Nat
  <2>1. /\ FlagLeft(t, flag[t]) \in Nat /\ FlagLeft(t, flag'[t]) \in Nat
        /\ ThreadLeft(t, thread[t]) \in Nat
    BY ThreadNat
  <2> QED
    BY <2>1
<1>4. /\ ClientLeft(flag, thread) = Left("message") + Left("command") + Left("payload") + Left("synfile")
      /\ ClientLeft(flag', thread')
         = Next1("message") + Next1("command") + Next1("payload") + Next1("synfile")
  BY DEF ClientLeft
<1>5. ReasonLeft(sreason) \in Nat
  BY ReasonNat
<1> HIDE DEF Left, Next1
<1>6. /\ Left("message") \in Nat /\ Left("command") \in Nat /\ Left("payload") \in Nat
      /\ Left("synfile") \in Nat /\ Next1("message") \in Nat /\ Next1("command") \in Nat
      /\ Next1("payload") \in Nat /\ Next1("synfile") \in Nat
  BY <1>3
<1>7. \/ Served(sreason) = {} \/ Served(sreason) = {"message"} \/ Served(sreason) = {"command"}
      \/ Served(sreason) = {"payload"} \/ Served(sreason) = {"synfile"}
  BY DEF Served
<1>8. /\ "message" \in ThreadNames /\ "command" \in ThreadNames /\ "payload" \in ThreadNames
      /\ "synfile" \in ThreadNames
  BY ThreadsAre
<1>9. /\ "message" \notin Served(sreason) => Next1("message") = Left("message")
      /\ "command" \notin Served(sreason) => Next1("command") = Left("command")
      /\ "payload" \notin Served(sreason) => Next1("payload") = Left("payload")
      /\ "synfile" \notin Served(sreason) => Next1("synfile") = Left("synfile")
  BY <1>1, <1>8
<1>10. /\ "message" \in Served(sreason) => Next1("message") <= Left("message") + ReasonLeft(sreason)
       /\ "command" \in Served(sreason) => Next1("command") <= Left("command") + ReasonLeft(sreason)
       /\ "payload" \in Served(sreason) => Next1("payload") <= Left("payload") + ReasonLeft(sreason)
       /\ "synfile" \in Served(sreason) => Next1("synfile") <= Left("synfile") + ReasonLeft(sreason)
  BY <1>2, <1>8
<1> QED
  BY <1>4, <1>5, <1>6, <1>7, <1>9, <1>10

LEMMA SleepLess ==
  ASSUME TypeOK, TypeOK', Closing, [Next]_vars, Sleep
  PROVE  CallersLeft(pc', at', nc') + ClientLeft(flag', thread') + SlotLeft(slot') + ReasonLeft(sreason')
         < CallersLeft(pc, at, nc) + ClientLeft(flag, thread) + SlotLeft(slot) + ReasonLeft(sreason)
<1> USE DEF connection, client, posters, ending
<1>0. /\ TypeCallers /\ "sleep" \in Stoppers /\ "sleep" \in Callers
      /\ CallersLeft(pc, at, nc) \in Nat /\ CallersLeft(pc', at', nc') \in Nat
      /\ ClientLeft(flag, thread) \in Nat /\ ClientLeft(flag', thread') \in Nat
      /\ SlotLeft(slot) \in Nat /\ SlotLeft(slot') \in Nat
      /\ ReasonLeft(sreason) \in Nat /\ ReasonLeft(sreason') \in Nat
  BY CallersNow, ClientNat, ReasonNat DEF TypeOK, Stoppers, Callers
<1>1. UNCHANGED <<at, nc, thread>> /\ pc["sleep"] # "ended" /\ ReasonLeft("none") = 0
  BY DEF Sleep, SleepStart, SleepWait, SleepCheck, SleepPause, SleepDispatch, ReasonLeft
<1>2. ASSUME NEW P, Moves("sleep", P)
      PROVE  CallersLeft(pc', at', nc') + SleepLeft(pc["sleep"], at["sleep"]) + DownLeft(nc, pc["sleep"])
             <= CallersLeft(pc, at, nc) + SleepLeft(pc'["sleep"], at["sleep"]) + DownLeft(nc, pc'["sleep"])
  BY <1>1, <1>2, SleepMoved
<1>3. ASSUME NEW ip \in BOOLEAN, SleepStart(ip) PROVE CallersLeft(pc', at', nc') < CallersLeft(pc, at, nc)
  <2>1. pc["sleep"] = "start" /\ \E p \in {"lock", "ended"} : Goto("sleep", p)
    BY <1>3 DEF SleepStart
  <2>2. Moves("sleep", {"lock", "ended"})
    BY <1>0, <2>1, Going DEF Moves, Places
  <2>3. pc'["sleep"] \in {"lock", "ended"}
    BY <2>2 DEF Moves
  <2> QED
    BY <1>1, <2>1, <2>2, <2>3, <1>0, CallerLess DEF SleepLeft, DownLeft
<1>4. ASSUME SleepWait
      PROVE  CallersLeft(pc', at', nc') + SlotLeft(slot') + ReasonLeft(sreason')
             < CallersLeft(pc, at, nc) + SlotLeft(slot)
  <2>1. pc["sleep"] = "wait" /\ slot # "none" /\ slot' = "none" /\ sreason' = slot
    BY <1>4 DEF SleepWait
  <2>2. Moves("sleep", {"check", "ended"})
    <3>1. CASE slot = "exit__thread"
      <4>1. told /\ pc' = [pc EXCEPT !["sleep"] = "ended", !["close"] = "destroy"]
        BY <1>4, <3>1 DEF SleepWait, TypeOK, TypePosters
      <4> QED
        BY <1>0, <4>1 DEF TypeCallers, Moves, Stoppers, Callers, Places
    <3>2. CASE slot # "exit__thread"
      <4>1. Goto("sleep", "check")
        BY <1>4, <3>2 DEF SleepWait
      <4> QED
        BY <1>0, <4>1, Going DEF Moves, Places
    <3> QED
      BY <3>1, <3>2
  <2>3. pc'["sleep"] \in {"check", "ended"}
    BY <2>2 DEF Moves
  <2>4. CallersLeft(pc', at', nc') <= CallersLeft(pc, at, nc) + 50
    <3>1. /\ SleepLeft(pc["sleep"], at["sleep"]) = 0 /\ SleepLeft(pc'["sleep"], at["sleep"]) \in {0, 50}
          /\ DownLeft(nc, pc["sleep"]) = DownLeft(nc, pc'["sleep"]) /\ DownLeft(nc, pc["sleep"]) \in Nat
      BY <2>1, <2>3 DEF SleepLeft, DownLeft
    <3> QED
      BY <1>0, <1>2, <2>2, <3>1
  <2>5. SlotLeft(slot) = 51 + ReasonLeft(sreason') /\ SlotLeft(slot') = 0
    BY <2>1 DEF SlotLeft
  <2> QED
    BY <1>0, <2>4, <2>5
<1>5. ASSUME NEW ip \in BOOLEAN, SleepCheck(ip)
      PROVE  CallersLeft(pc', at', nc') < CallersLeft(pc, at, nc) /\ sreason' \in {sreason, "none"}
  <2>1. pc["sleep"] = "check"
    BY <1>5 DEF SleepCheck
  <2>2. CASE \/ Goto("sleep", "pause") /\ UNCHANGED sreason
             \/ nc # "up" /\ Goto("sleep", "lock") /\ UNCHANGED sreason
    <3>1. Moves("sleep", {"pause", "lock"}) /\ pc'["sleep"] \in {"pause", "lock"}
          /\ (pc'["sleep"] = "lock" => nc # "up")
      BY <1>0, <2>2, Going DEF Moves, Places
    <3> QED
      BY <1>0, <1>1, <2>1, <2>2, <3>1, CallerLess DEF SleepLeft, DownLeft
  <2>3. CASE Loops
    <3>1. Moves("sleep", {"wait", "ended"}) /\ sreason' = "none"
      BY <1>0, <2>3, Looping
    <3>2. pc'["sleep"] \in {"wait", "ended"}
      BY <3>1 DEF Moves
    <3> QED
      BY <1>0, <1>1, <2>1, <3>1, <3>2, CallerLess DEF SleepLeft, DownLeft
  <2> QED
    BY <1>5, <2>2, <2>3 DEF SleepCheck
<1>6. ASSUME SleepPause PROVE CallersLeft(pc', at', nc') < CallersLeft(pc, at, nc)
  <2>1. pc["sleep"] = "pause" /\ Moves("sleep", {"notify"})
    BY <1>0, <1>6, Going DEF SleepPause, Places
  <2>2. pc'["sleep"] = "notify"
    BY <2>1 DEF Moves
  <2> QED
    BY <1>0, <1>1, <2>1, <2>2, CallerLess DEF SleepLeft, DownLeft
<1>7. ASSUME SleepDispatch
      PROVE  /\ CallersLeft(pc', at', nc') < CallersLeft(pc, at, nc) /\ sreason' = "none"
             /\ ClientLeft(flag', thread') <= ClientLeft(flag, thread) + ReasonLeft(sreason)
  <2>1. pc["sleep"] = "notify" /\ Moves("sleep", {"wait", "ended"}) /\ sreason' = "none"
    BY <1>0, <1>7, Looping DEF SleepDispatch
  <2>2. pc'["sleep"] \in {"wait", "ended"}
    BY <2>1 DEF Moves
  <2>3. CallersLeft(pc', at', nc') < CallersLeft(pc, at, nc)
    BY <1>0, <1>1, <2>1, <2>2, CallerLess DEF SleepLeft, DownLeft
  <2>4. ClientLeft(flag', thread') <= ClientLeft(flag, thread) + ReasonLeft(sreason)
    BY <1>1, <1>7, ReasonTaken DEF SleepDispatch
  <2> QED
    BY <2>1, <2>3, <2>4
<1>8. CASE \E ip \in BOOLEAN : SleepStart(ip)
  <2>1. flag' = flag /\ slot' = slot /\ sreason' = sreason
    BY <1>8 DEF SleepStart
  <2> QED
    BY <1>0, <1>1, <1>3, <1>8, <2>1
<1>9. CASE SleepWait
  <2>1. flag' = flag
    BY <1>9 DEF SleepWait
  <2> QED
    BY <1>0, <1>1, <1>4, <1>9, <2>1
<1>10. CASE \E ip \in BOOLEAN : SleepCheck(ip)
  <2>1. flag' = flag /\ slot' = slot
    BY <1>10 DEF SleepCheck
  <2>2. ReasonLeft(sreason') <= ReasonLeft(sreason)
    BY <1>0, <1>1, <1>5, <1>10
  <2> QED
    BY <1>0, <1>1, <1>5, <1>10, <2>1, <2>2
<1>11. CASE SleepPause
  <2>1. flag' = flag /\ slot' = slot /\ sreason' = sreason
    BY <1>11 DEF SleepPause
  <2> QED
    BY <1>0, <1>1, <1>6, <1>11, <2>1
<1>12. CASE SleepDispatch
  <2>1. slot' = slot
    BY <1>12 DEF SleepDispatch
  <2> QED
    BY <1>0, <1>1, <1>7, <1>12, <2>1
<1> QED
  BY <1>8, <1>9, <1>10, <1>11, <1>12 DEF Sleep

(* The turns of the client threads. *)
LEMMA ClientLess ==
  ASSUME TypeOK, ClientThread
  PROVE  ClientLeft(flag', thread') + SlotLeft(slot') < ClientLeft(flag, thread) + SlotLeft(slot)
<1> USE DEF connection, client, posters, ending
<1>0. /\ ClientLeft(flag, thread) \in Nat /\ ClientLeft(flag', thread') \in Nat
      /\ SlotLeft(slot) \in Nat /\ SlotLeft(slot') \in Nat
  BY ClientNat, ReasonNat
<1>2. ASSUME NEW t \in ThreadNames, ThreadWake(t)
      PROVE  ClientLeft(flag', thread') < ClientLeft(flag, thread) /\ slot' = slot
  <2>1. /\ thread[t] = "wait" /\ flag[t] /\ ~flag'[t] /\ thread'[t] \in {"work", "ended"} /\ slot' = slot
        /\ \A u \in ThreadNames \ {t} : flag'[u] = flag[u] /\ thread'[u] = thread[u]
    BY <1>2 DEF ThreadWake, TypeOK, TypeThreads
  <2>2. ClientLeft(flag', thread') + FlagLeft(t, flag[t]) + ThreadLeft(t, thread[t])
        = ClientLeft(flag, thread) + FlagLeft(t, flag'[t]) + ThreadLeft(t, thread'[t])
    BY <2>1, ClientMoved
  <2>3. /\ ThreadLeft(t, thread[t]) = 0 /\ FlagLeft(t, flag'[t]) = 0 /\ FlagLeft(t, flag[t]) = Raised(t)
        /\ Raised(t) \in Nat /\ ThreadLeft(t, thread'[t]) \in Nat /\ ThreadLeft(t, thread'[t]) < Raised(t)
    BY <2>1 DEF FlagLeft, ThreadLeft, Raised
  <2>4. ClientLeft(flag', thread') < ClientLeft(flag, thread)
    BY <1>0, <2>2, <2>3
  <2> QED
    BY <2>1, <2>4
<1>3. ASSUME NEW t \in ThreadNames, ThreadWork(t)
      PROVE  ClientLeft(flag', thread') < ClientLeft(flag, thread) /\ slot' = slot
  <2>1. /\ thread[t] = "work" /\ flag'[t] = flag[t] /\ slot' = slot
        /\ thread'[t] = IF t = "command" THEN "post" ELSE "wait"
        /\ \A u \in ThreadNames \ {t} : flag'[u] = flag[u] /\ thread'[u] = thread[u]
    BY <1>3 DEF ThreadWork, TypeOK, TypeThreads
  <2>2. ClientLeft(flag', thread') + FlagLeft(t, flag[t]) + ThreadLeft(t, thread[t])
        = ClientLeft(flag, thread) + FlagLeft(t, flag'[t]) + ThreadLeft(t, thread'[t])
    BY <2>1, ClientMoved
  <2>3. /\ ThreadLeft(t, thread'[t]) < ThreadLeft(t, thread[t])
        /\ ThreadLeft(t, thread[t]) \in Nat /\ ThreadLeft(t, thread'[t]) \in Nat
    BY <2>1 DEF ThreadLeft
  <2>4. FlagLeft(t, flag'[t]) = FlagLeft(t, flag[t]) /\ FlagLeft(t, flag[t]) \in Nat
    BY <2>1, ThreadNat
  <2> QED
    BY <1>0, <2>1, <2>2, <2>3, <2>4
<1>4. ASSUME CommandPost
      PROVE  ClientLeft(flag', thread') + 52 = ClientLeft(flag, thread)
             /\ SlotLeft(slot) = 0 /\ SlotLeft(slot') = 51
  <2>1. /\ thread["command"] = "post" /\ slot = "none" /\ slot' = "cmd_result" /\ flag' = flag
        /\ thread' = [thread EXCEPT !["command"] = "wait"] /\ "command" \in ThreadNames
    BY <1>4, ThreadsAre DEF CommandPost
  <2>2. /\ thread'["command"] = "wait"
        /\ \A u \in ThreadNames \ {"command"} : flag'[u] = flag[u] /\ thread'[u] = thread[u]
    BY <2>1 DEF TypeOK, TypeThreads
  <2>3. ClientLeft(flag', thread') + FlagLeft("command", flag["command"])
          + ThreadLeft("command", thread["command"])
        = ClientLeft(flag, thread) + FlagLeft("command", flag'["command"])
          + ThreadLeft("command", thread'["command"])
    BY <2>1, <2>2, ClientMoved
  <2>4. /\ ThreadLeft("command", thread["command"]) = 52 /\ ThreadLeft("command", thread'["command"]) = 0
        /\ FlagLeft("command", flag["command"]) \in Nat
        /\ FlagLeft("command", flag'["command"]) = FlagLeft("command", flag["command"])
    BY <2>1, <2>2, ThreadNat DEF ThreadLeft
  <2>5. SlotLeft(slot) = 0 /\ SlotLeft(slot') = 51
    BY <2>1 DEF SlotLeft, ReasonLeft
  <2> QED
    BY <1>0, <2>3, <2>4, <2>5
<1>5. CASE \E t \in ThreadNames : ThreadWake(t) \/ ThreadWork(t)
  <2>1. ClientLeft(flag', thread') < ClientLeft(flag, thread) /\ slot' = slot
    BY <1>2, <1>3, <1>5
  <2> QED
    BY <1>0, <2>1
<1>6. CASE CommandPost
  <2>1. ClientLeft(flag', thread') + 52 = ClientLeft(flag, thread)
        /\ SlotLeft(slot) = 0 /\ SlotLeft(slot') = 51
    BY <1>4, <1>6
  <2> QED
    BY <1>0, <2>1
<1> QED
  BY <1>5, <1>6 DEF ClientThread

(* The posts of the others. *)
LEMMA PostLess ==
  ASSUME TypeOK, (\E c \in Channels : DeliveryPost(c)) \/ NotifyPost
  PROVE  PostersLeft(delivery', loop') + SlotLeft(slot') < PostersLeft(delivery, loop) + SlotLeft(slot)
<1>1. ASSUME NEW c PROVE PostLeft(delivery, c) \in Nat /\ PostLeft(delivery', c) \in Nat
  <2>1. SlotLeft(delivery[c]) \in Nat /\ SlotLeft(delivery'[c]) \in Nat
    BY ReasonNat
  <2> QED
    BY <2>1 DEF PostLeft
<1>2. /\ PostLeft(delivery, "message") \in Nat /\ PostLeft(delivery, "command") \in Nat
      /\ PostLeft(delivery, "syncfile") \in Nat /\ PostLeft(delivery', "message") \in Nat
      /\ PostLeft(delivery', "command") \in Nat /\ PostLeft(delivery', "syncfile") \in Nat
      /\ SlotLeft(slot) \in Nat /\ SlotLeft(slot') \in Nat
  BY <1>1, ReasonNat
<1>3. CASE NotifyPost
  <2>1. loop /\ ~loop' /\ slot = "none" /\ slot' = "send_payload" /\ delivery' = delivery
    BY <1>3 DEF NotifyPost
  <2>2. SlotLeft(slot) = 0 /\ SlotLeft(slot') = 53
    BY <2>1 DEF SlotLeft, ReasonLeft
  <2> QED
    BY <1>2, <2>1, <2>2 DEF PostersLeft
<1>4. CASE \E c \in Channels : DeliveryPost(c)
  <2>1. PICK c \in Channels : DeliveryPost(c)
    BY <1>4
  <2>2. /\ delivery[c] # "none" /\ slot = "none" /\ slot' = delivery[c] /\ loop' = loop
        /\ delivery' = [delivery EXCEPT ![c] = "none"]
    BY <2>1 DEF DeliveryPost
  <2>3. SlotLeft(slot) = 0
    BY <2>2 DEF SlotLeft
  <2>4. PostLeft(delivery, c) = SlotLeft(slot') + 1 /\ PostLeft(delivery', c) = 0
    BY <2>2 DEF PostLeft, TypeOK, TypePosters
  <2>5. ASSUME NEW d, d # c PROVE PostLeft(delivery', d) = PostLeft(delivery, d)
    BY <2>2, <2>5 DEF PostLeft, TypeOK, TypePosters
  <2>6. c \in {"message", "command", "syncfile"}
    BY ChannelsAssumption
  <2>7. CASE c = "message"
    <3>1. /\ PostLeft(delivery', "command") = PostLeft(delivery, "command")
          /\ PostLeft(delivery', "syncfile") = PostLeft(delivery, "syncfile")
      BY <2>5, <2>7
    <3> QED
      BY <1>2, <2>2, <2>3, <2>4, <2>7, <3>1 DEF PostersLeft
  <2>8. CASE c = "command"
    <3>1. /\ PostLeft(delivery', "message") = PostLeft(delivery, "message")
          /\ PostLeft(delivery', "syncfile") = PostLeft(delivery, "syncfile")
      BY <2>5, <2>8
    <3> QED
      BY <1>2, <2>2, <2>3, <2>4, <2>8, <3>1 DEF PostersLeft
  <2>9. CASE c = "syncfile"
    <3>1. /\ PostLeft(delivery', "message") = PostLeft(delivery, "message")
          /\ PostLeft(delivery', "command") = PostLeft(delivery, "command")
      BY <2>5, <2>9
    <3> QED
      BY <1>2, <2>2, <2>3, <2>4, <2>9, <3>1 DEF PostersLeft
  <2> QED
    BY <2>6, <2>7, <2>8, <2>9
<1> QED
  BY <1>3, <1>4

LEMMA TimerLess ==
  ASSUME TypeOK, TypeOK', TestSleepThread \/ TimerEnds
  PROVE  CallersLeft(pc', at', nc') + SlotLeft(slot') < CallersLeft(pc, at, nc) + SlotLeft(slot)
<1> USE DEF connection, client, posters, ending
<1>0. /\ TypeCallers /\ "timer" \in Stoppers /\ SlotLeft(slot) \in Nat /\ SlotLeft(slot') \in Nat
      /\ CallersLeft(pc, at, nc) \in Nat /\ CallersLeft(pc', at', nc') \in Nat
      /\ DownLeft(nc, pc["sleep"]) \in Nat
  BY CallersNow, ReasonNat, DownNat DEF TypeOK, Stoppers, Callers
<1>1. UNCHANGED <<at, nc>>
  BY DEF TestSleepThread, TimerEnds
<1>2. \E p \in {"idle", "exit", "ended"} : Goto("timer", p)
  BY DEF TestSleepThread, TimerEnds
<1>3. Moves("timer", {"idle", "exit", "ended"})
  BY <1>0, <1>2, Going DEF Moves, Places
<1>4. CallersLeft(pc', at', nc') + TimerLeft(pc["timer"], at["timer"])
      = CallersLeft(pc, at, nc) + TimerLeft(pc'["timer"], at["timer"])
  <2>1. CallersLeft(pc', at', nc') + TimerLeft(pc["timer"], at["timer"]) + DownLeft(nc, pc["sleep"])
        = CallersLeft(pc, at, nc) + TimerLeft(pc'["timer"], at["timer"]) + DownLeft(nc, pc["sleep"])
    BY <1>1, <1>3, TimerMoved
  <2>2. at["timer"] \in 1..4
    BY CallersNow DEF Stoppers, Callers
  <2>3. TimerLeft(pc["timer"], at["timer"]) \in Nat /\ TimerLeft(pc'["timer"], at["timer"]) \in Nat
    BY <2>2, CallerNat
  <2> QED
    BY <1>0, <2>1, <2>3
<1>5. CASE pc["timer"] = "beat" /\ pc'["timer"] = "idle" /\ slot' \in {slot, "cmd__empty"}
  <2>1. TimerLeft(pc["timer"], at["timer"]) = 105 /\ TimerLeft(pc'["timer"], at["timer"]) = 53
    BY <1>5 DEF TimerLeft
  <2>2. SlotLeft(slot') <= SlotLeft(slot) + 51
    BY <1>0, <1>5 DEF SlotLeft, ReasonLeft
  <2> QED
    BY <1>0, <1>4, <2>1, <2>2
<1>6. CASE pc["timer"] = "idle" /\ pc'["timer"] \in {"exit", "ended"} /\ slot' = slot
  <2>1. TimerLeft(pc["timer"], at["timer"]) = 53 /\ TimerLeft(pc'["timer"], at["timer"]) \in {52, 0}
    BY <1>6 DEF TimerLeft
  <2> QED
    BY <1>0, <1>4, <1>6, <2>1
<1>7. CASE pc["timer"] = "exit" /\ pc'["timer"] = "ended" /\ slot = "none" /\ slot' = "exit__thread"
  <2>1. TimerLeft(pc["timer"], at["timer"]) = 52 /\ TimerLeft(pc'["timer"], at["timer"]) = 0
    BY <1>7 DEF TimerLeft
  <2>2. SlotLeft(slot') = 51 /\ SlotLeft(slot) = 0
    BY <1>7 DEF SlotLeft, ReasonLeft
  <2> QED
    BY <1>0, <1>4, <2>1, <2>2
<1>8. \A p : Goto("timer", p) => pc'["timer"] = p
  BY <1>0 DEF Goto, TypeCallers
<1> QED
  BY <1>5, <1>6, <1>7, <1>8 DEF TestSleepThread, TimerEnds

LEMMA RestartLess ==
  ASSUME flag' = flag, thread' = [t \in ThreadNames |-> "wait"]
  PROVE  ClientLeft(flag', thread') <= ClientLeft(flag, thread)
<1> DEFINE Left(t) == FlagLeft(t, flag[t]) + ThreadLeft(t, thread[t])
           Next1(t) == FlagLeft(t, flag'[t]) + ThreadLeft(t, thread'[t])
<1>1. ASSUME NEW t \in ThreadNames PROVE Next1(t) <= Left(t) /\ Left(t) \in Nat /\ Next1(t) \in Nat
  <2>1. FlagLeft(t, flag[t]) \in Nat /\ ThreadLeft(t, thread[t]) \in Nat
    BY ThreadNat
  <2>2. FlagLeft(t, flag'[t]) = FlagLeft(t, flag[t]) /\ ThreadLeft(t, thread'[t]) = 0
    BY DEF ThreadLeft
  <2> QED
    BY <2>1, <2>2
<1>2. /\ ClientLeft(flag, thread) = Left("message") + Left("command") + Left("payload") + Left("synfile")
      /\ ClientLeft(flag', thread')
         = Next1("message") + Next1("command") + Next1("payload") + Next1("synfile")
  BY DEF ClientLeft
<1> HIDE DEF Left, Next1
<1>3. /\ Left("message") \in Nat /\ Left("command") \in Nat /\ Left("payload") \in Nat
      /\ Left("synfile") \in Nat /\ Next1("message") \in Nat /\ Next1("command") \in Nat
      /\ Next1("payload") \in Nat /\ Next1("synfile") \in Nat
      /\ Next1("message") <= Left("message") /\ Next1("command") <= Left("command")
      /\ Next1("payload") <= Left("payload") /\ Next1("synfile") <= Left("synfile")
  BY <1>1, ThreadsAre
<1> QED
  BY <1>2, <1>3

LEMMA WorkStep ==
  ASSUME TypeOK, TypeOK', Closing, DialsFromNone, [Next]_vars
  PROVE  [Outside \/ Work' < Work]_vars
<1> USE DEF connection, client, posters, ending
<1> SUFFICES ASSUME Step PROVE Work' < Work
  BY DEF Next
<1>t. /\ SlotLeft(slot) \in Nat /\ SlotLeft(slot') \in Nat
      /\ ReasonLeft(sreason) \in Nat /\ ReasonLeft(sreason') \in Nat
      /\ ClientLeft(flag, thread) \in Nat /\ ClientLeft(flag', thread') \in Nat
      /\ PostersLeft(delivery, loop) \in Nat /\ PostersLeft(delivery', loop') \in Nat
      /\ CallersLeft(pc, at, nc) \in Nat /\ CallersLeft(pc', at', nc') \in Nat
  BY ReasonNat, ClientNat, PostNat, CallersNow
<1>w. /\ Work = SlotLeft(slot) + ReasonLeft(sreason) + ClientLeft(flag, thread)
                + PostersLeft(delivery, loop) + CallersLeft(pc, at, nc)
      /\ Work' = SlotLeft(slot') + ReasonLeft(sreason') + ClientLeft(flag', thread')
                 + PostersLeft(delivery', loop') + CallersLeft(pc', at', nc')
  BY DEF Work
<1>1. ASSUME NEW a \in Callers,
             \/ ConnectLock(a) \/ ConnectDestroy(a) \/ ConnectDial(a) \/ ConnectTest(a)
             \/ StartThreads(a)
      PROVE  Work' < Work
  <2>1. CallersLeft(pc', at', nc') < CallersLeft(pc, at, nc)
    BY <1>1, ConnectLess
  <2>2. UNCHANGED <<slot, flag, delivery, loop>>
    BY <1>1 DEF ConnectLock, ConnectDestroy, ConnectDial, ConnectTest, StartThreads
  <2>3. sreason' \in {sreason, "none"}
    <3>1. sreason' = sreason \/ \E ok \in BOOLEAN : ConnectReturns(a, ok)
      BY <1>1 DEF ConnectLock, ConnectDestroy, ConnectDial, ConnectTest, StartThreads
    <3> QED
      BY <3>1 DEF ConnectReturns, Loops
  <2>4. ReasonLeft(sreason') <= ReasonLeft(sreason)
    BY <1>t, <2>3 DEF ReasonLeft
  <2>5. ClientLeft(flag', thread') <= ClientLeft(flag, thread)
    <3>1. CASE thread' = thread
      BY <1>t, <2>2, <3>1
    <3>2. CASE thread' = [t \in ThreadNames |-> "wait"]
      BY <2>2, <3>2, RestartLess
    <3> QED
      BY <1>1, <3>1, <3>2 DEF ConnectLock, ConnectDestroy, ConnectDial, ConnectTest, StartThreads
  <2> QED
    BY <1>t, <1>w, <2>1, <2>2, <2>4, <2>5
<1>2. ASSUME NEW a \in Stoppers, StopThread(a) \/ JoinThread(a) PROVE Work' < Work
  <2>1. CallersLeft(pc', at', nc') + ClientLeft(flag', thread')
        < CallersLeft(pc, at, nc) + ClientLeft(flag, thread)
    BY <1>2, StopLess
  <2>2. UNCHANGED <<slot, sreason, delivery, loop>>
    BY <1>2 DEF StopThread, JoinThread
  <2> QED
    BY <1>t, <1>w, <2>1, <2>2
<1>3. ASSUME CloseDestroy PROVE Work' < Work
  <2>1. UNCHANGED <<slot, sreason, flag, thread, delivery, loop, at>> /\ pc["close"] = "destroy"
    BY <1>3 DEF CloseDestroy
  <2>2. Moves("close", {"stop"})
    BY <1>3, Going DEF CloseDestroy, TypeOK, Stoppers, Places
  <2>3. CallersLeft(pc', at', nc') + CloseLeft(pc["close"], at["close"]) + DownLeft(nc, pc["sleep"])
        = CallersLeft(pc, at, nc) + CloseLeft(pc'["close"], at'["close"]) + DownLeft(nc', pc["sleep"])
    BY <2>1, <2>2, CloseMoved
  <2>4. at["close"] \in 1..4
    BY CallersNow DEF Stoppers
  <2>5. StopsLeft("stop", at["close"]) \in 1..68
    BY <2>4, StopsNat
  <2>6. CloseLeft(pc["close"], at["close"]) = 99 /\ CloseLeft(pc'["close"], at'["close"]) \in 1..68
    BY <2>1, <2>2, <2>5 DEF CloseLeft, Moves
  <2>7. DownLeft(nc, pc["sleep"]) \in {0, 30} /\ DownLeft(nc', pc["sleep"]) \in {0, 30}
    BY DEF DownLeft
  <2>8. CallersLeft(pc', at', nc') < CallersLeft(pc, at, nc)
    BY <1>t, <2>3, <2>6, <2>7
  <2> QED
    BY <1>t, <1>w, <2>1, <2>8
<1>4. ASSUME Sleep PROVE Work' < Work
  <2>1. CallersLeft(pc', at', nc') + ClientLeft(flag', thread') + SlotLeft(slot') + ReasonLeft(sreason')
        < CallersLeft(pc, at, nc) + ClientLeft(flag, thread) + SlotLeft(slot) + ReasonLeft(sreason)
    BY <1>4, SleepLess
  <2>2. UNCHANGED <<delivery, loop>>
    BY <1>4 DEF Sleep, SleepStart, SleepWait, SleepCheck, SleepPause, SleepDispatch
  <2> QED
    BY <1>t, <1>w, <2>1, <2>2
<1>5. ASSUME ClientThread PROVE Work' < Work
  <2>1. ClientLeft(flag', thread') + SlotLeft(slot') < ClientLeft(flag, thread) + SlotLeft(slot)
    BY <1>5, ClientLess
  <2>2. UNCHANGED <<sreason, delivery, loop, pc, at, nc>>
    BY <1>5 DEF ClientThread, ThreadWake, ThreadWork, CommandPost
  <2> QED
    BY <1>t, <1>w, <2>1, <2>2
<1>6. ASSUME (\E c \in Channels : DeliveryPost(c)) \/ NotifyPost PROVE Work' < Work
  <2>1. PostersLeft(delivery', loop') + SlotLeft(slot') < PostersLeft(delivery, loop) + SlotLeft(slot)
    BY <1>6, PostLess
  <2>2. UNCHANGED <<sreason, flag, thread, pc, at, nc>>
    BY <1>6 DEF DeliveryPost, NotifyPost
  <2> QED
    BY <1>t, <1>w, <2>1, <2>2
<1>7. ASSUME TestSleepThread \/ TimerEnds PROVE Work' < Work
  <2>1. CallersLeft(pc', at', nc') + SlotLeft(slot') < CallersLeft(pc, at, nc) + SlotLeft(slot)
    BY <1>7, TimerLess
  <2>2. UNCHANGED <<sreason, flag, thread, delivery, loop>>
    BY <1>7 DEF TestSleepThread, TimerEnds
  <2> QED
    BY <1>t, <1>w, <2>1, <2>2
<1> QED
  BY <1>1, <1>2, <1>3, <1>4, <1>5, <1>6, <1>7 DEF Step, Connect, Close, Stoppers

(* Between two events from outside (a message, a change of a watched        *)
(* folder, a timer callback, a loss or a return of the connection, the      *)
(* order to stop) the threads have finitely many steps to take, connect and *)
(* the ones posted by the command thread included.  They cannot be kept     *)
(* busy by each other: with BlockedThreadsAreNamed, the process dies, or    *)
(* each of them comes to wait for such an event or to a stall named there.  *)
THEOREM ThreadWorkIsFinite == Spec => [](Work \in Nat) /\ WorkRunsOut
<1>1. Init => DialsFromNone
  BY DEF Init, DialsFromNone, Callers
<1>2. CInv /\ DialsFromNone /\ [Next]_vars => DialsFromNone'
  BY DialsStep DEF CInv
<1>3. CInv /\ Closing /\ [Next]_vars => Closing'
  BY ClosingStep DEF CInv
<1>4. CInv => Work \in Nat
  <2> SUFFICES ASSUME TypeOK PROVE Work \in Nat
    BY DEF CInv
  <2>1. at \in [Stoppers -> 1..4]
    BY ThreadsAre DEF TypeOK, TypeThreads
  <2>2. /\ SlotLeft(slot) \in Nat /\ ReasonLeft(sreason) \in Nat /\ ClientLeft(flag, thread) \in Nat
        /\ PostersLeft(delivery, loop) \in Nat /\ CallersLeft(pc, at, nc) \in Nat
    BY <2>1, ReasonNat, ClientNat, PostNat, CallersNat
  <2> QED
    BY <2>2 DEF Work
<1>5. CInv /\ CInv' /\ Closing /\ DialsFromNone /\ [Next]_vars => [Outside \/ Work' < Work]_vars
  BY WorkStep DEF CInv
<1> QED
  BY <1>1, <1>2, <1>3, <1>4, <1>5, InitConnection, InitClosing, ConnectionStep, PTL DEF Spec, WorkRunsOut

==============================================================================
