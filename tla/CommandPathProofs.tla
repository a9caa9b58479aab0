-------------------------- MODULE CommandPathProofs --------------------------
(***************************************************************************)
(* The command path is correct for any folders, any names a client sends   *)
(* and any number of commands, heart-beats and controls.                   *)
(*                                                                         *)
(* That no command runs twice is an account: every acknowledged command    *)
(* is about to be stored, or stands in g_current_command, or has been      *)
(* taken by the command thread and cleared, or has run, or was lost; the   *)
(* command thread's copy counts once the name it came from is cleared.     *)
(* That the folders agree in the end is a chain: as long as nothing was    *)
(* lost, each of the three folders that lags behind has a reason, a        *)
(* wake-up or a thread on its way that will bring it up to date.  And what *)
(* is on its way comes to rest, with nothing left to do.                   *)
(***************************************************************************)
EXTENDS CommandPath, FunctionTheorems, SequenceTheorems, TLAPS

LEMMA TypeStep == TypeOK /\ [Next]_vars => TypeOK'
<1> SUFFICES ASSUME TypeOK, [Next]_vars PROVE TypeOK'
  OBVIOUS
<1> USE FoldersAssumption, BoundsAssumption, NamesAssumption
      DEF TypeOK, callback, current, sleep, command, worker, timer, control
<1>1. ASSUME NEW cmd \in Commands, AckCommand(cmd) PROVE TypeOK'
  <2>1. TypeCallback'
    BY <1>1 DEF AckCommand, TypeCallback
  <2>2. TypeSleep' /\ TypeCommand' /\ TypeWorker'
    BY <1>1 DEF AckCommand, TypeSleep, TypeCommand, TypeWorker
  <2> QED
    BY <2>1, <2>2
<1>2. CASE StoreName
  <2>1. TypeCallback'
    BY <1>2 DEF StoreName, TypeCallback, Commands
  <2>2. TypeSleep' /\ TypeCommand' /\ TypeWorker'
    BY <1>2 DEF StoreName, TypeSleep, TypeCommand, TypeWorker
  <2> QED
    BY <2>1, <2>2
<1>3. CASE StoreAction
  <2>1. TypeCallback'
    BY <1>3 DEF StoreAction, TypeCallback, Commands
  <2>2. TypeSleep' /\ TypeCommand' /\ TypeWorker'
    BY <1>3 DEF StoreAction, TypeSleep, TypeCommand, TypeWorker
  <2> QED
    BY <2>1, <2>2
<1>4. CASE PostRecvCommand
  <2>1. TypeCallback'
    BY <1>4 DEF PostRecvCommand, TypeCallback
  <2>2. TypeSleep'
    BY <1>4 DEF PostRecvCommand, TypeSleep, Reasons
  <2>3. TypeCommand' /\ TypeWorker'
    BY <1>4 DEF PostRecvCommand, TypeCommand, TypeWorker
  <2> QED
    BY <2>1, <2>2, <2>3
<1>5. CASE SleepWait
  <2>1. TypeSleep'
    BY <1>5 DEF SleepWait, TypeSleep
  <2>2. TypeCallback' /\ TypeCommand' /\ TypeWorker'
    BY <1>5 DEF SleepWait, TypeCallback, TypeCommand, TypeWorker
  <2> QED
    BY <2>1, <2>2
<1>6. CASE SleepCheck
  <2>1. TypeSleep'
    BY <1>6 DEF SleepCheck, TypeSleep
  <2>2. TypeCallback' /\ TypeCommand' /\ TypeWorker'
    BY <1>6 DEF SleepCheck, TypeCallback, TypeCommand, TypeWorker
  <2> QED
    BY <2>1, <2>2
<1>7. CASE SleepPause
  <2>1. TypeSleep'
    BY <1>7 DEF SleepPause, TypeSleep
  <2>2. TypeCallback' /\ TypeCommand' /\ TypeWorker'
    BY <1>7 DEF SleepPause, TypeCallback, TypeCommand, TypeWorker
  <2> QED
    BY <2>1, <2>2
<1>8. CASE SleepDispatch
  <2>1. TypeSleep'
    BY <1>8 DEF SleepDispatch, TypeSleep, TypeWorker
  <2>2. TypeCommand'
    BY <1>8 DEF SleepDispatch, TypeCommand
  <2>3. TypeCallback' /\ TypeWorker'
    BY <1>8 DEF SleepDispatch, TypeCallback, TypeWorker
  <2> QED
    BY <2>1, <2>2, <2>3
<1>9. CASE SleepApply
  <2>1. TypeSleep'
    BY <1>9 DEF SleepApply, TypeSleep
  <2>2. TypeWorker'
    BY <1>9 DEF SleepApply, TypeWorker
  <2>3. TypeCallback' /\ TypeCommand'
    BY <1>9 DEF SleepApply, TypeCallback, TypeCommand
  <2> QED
    BY <2>1, <2>2, <2>3
<1>10. CASE SleepResume
  <2>1. TypeSleep'
    BY <1>10 DEF SleepResume, TypeSleep
  <2>2. TypeCallback' /\ TypeCommand' /\ TypeWorker'
    BY <1>10 DEF SleepResume, TypeCallback, TypeCommand, TypeWorker
  <2> QED
    BY <2>1, <2>2
<1>11. CASE CommandWait
  <2>1. TypeCommand'
    BY <1>11 DEF CommandWait, TypeCommand
  <2>2. TypeCallback' /\ TypeSleep' /\ TypeWorker'
    BY <1>11 DEF CommandWait, TypeCallback, TypeSleep, TypeWorker
  <2> QED
    BY <2>1, <2>2
<1>12. CASE CommandTestName
  <2>1. TypeCommand'
    <3>1. PICK n \in Racy(name, npc = "name") :
            \/ /\ n = None
               /\ cresult' = "cmd__empty" /\ cpc' = "post" /\ ccmd' = ccmd
            \/ /\ n # None
               /\ ccmd' = [ccmd EXCEPT !.name = n] /\ cpc' = "action" /\ cresult' = cresult
      BY <1>12 DEF CommandTestName
    <3>2. n \in Names \cup {Torn, None}
      BY DEF Racy, TypeCallback
    <3>3. flag' = flag /\ ran' = ran
      BY <1>12 DEF CommandTestName
    <3> QED
      BY <3>1, <3>2, <3>3 DEF TypeCommand, Reasons
  <2>2. TypeCallback' /\ TypeSleep' /\ TypeWorker'
    BY <1>12 DEF CommandTestName, TypeCallback, TypeSleep, TypeWorker
  <2> QED
    BY <2>1, <2>2
<1>13. CASE CommandReadAction
  <2>1. TypeCommand'
    <3>1. PICK a \in Racy(action, npc = "action") : ccmd' = [ccmd EXCEPT !.action = a]
      BY <1>13 DEF CommandReadAction
    <3>2. a \in Folders \cup {Torn, None}
      BY DEF Racy, TypeCallback
    <3>3. ccmd'.name = ccmd.name /\ ccmd.name # None
      BY <1>13, <3>1 DEF CommandReadAction, TypeCommand
    <3> QED
      BY <1>13, <3>1, <3>2, <3>3 DEF CommandReadAction, TypeCommand
  <2>2. TypeCallback' /\ TypeSleep' /\ TypeWorker'
    BY <1>13 DEF CommandReadAction, TypeCallback, TypeSleep, TypeWorker
  <2> QED
    BY <2>1, <2>2
<1>14. CASE CommandClearName
  <2>1. TypeCallback'
    BY <1>14 DEF CommandClearName, TypeCallback
  <2>2. TypeCommand'
    BY <1>14 DEF CommandClearName, TypeCommand
  <2>3. TypeSleep' /\ TypeWorker'
    BY <1>14 DEF CommandClearName, TypeSleep, TypeWorker
  <2> QED
    BY <2>1, <2>2, <2>3
<1>15. CASE CommandClearAction
  <2>1. TypeCallback'
    BY <1>15 DEF CommandClearAction, TypeCallback
  <2>2. TypeCommand'
    BY <1>15 DEF CommandClearAction, TypeCommand
  <2>3. TypeSleep' /\ TypeWorker'
    BY <1>15 DEF CommandClearAction, TypeSleep, TypeWorker
  <2> QED
    BY <2>1, <2>2, <2>3
<1>16. CASE CommandPost
  <2>1. TypeSleep'
    BY <1>16 DEF CommandPost, TypeSleep, TypeCommand
  <2>2. TypeCommand'
    BY <1>16 DEF CommandPost, TypeCommand, NoCommand
  <2>3. TypeCallback' /\ TypeWorker'
    BY <1>16 DEF CommandPost, TypeCallback, TypeWorker
  <2> QED
    BY <2>1, <2>2, <2>3
<1>17. CASE WorkerWake
  <2>1. TypeSleep'
    BY <1>17 DEF WorkerWake, TypeSleep
  <2>2. TypeWorker'
    BY <1>17 DEF WorkerWake, TypeWorker
  <2>3. TypeCallback' /\ TypeCommand'
    BY <1>17 DEF WorkerWake, TypeCallback, TypeCommand
  <2> QED
    BY <2>1, <2>2, <2>3
<1>18. CASE WorkerCheck
  <2>1. TypeSleep'
    BY <1>18 DEF WorkerCheck, TypeSleep
  <2>2. TypeWorker'
    BY <1>18 DEF WorkerCheck, TypeWorker
  <2>3. TypeCallback' /\ TypeCommand'
    BY <1>18 DEF WorkerCheck, TypeCallback, TypeCommand
  <2> QED
    BY <2>1, <2>2, <2>3
<1>19. CASE WorkerRead
  <2>1. TypeWorker'
    BY <1>19 DEF WorkerRead, TypeWorker
  <2>2. TypeCallback' /\ TypeSleep' /\ TypeCommand'
    BY <1>19 DEF WorkerRead, TypeCallback, TypeSleep, TypeCommand
  <2> QED
    BY <2>1, <2>2
<1>20. CASE TimerCallback
  <2>1. TypeSleep'
    BY <1>20 DEF TimerCallback, TypeSleep
  <2>2. TypeCallback' /\ TypeCommand' /\ TypeWorker'
    BY <1>20 DEF TimerCallback, TypeCallback, TypeCommand, TypeWorker
  <2> QED
    BY <2>1, <2>2
<1>21. CASE TestWorkerThread
  <2>1. TypeSleep'
    BY <1>21 DEF TestWorkerThread, TypeSleep
  <2>2. TypeWorker'
    BY <1>21 DEF TestWorkerThread, TypeWorker
  <2>3. TypeCallback' /\ TypeCommand'
    BY <1>21 DEF TestWorkerThread, TypeCallback, TypeCommand
  <2> QED
    BY <2>1, <2>2, <2>3
<1>22. CASE TestSleepThread
  <2>1. TypeSleep'
    BY <1>22 DEF TestSleepThread, TypeSleep, Reasons
  <2>2. TypeCallback' /\ TypeCommand' /\ TypeWorker'
    BY <1>22 DEF TestSleepThread, TypeCallback, TypeCommand, TypeWorker
  <2> QED
    BY <2>1, <2>2
<1>23. CASE LoopService
  <2>1. TypeSleep'
    BY <1>23 DEF LoopService, TypeSleep
  <2>2. TypeCallback' /\ TypeCommand' /\ TypeWorker'
    BY <1>23 DEF LoopService, TypeCallback, TypeCommand, TypeWorker
  <2> QED
    BY <2>1, <2>2
<1>24. ASSUME NEW saved \in BOOLEAN, CommandRun(saved) PROVE TypeOK'
  <2>1. TypeCommand'
    <3>1. cresult' \in Reasons /\ cpc' = "post" /\ flag' = flag /\ ccmd' = ccmd
      BY <1>24 DEF CommandRun, Reasons
    <3>2. ran' \in Seq([name : Names, action : Folders \cup {Torn, None}])
      <4>1. CASE ccmd.name \in Names
        <5>1. ccmd \in [name : Names, action : Folders \cup {Torn, None}]
          BY <4>1 DEF TypeCommand
        <5> QED
          BY <1>24, <4>1, <5>1 DEF CommandRun, TypeCommand
      <4>2. CASE ccmd.name \notin Names
        BY <1>24, <4>2 DEF CommandRun, TypeCommand
      <4> QED
        BY <4>1, <4>2
    <3> QED
      BY <3>1, <3>2 DEF TypeCommand
  <2>2. TypeWorker'
    BY <1>24 DEF CommandRun, TypeWorker
  <2>3. TypeCallback' /\ TypeSleep'
    BY <1>24 DEF CommandRun, TypeCallback, TypeSleep
  <2> QED
    BY <2>1, <2>2, <2>3
<1>25. ASSUME NEW saved \in BOOLEAN, WorkerStart(saved) PROVE TypeOK'
  <2>1. TypeSleep'
    BY <1>25 DEF WorkerStart, TypeSleep
  <2>2. TypeWorker'
    BY <1>25 DEF WorkerStart, TypeWorker
  <2>3. TypeCallback' /\ TypeCommand'
    BY <1>25 DEF WorkerStart, TypeCallback, TypeCommand
  <2> QED
    BY <2>1, <2>2, <2>3
<1>26. ASSUME NEW state \in {"running", "paused"}, HandlerProcEx(state) PROVE TypeOK'
  <2>1. TypeSleep'
    BY <1>26 DEF HandlerProcEx, TypeSleep
  <2>2. TypeCallback' /\ TypeCommand' /\ TypeWorker'
    BY <1>26 DEF HandlerProcEx, TypeCallback, TypeCommand, TypeWorker
  <2> QED
    BY <2>1, <2>2
<1>27. CASE UNCHANGED vars
  BY <1>27 DEF vars, TypeCallback, TypeSleep, TypeCommand, TypeWorker
<1> QED
  BY <1>1, <1>2, <1>3, <1>4, <1>5, <1>6, <1>7, <1>8, <1>9, <1>10, <1>11, <1>12, <1>13, <1>14, <1>15, <1>16, <1>17, <1>18, <1>19, <1>20, <1>21, <1>22, <1>23, <1>24, <1>25, <1>26, <1>27 DEF Next, Callback, Sleep, Command, Worker, Timer

THEOREM TypeCorrect == Spec => []TypeOK
<1>1. Init => TypeOK
  BY FoldersAssumption, BoundsAssumption, NamesAssumption
     DEF Init, TypeOK, TypeCallback, TypeSleep, TypeCommand, TypeWorker, NoCommand
<1> QED
  BY <1>1, TypeStep, PTL DEF Spec

-----------------------------------------------------------------------------
(* The pause of a dispatch is taken back. *)
THEOREM PauseTakenBack == Spec => []PauseIsTakenBack
<1>1. Init => PauseIsTakenBack
  BY DEF Init, PauseIsTakenBack
<1>2. PauseIsTakenBack /\ [Next]_vars => PauseIsTakenBack'
  <2> SUFFICES ASSUME PauseIsTakenBack, [Next]_vars PROVE PauseIsTakenBack'
    OBVIOUS
  <2>1. CASE Sleep
    BY <2>1 DEF Sleep, SleepWait, SleepCheck, SleepPause, SleepDispatch, SleepApply, SleepResume,
                control, sleep, PauseIsTakenBack
  <2>2. ASSUME NEW state \in {"running", "paused"}, HandlerProcEx(state) PROVE PauseIsTakenBack'
    BY <2>2 DEF HandlerProcEx, sleep, PauseIsTakenBack
  <2>3. CASE LoopService
    BY <2>3 DEF LoopService, sleep, control, PauseIsTakenBack
  <2>4. CASE UNCHANGED <<sleep, status, control>>
    BY <2>4 DEF sleep, control, PauseIsTakenBack
  <2>5. CASE (\E cmd \in Commands : AckCommand(cmd)) \/ Callback
    BY <2>4, <2>5 DEF AckCommand, Callback, StoreName, StoreAction, PostRecvCommand
  <2>6. CASE Command
    BY <2>4, <2>6 DEF Command, CommandWait, CommandTestName, CommandReadAction, CommandClearName,
                CommandClearAction, CommandPost, CommandRun
  <2>7. CASE Worker \/ TimerCallback \/ Timer
    BY <2>4, <2>7 DEF Worker, WorkerWake, WorkerCheck, WorkerRead, WorkerStart, TimerCallback, Timer,
                TestWorkerThread, TestSleepThread
  <2> QED
    BY <2>1, <2>2, <2>3, <2>4, <2>5, <2>6, <2>7 DEF Next, vars
<1> QED
  BY <1>1, <1>2, PTL DEF Spec

-----------------------------------------------------------------------------
(* No command runs twice. *)
One(b) == IF b THEN 1 ELSE 0

Holds == cpc \in {"clear_action", "run"} /\ ccmd.name \in Names

(* Only the command thread clears the name, so that what it holds is still  *)
(* accounted for by the slot until it does.                                 *)
ReadNotCleared == cpc \in {"action", "clear_name"} => ccmd.name \notin Names \/ name # None

Account ==
  Len(ran) + One(Holds) + One(name # None) + One(npc = "name") <= Len(acked)

IInv == TypeOK /\ ReadNotCleared /\ Account

LEMMA OneIs == ASSUME NEW b \in BOOLEAN
               PROVE  One(b) \in {0, 1} /\ (b => One(b) = 1) /\ (~b => One(b) = 0)
  BY DEF One

LEMMA Lengths == TypeOK => Len(ran) \in Nat /\ Len(acked) \in Nat
  BY LenProperties DEF TypeOK, TypeCallback, TypeCommand

LEMMA InitIInv == Init => ReadNotCleared /\ Account
  BY NamesAssumption DEF Init, ReadNotCleared, Account, Holds, One

LEMMA CallbackKeepsAccount ==
  ASSUME IInv, Callback \/ \E cmd \in Commands : AckCommand(cmd)
  PROVE  ReadNotCleared' /\ Account'
<1> USE DEF IInv, ReadNotCleared
<1>0. /\ Len(ran) \in Nat /\ Len(acked) \in Nat
      /\ One(Holds) \in {0, 1} /\ One(name # None) \in {0, 1} /\ One(name' # None) \in {0, 1}
  BY Lengths, OneIs DEF Holds
<1>1. ASSUME NEW cmd \in Commands, AckCommand(cmd) PROVE ReadNotCleared' /\ Account'
  <2>1. Len(acked') = Len(acked) + 1
    BY <1>1 DEF AckCommand, TypeOK, TypeCallback
  <2>2. npc = "idle" /\ npc' = "name" /\ UNCHANGED <<name, command>>
    BY <1>1 DEF AckCommand, current
  <2>3. One(npc = "name") = 0 /\ One(npc' = "name") = 1
    BY <2>2, OneIs
  <2>4. One(Holds') = One(Holds) /\ One(name' # None) = One(name # None) /\ ran' = ran
    BY <2>2 DEF Holds, command
  <2> QED
    BY <1>0, <2>1, <2>2, <2>3, <2>4 DEF Account, command
<1>2. CASE StoreName
  <2>1. npc = "name" /\ npc' = "action" /\ acked' = acked /\ UNCHANGED command
    BY <1>2 DEF StoreName
  <2>2. name' # None
    BY <1>2, NamesAssumption DEF StoreName, Commands, TypeOK, TypeCallback
  <2>3. One(npc = "name") = 1 /\ One(npc' = "name") = 0 /\ One(name' # None) = 1
    BY <2>1, <2>2, OneIs
  <2>4. One(Holds') = One(Holds) /\ ran' = ran
    BY <2>1 DEF Holds, command
  <2> QED
    BY <1>0, <2>1, <2>2, <2>3, <2>4 DEF Account, command
<1>3. CASE StoreAction \/ PostRecvCommand
  <2>1. UNCHANGED <<name, acked, command>> /\ npc # "name" /\ npc' # "name"
    BY <1>3 DEF StoreAction, PostRecvCommand, current
  <2>2. (npc' = "name") = (npc = "name")
    BY <2>1
  <2> QED
    BY <2>1, <2>2 DEF Account, Holds, command
<1> QED
  BY <1>1, <1>2, <1>3 DEF Callback

LEMMA CommandKeepsAccount ==
  ASSUME IInv, Command
  PROVE  ReadNotCleared' /\ Account'
<1> USE DEF IInv, ReadNotCleared
<1>0. /\ Len(ran) \in Nat /\ Len(acked) \in Nat
      /\ One(name # None) \in {0, 1} /\ One(npc = "name") \in {0, 1}
      /\ One(Holds) \in {0, 1} /\ One(Holds') \in {0, 1}
  BY Lengths, OneIs DEF Holds
<1>1. CASE CommandTestName
  <2>1. \/ cpc' = "post"
        \/ cpc' = "action" /\ ccmd'.name = name /\ name # None
        \/ cpc' = "action" /\ ccmd'.name = Torn
    BY <1>1 DEF CommandTestName, Racy, TypeOK, TypeCommand
  <2>2. cpc = "test" /\ UNCHANGED <<name, npc, acked, ran>>
    BY <1>1 DEF CommandTestName, callback, current
  <2>3. (Holds' = FALSE) /\ (Holds = FALSE)
    BY <2>1, <2>2 DEF Holds
  <2> QED
    BY <2>1, <2>2, <2>3, NamesAssumption DEF Account
<1>2. CASE CommandReadAction
  <2>1. ccmd'.name = ccmd.name /\ cpc = "action" /\ cpc' = "clear_name"
    BY <1>2 DEF CommandReadAction, TypeOK, TypeCommand
  <2>2. UNCHANGED <<name, npc, acked, ran>>
    BY <1>2 DEF CommandReadAction, callback, current
  <2>3. (Holds' = FALSE) /\ (Holds = FALSE)
    BY <2>1 DEF Holds
  <2> QED
    BY <2>1, <2>2, <2>3 DEF Account
<1>3. CASE CommandClearName
  <2>1. cpc = "clear_name" /\ cpc' = "clear_action" /\ name' = None /\ UNCHANGED <<npc, acked, ran, ccmd>>
    BY <1>3 DEF CommandClearName, callback
  <2>2. One(Holds) = 0 /\ One(name' # None) = 0
    BY <2>1, OneIs DEF Holds
  <2>3. CASE ccmd.name \in Names
    <3>1. One(name # None) = 1
      BY <2>1, <2>3, OneIs
    <3> QED
      BY <1>0, <2>1, <2>2, <3>1 DEF Account
  <2>4. CASE ccmd.name \notin Names
    <3>1. One(Holds') = 0
      BY <2>1, <2>4, OneIs DEF Holds
    <3> QED
      BY <1>0, <2>1, <2>2, <3>1 DEF Account
  <2> QED
    BY <2>3, <2>4
<1>4. CASE CommandWait \/ CommandClearAction \/ CommandPost
  <2>1. UNCHANGED <<name, npc, acked, ran>> /\ cpc' \notin {"action", "clear_name"}
    BY <1>4 DEF CommandWait, CommandClearAction, CommandPost, callback, current
  <2>2. Holds' = Holds
    BY <1>4 DEF CommandWait, CommandClearAction, CommandPost, Holds
  <2> QED
    BY <2>1, <2>2 DEF Account
<1>5. ASSUME NEW saved \in BOOLEAN, CommandRun(saved) PROVE ReadNotCleared' /\ Account'
  <2>1. cpc = "run" /\ cpc' = "post" /\ UNCHANGED <<name, npc, acked>>
    BY <1>5 DEF CommandRun, callback, current
  <2>2. One(Holds') = 0
    BY <2>1, OneIs DEF Holds
  <2>3. CASE ccmd.name \in Names
    <3>1. Len(ran') = Len(ran) + 1
      BY <1>5, <2>3 DEF CommandRun, TypeOK, TypeCommand
    <3>2. One(Holds) = 1
      BY <2>1, <2>3, OneIs DEF Holds
    <3> QED
      BY <1>0, <2>1, <2>2, <3>1, <3>2 DEF Account
  <2>4. CASE ccmd.name \notin Names
    <3>1. ran' = ran
      BY <1>5, <2>4 DEF CommandRun
    <3> QED
      BY <1>0, <2>1, <2>2, <3>1 DEF Account
  <2> QED
    BY <2>3, <2>4
<1> QED
  BY <1>1, <1>2, <1>3, <1>4, <1>5 DEF Command

THEOREM CommandsRunOnce == Spec => []NoCommandRunsTwice
<1>1. Init => ReadNotCleared /\ Account
  BY InitIInv
<1>2. IInv /\ [Next]_vars => ReadNotCleared' /\ Account'
  <2> SUFFICES ASSUME IInv, [Next]_vars PROVE ReadNotCleared' /\ Account'
    OBVIOUS
  <2>1. CASE UNCHANGED <<callback, current, command>>
    BY <2>1 DEF IInv, ReadNotCleared, Account, Holds, callback, current, command
  <2>2. CASE Sleep
    BY <2>1, <2>2 DEF Sleep, SleepWait, SleepCheck, SleepPause, SleepDispatch, SleepApply, SleepResume
  <2>3. CASE Worker \/ TimerCallback \/ Timer
    BY <2>1, <2>3 DEF Worker, WorkerWake, WorkerCheck, WorkerRead, WorkerStart, TimerCallback, Timer,
                TestWorkerThread, TestSleepThread
  <2>4. CASE LoopService \/ \E state \in {"running", "paused"} : HandlerProcEx(state)
    BY <2>1, <2>4 DEF LoopService, HandlerProcEx
  <2> QED
    BY <2>1, <2>2, <2>3, <2>4, CallbackKeepsAccount, CommandKeepsAccount DEF Next, vars
<1>3. IInv => NoCommandRunsTwice
  <2> SUFFICES ASSUME IInv PROVE NoCommandRunsTwice
    OBVIOUS
  <2>1. Len(ran) \in Nat /\ Len(acked) \in Nat
    BY Lengths DEF IInv
  <2>2. One(Holds) \in {0, 1} /\ One(name # None) \in {0, 1} /\ One(npc = "name") \in {0, 1}
    BY OneIs DEF Holds
  <2>3. Len(ran) + One(Holds) + One(name # None) + One(npc = "name") <= Len(acked)
    BY DEF IInv, Account
  <2> QED
    BY <2>1, <2>2, <2>3 DEF NoCommandRunsTwice
<1> QED
  BY <1>1, <1>2, <1>3, TypeCorrect, PTL DEF Spec, IInv

-----------------------------------------------------------------------------
(* The folders agree in the end, as long as nothing went wrong.  A wake-up  *)
(* for the worker is on its way, or it knows g_work_folder; and the         *)
(* registry will be read again, or written by the worker, or is what        *)
(* g_work_folder is or is about to become.                                  *)
Waking == \/ "folder" \in Range(apcs)
          \/ wpc = "check" /\ wreason = "folder"
          \/ wpc = "read"

Reading == \/ cpc = "post" /\ cresult = "cmd_folder"
           \/ slot = "cmd_folder"
           \/ spc \in {"check", "pause", "dispatch"} /\ sreason = "cmd_folder"

Target == IF spc = "apply" THEN sread ELSE work
Writing == wpc = "start" /\ wfolder # watching

Told == /\ Waking \/ wfolder = work
        /\ wpc = "start" \/ wfolder = watching

Saved == Reading \/ Target # wfolder \/ Writing \/ registry = Target

FInv == /\ spc = "apply" => sread \in Existing
        /\ lost = {} => Told /\ Saved

LEMMA WakeQueued ==
  ASSUME TypeOK, NEW a \in {"folder", "empty"}, apcs' = Append(apcs, a)
  PROVE  "folder" \in Range(apcs') <=> a = "folder" \/ "folder" \in Range(apcs)
<1>1. apcs \in Seq({"folder", "empty"})
  BY DEF TypeOK, TypeWorker
<1>2. /\ Len(apcs) \in Nat /\ DOMAIN apcs = 1..Len(apcs) /\ DOMAIN apcs' = 1..(Len(apcs) + 1)
      /\ apcs'[Len(apcs) + 1] = a /\ \A k \in 1..Len(apcs) : apcs'[k] = apcs[k]
  BY <1>1
<1> QED
  BY <1>2 DEF Range

(* Steps that touch neither a folder nor what brings one on its way. *)
LEMMA FoldersKept ==
  ASSUME FInv, UNCHANGED <<registry, work, wfolder, watching, sread, wpc, lost>>,
         spc' = "apply" <=> spc = "apply",
         Waking => Waking', Reading => Reading'
  PROVE  FInv'
  BY DEF FInv, Told, Saved, Target, Writing

LEMMA FoldersStep == FInv /\ TypeOK /\ [Next]_vars => FInv'
<1> SUFFICES ASSUME FInv, TypeOK, [Next]_vars PROVE FInv'
  OBVIOUS
<1> USE DEF callback, current, sleep, command, worker, timer, control
<1>0. "cmd_folder" # None
  BY NamesAssumption DEF Reasons
<1>1. CASE (\E cmd \in Commands : AckCommand(cmd)) \/ Callback
  <2>1. /\ UNCHANGED <<registry, work, wfolder, watching, sread, wpc, lost, spc, sreason, apcs, wreason,
                       cpc, cresult>>
        /\ slot' = slot \/ slot = None
    BY <1>1 DEF AckCommand, Callback, StoreName, StoreAction, PostRecvCommand
  <2> QED
    BY <1>0, <2>1, FoldersKept DEF Waking, Reading
<1>2. CASE SleepWait
  <2>1. /\ UNCHANGED <<registry, work, wfolder, watching, sread, wpc, lost, apcs, wreason, cpc, cresult>>
        /\ sreason' = slot /\ spc = "wait" /\ spc' = "check"
    BY <1>2 DEF SleepWait
  <2> QED
    BY <2>1, FoldersKept DEF Waking, Reading
<1>3. CASE SleepCheck
  <2>1. /\ UNCHANGED <<registry, work, wfolder, watching, sread, wpc, apcs, wreason, cpc, cresult,
                       slot, sreason>>
        /\ spc = "check"
        /\ \/ spc' = "pause" /\ lost' = lost
           \/ spc' = "wait" /\ lost' # {}
    BY <1>3 DEF SleepCheck
  <2>2. CASE spc' = "pause" /\ lost' = lost
    BY <2>1, <2>2, FoldersKept DEF Waking, Reading
  <2>3. CASE spc' = "wait" /\ lost' # {}
    BY <2>3 DEF FInv
  <2> QED
    BY <2>1, <2>2, <2>3
<1>4. CASE SleepPause
  <2>1. /\ UNCHANGED <<registry, work, wfolder, watching, sread, wpc, lost, apcs, wreason, cpc, cresult,
                       slot, sreason>>
        /\ spc = "pause" /\ spc' = "dispatch"
    BY <1>4 DEF SleepPause
  <2> QED
    BY <2>1, FoldersKept DEF Waking, Reading
<1>5. CASE SleepDispatch
  <2>1. /\ UNCHANGED <<registry, work, wfolder, watching, wpc, lost, apcs, wreason, cpc, cresult,
                       slot, sreason>>
        /\ spc = "dispatch"
        /\ \/ sread' = registry /\ spc' = "apply"
           \/ sreason # "cmd_folder" /\ spc' = "resume" /\ sread' = sread
    BY <1>5 DEF SleepDispatch
  <2>2. registry \in Existing
    BY DEF TypeOK, TypeWorker
  <2>3. Waking' = Waking
    BY <2>1 DEF Waking
  <2>4. CASE sread' = registry /\ spc' = "apply"
    BY <2>1, <2>2, <2>3, <2>4 DEF FInv, Told, Saved, Target
  <2>5. CASE sreason # "cmd_folder" /\ spc' = "resume" /\ sread' = sread
    BY <2>1, <2>3, <2>5 DEF FInv, Told, Saved, Target, Writing, Reading
  <2> QED
    BY <2>1, <2>4, <2>5
<1>6. CASE SleepApply
  <2>1. /\ UNCHANGED <<registry, wfolder, watching, sread, wpc, lost, wreason, cpc, cresult, slot,
                       sreason>>
        /\ spc = "apply" /\ spc' = "resume" /\ sread \in Existing
        /\ \/ work' = sread /\ apcs' = Append(apcs, "folder")
           \/ sread = work /\ UNCHANGED <<work, apcs>>
    BY <1>6 DEF SleepApply, FInv
  <2>2. work' = sread
    BY <2>1
  <2>3. Waking' \/ (Waking = Waking' /\ work' = work)
    BY <2>1, WakeQueued DEF Waking
  <2> QED
    BY <2>1, <2>2, <2>3 DEF FInv, Told, Saved, Target, Writing, Reading
<1>7. CASE SleepResume
  <2>1. /\ UNCHANGED <<registry, work, wfolder, watching, wpc, lost, apcs, wreason, cpc, cresult, slot>>
        /\ spc = "resume" /\ spc' = "wait"
    BY <1>7 DEF SleepResume
  <2> QED
    BY <2>1 DEF FInv, Told, Saved, Target, Writing, Reading, Waking
<1>8. CASE \/ CommandWait \/ CommandTestName \/ CommandReadAction \/ CommandClearName
           \/ CommandClearAction \/ CommandPost
  <2>1. /\ UNCHANGED <<registry, work, wfolder, watching, sread, wpc, lost, spc, sreason, apcs, wreason>>
        /\ \/ cpc # "post" /\ slot' = slot
           \/ cpc = "post" /\ slot = None /\ slot' = cresult
    BY <1>8 DEF CommandWait, CommandTestName, CommandReadAction, CommandClearName,
                CommandClearAction, CommandPost
  <2> QED
    BY <1>0, <2>1, FoldersKept DEF Waking, Reading
<1>9. ASSUME NEW saved \in BOOLEAN, CommandRun(saved) PROVE FInv'
  <2>1. /\ UNCHANGED <<work, wfolder, watching, sread, wpc, lost, spc, sreason, slot, apcs, wreason>>
        /\ cpc = "run" /\ cpc' = "post"
        /\ cresult' = "cmd_folder" \/ registry' = registry
    BY <1>9 DEF CommandRun
  <2> QED
    BY <2>1 DEF FInv, Told, Saved, Target, Writing, Reading, Waking
<1>10. CASE WorkerWake
  <2>1. /\ UNCHANGED <<registry, work, wfolder, watching, sread, spc, sreason, slot, cpc, cresult>>
        /\ wpc = "sleep" /\ wpc' = "check"
        /\ lost' = {} => lost = {} /\ ("folder" \in Range(apcs) => wreason' = "folder")
    BY <1>10 DEF WorkerWake
  <2> QED
    BY <2>1 DEF FInv, Told, Saved, Target, Writing, Reading, Waking
<1>11. CASE WorkerCheck
  <2>1. /\ UNCHANGED <<registry, work, wfolder, watching, sread, spc, sreason, slot, cpc, cresult, apcs,
                       wreason>>
        /\ wpc = "check" /\ wpc' \in {"read", "sleep"}
        /\ lost' = {} => lost = {} /\ (wreason = "folder" => wpc' = "read")
    BY <1>11 DEF WorkerCheck
  <2> QED
    BY <2>1 DEF FInv, Told, Saved, Target, Writing, Reading, Waking
<1>12. CASE WorkerRead
  <2>1. /\ UNCHANGED <<registry, work, watching, sread, spc, sreason, slot, cpc, cresult, apcs, wreason,
                       lost>>
        /\ wpc = "read" /\ wpc' = "start" /\ wfolder' = work
    BY <1>12 DEF WorkerRead
  <2> QED
    BY <2>1 DEF FInv, Told, Saved, Target, Writing, Reading, Waking
<1>13. ASSUME NEW saved \in BOOLEAN, WorkerStart(saved) PROVE FInv'
  <2>1. /\ UNCHANGED <<work, wfolder, sread, spc, sreason, slot, cpc, cresult, apcs, wreason>>
        /\ wpc = "start" /\ wpc' = "sleep" /\ watching' = wfolder
        /\ registry' = IF wfolder # watching /\ saved THEN wfolder ELSE registry
        /\ lost' = {} => lost = {} /\ (wfolder # watching => saved)
    BY <1>13 DEF WorkerStart
  <2> QED
    BY <2>1 DEF FInv, Told, Saved, Target, Writing, Reading, Waking
<1>14. CASE TimerCallback \/ TestSleepThread \/ LoopService
            \/ \E state \in {"running", "paused"} : HandlerProcEx(state)
  <2>1. /\ UNCHANGED <<registry, work, wfolder, watching, sread, wpc, lost, spc, sreason, apcs, wreason,
                       cpc, cresult>>
        /\ slot' = slot \/ slot = None
    BY <1>14 DEF TimerCallback, TestSleepThread, LoopService, HandlerProcEx
  <2> QED
    BY <1>0, <2>1, FoldersKept DEF Waking, Reading
<1>15. CASE TestWorkerThread
  <2>1. /\ UNCHANGED <<registry, work, wfolder, watching, sread, wpc, lost, spc, sreason, slot, wreason,
                       cpc, cresult>>
        /\ apcs' = apcs \/ apcs' = Append(apcs, "empty")
    BY <1>15 DEF TestWorkerThread
  <2>2. Waking => Waking'
    BY <2>1, WakeQueued DEF Waking
  <2> QED
    BY <2>1, <2>2, FoldersKept DEF Reading
<1>16. CASE UNCHANGED vars
  BY <1>16, FoldersKept DEF vars, Waking, Reading
<1> QED
  BY <1>1, <1>2, <1>3, <1>4, <1>5, <1>6, <1>7, <1>8, <1>9, <1>10, <1>11, <1>12, <1>13, <1>14,
     <1>15, <1>16
  DEF Next, Sleep, Command, Worker, Timer

(* For any folders and commands: the registry, g_work_folder and the        *)
(* watcher agree when no thread has anything left to do, however the two    *)
(* writers of the registry and its late reader fall together, unless a      *)
(* reason, a wake-up or a save was lost.                                    *)
THEOREM FoldersComeToAgree == Spec => []FoldersAgree
<1>1. Init => FInv
  BY DEF Init, FInv, Told, Saved, Target
<1>2. FInv => FoldersAgree
  <2> SUFFICES ASSUME FInv, Quiet, lost = {} PROVE registry = work /\ work = watching
    BY DEF FoldersAgree
  <2>1. ~Waking
    BY DEF Quiet, Waking, Range
  <2>2. ~Reading /\ Target = work /\ ~Writing
    BY NamesAssumption DEF Quiet, Reading, Target, Writing, Reasons
  <2> QED
    BY <2>1, <2>2 DEF FInv, Told, Saved, Quiet
<1> QED
  BY <1>1, <1>2, FoldersStep, TypeCorrect, PTL DEF Spec

-----------------------------------------------------------------------------
(* The way of a command is finite: what each thread, the slot, the wake     *)
(* flag and the APC queue have still to do of what came in from outside.    *)
(* A reason that wakes the command thread carries the work of that thread,  *)
(* of the result it posts, and of the worker which that result wakes.       *)
CallbackLeft(pc) ==
  CASE pc = "name"   -> 30
    [] pc = "action" -> 29
    [] pc = "post"   -> 28
    [] OTHER         -> 0

SlotLeft(r) ==
  CASE r = None           -> 0
    [] r = "recv_command" -> 27
    [] OTHER              -> 10

ReasonLeft(pc, r) == IF pc \in {"check", "pause", "dispatch"} /\ r = "recv_command" THEN 17 ELSE 0

SleepLeft(pc) ==
  CASE pc = "check"    -> 9
    [] pc = "pause"    -> 8
    [] pc = "dispatch" -> 7
    [] pc = "apply"    -> 6
    [] pc = "resume"   -> 1
    [] OTHER           -> 0

FlagLeft(up) == IF up THEN 17 ELSE 0

CommandLeft(pc) ==
  CASE pc = "test"         -> 16
    [] pc = "action"       -> 15
    [] pc = "clear_name"   -> 14
    [] pc = "clear_action" -> 13
    [] pc = "run"          -> 12
    [] pc = "post"         -> 11
    [] OTHER               -> 0

QueueLeft(queue) == 4 * Len(queue)

WorkerLeft(pc) ==
  CASE pc = "check" -> 3
    [] pc = "read"  -> 2
    [] pc = "start" -> 1
    [] OTHER        -> 0

TimerLeft(pc) ==
  CASE pc = "beat" -> 16
    [] pc = "post" -> 11
    [] OTHER       -> 0

ToDo == CallbackLeft(npc) + SlotLeft(slot) + ReasonLeft(spc, sreason) + SleepLeft(spc) + FlagLeft(flag)
          + CommandLeft(cpc) + QueueLeft(apcs) + WorkerLeft(wpc) + TimerLeft(tpc)

(* What comes from outside: a command, a heart-beat of the timer, a control *)
(* of the service manager, the end of the start.                            *)
FromOutside ==
  \/ \E cmd \in Commands : AckCommand(cmd)
  \/ TimerCallback
  \/ LoopService
  \/ \E state \in {"running", "paused"} : HandlerProcEx(state)

WorkRunsOut == [][FromOutside \/ ToDo' < ToDo]_vars

(* Whether a thread may take a step: the guards of the actions.             *)
ThreadGoes ==
  \/ npc \in {"name", "action"} \/ (npc = "post" /\ slot = None)
  \/ spc # "wait" \/ slot # None
  \/ (cpc = "wait" /\ flag) \/ cpc \notin {"wait", "post"} \/ (cpc = "post" /\ slot = None)
  \/ wpc # "sleep" \/ apcs # << >>
  \/ tpc = "beat" \/ (tpc = "post" /\ slot = None)

EndsAgreed == ~ThreadGoes => Quiet /\ (lost = {} => registry = work /\ work = watching)

(* The result of a command never wakes the command thread again.            *)
ResultIsNoCommand == cresult # "recv_command"

LEMMA ResultStep == ResultIsNoCommand /\ [Next]_vars => ResultIsNoCommand'
<1> SUFFICES ASSUME ResultIsNoCommand, [Next]_vars PROVE ResultIsNoCommand'
  OBVIOUS
<1> USE DEF ResultIsNoCommand, callback, current, sleep, command, worker, timer, control
<1>0. None # "recv_command"
  BY NamesAssumption DEF Reasons
<1>1. CASE cresult' = cresult
  BY <1>1
<1>2. CASE Command
  <2>1. ASSUME NEW saved \in BOOLEAN, CommandRun(saved) PROVE ResultIsNoCommand'
    BY <2>1 DEF CommandRun
  <2> QED
    BY <1>0, <1>2, <2>1 DEF Command, CommandWait, CommandTestName, CommandReadAction, CommandClearName,
                            CommandClearAction, CommandPost
<1>3. Callback \/ Sleep \/ Timer \/ FromOutside => cresult' = cresult
  BY DEF Callback, StoreName, StoreAction, PostRecvCommand, Sleep, SleepWait, SleepCheck, SleepPause,
         SleepDispatch, SleepApply, SleepResume, Timer, TestWorkerThread, TestSleepThread,
         FromOutside, AckCommand, TimerCallback, LoopService, HandlerProcEx
<1>4. Worker => cresult' = cresult
  BY DEF Worker, WorkerWake, WorkerCheck, WorkerRead, WorkerStart
<1> QED
  BY <1>1, <1>2, <1>3, <1>4 DEF Next, FromOutside, vars

LEMMA LeftTypes ==
  /\ \A pc : CallbackLeft(pc) \in Nat /\ SleepLeft(pc) \in Nat /\ CommandLeft(pc) \in Nat
  /\ \A pc : WorkerLeft(pc) \in Nat /\ TimerLeft(pc) \in Nat
  /\ \A r : SlotLeft(r) \in Nat
  /\ \A pc, r : ReasonLeft(pc, r) \in Nat
  /\ \A up : FlagLeft(up) \in Nat
<1>1. \A pc : CallbackLeft(pc) \in Nat /\ WorkerLeft(pc) \in Nat /\ TimerLeft(pc) \in Nat
  BY DEF CallbackLeft, WorkerLeft, TimerLeft
<1>2. \A pc : SleepLeft(pc) \in Nat
  BY DEF SleepLeft
<1>3. \A pc : CommandLeft(pc) \in Nat
  BY DEF CommandLeft
<1>4. \A r : SlotLeft(r) \in Nat
  BY DEF SlotLeft
<1>5. \A pc, r : ReasonLeft(pc, r) \in Nat
  BY DEF ReasonLeft
<1>6. \A up : FlagLeft(up) \in Nat
  BY DEF FlagLeft
<1> QED
  BY <1>1, <1>2, <1>3, <1>4, <1>5, <1>6

LEMMA QueueCounts ==
  ASSUME NEW queue \in Seq({"folder", "empty"})
  PROVE  /\ QueueLeft(queue) \in Nat
         /\ queue # << >> => QueueLeft(queue) >= 4
         /\ \A a \in {"folder", "empty"} : QueueLeft(Append(queue, a)) = QueueLeft(queue) + 4
         /\ QueueLeft(<< >>) = 0
<1>1. Len(queue) \in Nat /\ (queue # << >> => Len(queue) >= 1) /\ Len(<< >>) = 0
  BY EmptySeq
<1>2. \A a \in {"folder", "empty"} : Len(Append(queue, a)) = Len(queue) + 1
  OBVIOUS
<1> QED
  BY <1>1, <1>2 DEF QueueLeft

(* Every step of a thread leaves less to do.                                *)
LEMMA ToDoStep ==
  ASSUME TypeOK, ResultIsNoCommand, Next, ~FromOutside
  PROVE  ToDo' < ToDo
<1> USE DEF callback, current, sleep, command, worker, timer, control
<1>q. apcs \in Seq({"folder", "empty"}) /\ QueueLeft(apcs) \in Nat
  BY QueueCounts DEF TypeOK, TypeWorker
<1>t. /\ CallbackLeft(npc) \in Nat /\ CallbackLeft(npc') \in Nat
      /\ SlotLeft(slot) \in Nat /\ SlotLeft(slot') \in Nat
      /\ ReasonLeft(spc, sreason) \in Nat /\ ReasonLeft(spc', sreason') \in Nat
      /\ SleepLeft(spc) \in Nat /\ SleepLeft(spc') \in Nat
      /\ FlagLeft(flag) \in Nat /\ FlagLeft(flag') \in Nat
      /\ CommandLeft(cpc) \in Nat /\ CommandLeft(cpc') \in Nat
      /\ WorkerLeft(wpc) \in Nat /\ WorkerLeft(wpc') \in Nat
      /\ TimerLeft(tpc) \in Nat /\ TimerLeft(tpc') \in Nat
      /\ QueueLeft(apcs) \in Nat
  BY <1>q, LeftTypes
<1>n. None # "recv_command"
  BY NamesAssumption DEF Reasons
<1>1. CASE StoreName \/ StoreAction
  <2>1. UNCHANGED <<slot, spc, sreason, flag, cpc, apcs, wpc, tpc>>
    BY <1>1 DEF StoreName, StoreAction
  <2>2. CallbackLeft(npc') = CallbackLeft(npc) - 1
    BY <1>1 DEF StoreName, StoreAction, CallbackLeft
  <2> QED
    BY <1>t, <2>1, <2>2 DEF ToDo
<1>2. CASE PostRecvCommand
  <2>1. UNCHANGED <<spc, sreason, flag, cpc, apcs, wpc, tpc>>
    BY <1>2 DEF PostRecvCommand
  <2>2. CallbackLeft(npc) = 28 /\ CallbackLeft(npc') = 0
    BY <1>2 DEF PostRecvCommand, CallbackLeft
  <2>3. SlotLeft(slot) = 0 /\ SlotLeft(slot') = 27
    BY <1>2, <1>n DEF PostRecvCommand, SlotLeft
  <2> QED
    BY <1>t, <2>1, <2>2, <2>3 DEF ToDo
<1>3. CASE SleepWait
  <2>1. UNCHANGED <<npc, flag, cpc, apcs, wpc, tpc>>
    BY <1>3 DEF SleepWait
  <2>2. SleepLeft(spc) = 0 /\ SleepLeft(spc') = 9 /\ ReasonLeft(spc, sreason) = 0
    BY <1>3 DEF SleepWait, SleepLeft, ReasonLeft
  <2>3. SlotLeft(slot') = 0 /\ SlotLeft(slot) = 10 + ReasonLeft(spc', sreason')
    <3>1. slot # None /\ slot' = None /\ sreason' = slot /\ spc' = "check"
      BY <1>3 DEF SleepWait
    <3>2. CASE slot = "recv_command"
      BY <1>n, <3>1, <3>2 DEF SlotLeft, ReasonLeft
    <3>3. CASE slot # "recv_command"
      BY <1>n, <3>1, <3>3 DEF SlotLeft, ReasonLeft
    <3> QED
      BY <3>2, <3>3
  <2> QED
    BY <1>t, <2>1, <2>2, <2>3 DEF ToDo
<1>4. CASE SleepCheck \/ SleepPause
  <2>1. UNCHANGED <<npc, slot, sreason, flag, cpc, apcs, wpc, tpc>>
    BY <1>4 DEF SleepCheck, SleepPause
  <2>2. SleepLeft(spc') < SleepLeft(spc)
    BY <1>4 DEF SleepCheck, SleepPause, SleepLeft
  <2>3. ReasonLeft(spc', sreason') <= ReasonLeft(spc, sreason)
    BY <1>4 DEF SleepCheck, SleepPause, ReasonLeft
  <2> QED
    BY <1>t, <2>1, <2>2, <2>3 DEF ToDo
<1>5. CASE SleepDispatch
  <2>1. UNCHANGED <<npc, slot, sreason, cpc, apcs, wpc, tpc>>
    BY <1>5 DEF SleepDispatch
  <2>2. SleepLeft(spc) = 7 /\ SleepLeft(spc') <= 6
    BY <1>5 DEF SleepDispatch, SleepLeft
  <2>3. ReasonLeft(spc', sreason') = 0
    BY <1>5 DEF SleepDispatch, ReasonLeft
  <2>4. FlagLeft(flag') <= FlagLeft(flag) + ReasonLeft(spc, sreason)
    <3>1. CASE sreason = "recv_command"
      <4>1. FlagLeft(flag') = 17 /\ ReasonLeft(spc, sreason) = 17
        BY <1>5, <3>1 DEF SleepDispatch, FlagLeft, ReasonLeft
      <4> QED
        BY <4>1, LeftTypes
    <3>2. CASE sreason # "recv_command"
      <4>1. flag' = flag
        BY <1>5, <3>2 DEF SleepDispatch, TypeOK, TypeCommand
      <4> QED
        BY <4>1, LeftTypes
    <3> QED
      BY <3>1, <3>2
  <2> QED
    BY <1>t, <2>1, <2>2, <2>3, <2>4 DEF ToDo
<1>6. CASE SleepApply
  <2>1. UNCHANGED <<npc, slot, sreason, flag, cpc, wpc, tpc>>
    BY <1>6 DEF SleepApply
  <2>2. SleepLeft(spc) = 6 /\ SleepLeft(spc') = 1
    BY <1>6 DEF SleepApply, SleepLeft
  <2>3. ReasonLeft(spc', sreason') = 0
    BY <1>6 DEF SleepApply, ReasonLeft
  <2>4. QueueLeft(apcs') = QueueLeft(apcs) \/ QueueLeft(apcs') = QueueLeft(apcs) + 4
    <3>1. apcs' = apcs \/ apcs' = Append(apcs, "folder")
      BY <1>6 DEF SleepApply
    <3> QED
      BY <1>q, <3>1, QueueCounts
  <2> QED
    BY <1>t, <2>1, <2>2, <2>3, <2>4 DEF ToDo
<1>7. CASE SleepResume
  <2>1. UNCHANGED <<npc, slot, flag, cpc, apcs, wpc, tpc>>
    BY <1>7 DEF SleepResume
  <2>2. SleepLeft(spc) = 1 /\ SleepLeft(spc') = 0
    BY <1>7 DEF SleepResume, SleepLeft
  <2>3. ReasonLeft(spc', sreason') = 0
    BY <1>7 DEF SleepResume, ReasonLeft
  <2> QED
    BY <1>t, <2>1, <2>2, <2>3 DEF ToDo
<1>8. CASE CommandWait
  <2>1. UNCHANGED <<npc, slot, spc, sreason, apcs, wpc, tpc>>
    BY <1>8 DEF CommandWait
  <2>2. FlagLeft(flag) = 17 /\ FlagLeft(flag') = 0
    BY <1>8 DEF CommandWait, FlagLeft
  <2>3. CommandLeft(cpc) = 0 /\ CommandLeft(cpc') = 16
    BY <1>8 DEF CommandWait, CommandLeft
  <2> QED
    BY <1>t, <2>1, <2>2, <2>3 DEF ToDo
<1>9. ASSUME UNCHANGED <<npc, slot, spc, sreason, flag, apcs, wpc, tpc>>,
             CommandLeft(cpc') < CommandLeft(cpc)
      PROVE  ToDo' < ToDo
  BY <1>t, <1>9 DEF ToDo
<1>10. CASE CommandTestName
  BY <1>9, <1>10 DEF CommandTestName, CommandLeft
<1>11. CASE CommandReadAction \/ CommandClearName \/ CommandClearAction
  BY <1>9, <1>11 DEF CommandReadAction, CommandClearName, CommandClearAction, CommandLeft
<1>12. ASSUME NEW saved \in BOOLEAN, CommandRun(saved) PROVE ToDo' < ToDo
  BY <1>9, <1>12 DEF CommandRun, CommandLeft
<1>13. CASE CommandPost
  <2>1. UNCHANGED <<npc, spc, sreason, flag, apcs, wpc, tpc>>
    BY <1>13 DEF CommandPost
  <2>2. CommandLeft(cpc) = 11 /\ CommandLeft(cpc') = 0
    BY <1>13 DEF CommandPost, CommandLeft
  <2>3. SlotLeft(slot) = 0 /\ SlotLeft(slot') <= 10
    <3>1. slot = None /\ slot' # "recv_command"
      BY <1>13 DEF CommandPost, ResultIsNoCommand
    <3> QED
      BY <1>n, <3>1 DEF SlotLeft
  <2> QED
    BY <1>t, <2>1, <2>2, <2>3 DEF ToDo
<1>14. CASE WorkerWake
  <2>1. UNCHANGED <<npc, slot, spc, sreason, flag, cpc, tpc>>
    BY <1>14 DEF WorkerWake
  <2>2. WorkerLeft(wpc) = 0 /\ WorkerLeft(wpc') = 3
    BY <1>14 DEF WorkerWake, WorkerLeft
  <2>3. QueueLeft(apcs) >= 4 /\ QueueLeft(apcs') = 0
    BY <1>q, <1>14, QueueCounts DEF WorkerWake
  <2> QED
    BY <1>t, <2>1, <2>2, <2>3 DEF ToDo
<1>15. ASSUME UNCHANGED <<npc, slot, spc, sreason, flag, cpc, apcs, tpc>>,
              WorkerLeft(wpc') < WorkerLeft(wpc)
       PROVE  ToDo' < ToDo
  BY <1>t, <1>15 DEF ToDo
<1>16. CASE WorkerCheck \/ WorkerRead
  BY <1>15, <1>16 DEF WorkerCheck, WorkerRead, WorkerLeft
<1>17. ASSUME NEW saved \in BOOLEAN, WorkerStart(saved) PROVE ToDo' < ToDo
  BY <1>15, <1>17 DEF WorkerStart, WorkerLeft
<1>18. CASE TestWorkerThread
  <2>1. UNCHANGED <<npc, slot, spc, sreason, flag, cpc, wpc>>
    BY <1>18 DEF TestWorkerThread
  <2>2. TimerLeft(tpc) = 16 /\ TimerLeft(tpc') = 11
    BY <1>18 DEF TestWorkerThread, TimerLeft
  <2>3. QueueLeft(apcs') = QueueLeft(apcs) \/ QueueLeft(apcs') = QueueLeft(apcs) + 4
    <3>1. apcs' = apcs \/ apcs' = Append(apcs, "empty")
      BY <1>18 DEF TestWorkerThread
    <3> QED
      BY <1>q, <3>1, QueueCounts
  <2> QED
    BY <1>t, <2>1, <2>2, <2>3 DEF ToDo
<1>19. CASE TestSleepThread
  <2>1. UNCHANGED <<npc, spc, sreason, flag, cpc, apcs, wpc>>
    BY <1>19 DEF TestSleepThread
  <2>2. TimerLeft(tpc) = 11 /\ TimerLeft(tpc') = 0
    BY <1>19 DEF TestSleepThread, TimerLeft
  <2>3. SlotLeft(slot) = 0 /\ SlotLeft(slot') <= 10
    <3>1. slot = None /\ slot' = "cmd__empty"
      BY <1>19 DEF TestSleepThread
    <3> QED
      BY <1>n, <3>1 DEF SlotLeft
  <2> QED
    BY <1>t, <2>1, <2>2, <2>3 DEF ToDo
<1> QED
  BY <1>1, <1>2, <1>3, <1>4, <1>5, <1>6, <1>7, <1>8, <1>10, <1>11, <1>12, <1>13, <1>14, <1>16, <1>17,
     <1>18, <1>19
     DEF Next, FromOutside, Callback, Sleep, Command, Worker, Timer

(* When nothing more comes from outside the threads come to rest after      *)
(* finitely many steps: the posts and wake-ups with which they answer each  *)
(* other make no circle, however the unlocked command is overwritten.       *)
THEOREM CommandWorkIsFinite == Spec => [](ToDo \in Nat) /\ WorkRunsOut
<1>1. Init => ResultIsNoCommand
  BY NamesAssumption DEF Init, ResultIsNoCommand, Reasons
<1>2. TypeOK => ToDo \in Nat
  <2> SUFFICES ASSUME TypeOK PROVE ToDo \in Nat
    OBVIOUS
  <2>1. QueueLeft(apcs) \in Nat
    BY QueueCounts DEF TypeOK, TypeWorker
  <2> QED
    BY <2>1, LeftTypes DEF ToDo
<1>3. TypeOK /\ ResultIsNoCommand /\ [Next]_vars => [FromOutside \/ ToDo' < ToDo]_vars
  BY ToDoStep
<1> QED
  BY <1>1, <1>2, <1>3, ResultStep, TypeCorrect, PTL DEF WorkRunsOut, Spec

(* And they come to rest nowhere on the way: where no thread may take a     *)
(* step nothing is left to do, and the registry, the service and the        *)
(* watcher have the same folder, unless lost names what went wrong.         *)
THEOREM RestIsAgreed == Spec => []EndsAgreed
<1>1. TypeOK /\ FoldersAgree => EndsAgreed
  <2> SUFFICES ASSUME TypeOK, FoldersAgree, ~ThreadGoes PROVE Quiet
    BY DEF EndsAgreed, FoldersAgree
  <2>1. slot = None /\ spc = "wait" /\ wpc = "sleep" /\ apcs = << >>
    BY DEF ThreadGoes
  <2>2. npc = "idle" /\ tpc = "idle"
    BY <2>1 DEF TypeOK, TypeCallback, TypeSleep, ThreadGoes
  <2>3. cpc = "wait"
    BY <2>1 DEF TypeOK, TypeCommand, ThreadGoes
  <2>4. ~flag
    BY <2>3 DEF ThreadGoes
  <2> QED
    BY <2>1, <2>2, <2>3, <2>4 DEF Quiet
<1> QED
  BY <1>1, TypeCorrect, FoldersComeToAgree, PTL
==============================================================================
