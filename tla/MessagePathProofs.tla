-------------------------- MODULE MessagePathProofs --------------------------
(***************************************************************************)
(* What holds of the message path for any sets of requests, whatever the   *)
(* races of g_current_message do; and, at the end, of the synchronisations *)
(* that it asks for, for any folders and lists (SyncFiles).                *)
(*                                                                         *)
(* No request is answered twice.  It is an account: a request is about to  *)
(* be stored, or stands in g_current_message, or in the message thread's   *)
(* copy, or has been answered, or is lost; between the reading and the     *)
(* clearing of the exchange the string and the copy are one place.         *)
(*                                                                         *)
(* No request is forgotten that lost does not name: as long as it stands   *)
(* in the string, a reason is on its way that makes the message thread     *)
(* look there.                                                             *)
(*                                                                         *)
(* No synchronisation comes out of nothing: those made and those due are   *)
(* one account, against the requests that ask for one.                     *)
(*                                                                         *)
(* And the threads come to rest after a few steps, with nothing forgotten. *)
(***************************************************************************)
EXTENDS MessagePath, SyncFiles, FiniteSetTheorems, TLAPS

(* Every step keeps the types. *)
LEMMA TypeStep == TypeOK /\ [Next]_vars => TypeOK'
<1> SUFFICES ASSUME TypeOK, [Next]_vars PROVE TypeOK'
  OBVIOUS
<1> USE BoundsAssumption, RequestsAssumption
    DEF TypeOK, delivery, reason, sleep, message, synfile
<1>1. ASSUME NEW d \in Channels, NEW m \in Requests, Receive(d, m) PROVE TypeOK'
  <2>1. TypeDelivery'
    <3>1. dpc[d] = "idle" /\ m \in Sent(d) /\ m \in Requests /\ m \in received'
      BY <1>1 DEF Receive
    <3>2. dpc' = [dpc EXCEPT ![d] = "store"] /\ dmsg' = [dmsg EXCEPT ![d] = m]
      BY <1>1 DEF Receive
    <3>3. received \subseteq received' /\ UNCHANGED <<dreason, current>>
      BY <1>1 DEF Receive
    <3>4. dpc' \in [Channels -> {"idle", "store", "check", "classify", "post"}]
      BY <3>2 DEF TypeDelivery
    <3>5. dmsg' \in [Channels -> Requests \cup {None}]
      BY <3>1, <3>2 DEF TypeDelivery
    <3>6. ASSUME NEW e \in Channels
          PROVE  /\ dpc'[e] \in {"store", "check", "classify"} => dmsg'[e] \in Sent(e) \cap received'
                 /\ dpc'[e] = "post" <=> dreason'[e] # "none"
      <4>1. CASE e = d
        BY <3>1, <3>2, <3>3, <4>1 DEF TypeDelivery
      <4>2. CASE e # d
        BY <3>2, <3>3, <4>2 DEF TypeDelivery
      <4> QED
        BY <4>1, <4>2
    <3> QED
      BY <3>3, <3>4, <3>5, <3>6 DEF TypeDelivery, Sent
  <2>2. TypeHistory'
    BY <1>1 DEF Receive, TypeHistory, Sent, Requests, Channels
  <2>3. TypeSleep' /\ TypeThreads'
    BY <1>1 DEF Receive, TypeSleep, TypeThreads
  <2> QED
    BY <2>1, <2>2, <2>3
<1>2. ASSUME NEW d \in Channels, Store(d) PROVE TypeOK'
  <2>1. TypeDelivery'
    <3>1. dpc[d] = "store" /\ dpc' = [dpc EXCEPT ![d] = "check"] /\ UNCHANGED <<dmsg, dreason, received>>
      BY <1>2 DEF Store, Storing
    <3>2. current' \in Requests \cup {None, Torn}
      <4>1. dmsg[d] \in Requests \cup {None}
        BY DEF TypeDelivery
      <4> QED
        BY <1>2, <4>1 DEF Store
    <3>3. dpc' \in [Channels -> {"idle", "store", "check", "classify", "post"}]
      BY <3>1 DEF TypeDelivery
    <3>4. ASSUME NEW e \in Channels
          PROVE  /\ dpc'[e] \in {"store", "check", "classify"} => dmsg'[e] \in Sent(e) \cap received'
                 /\ dpc'[e] = "post" <=> dreason'[e] # "none"
      BY <3>1 DEF TypeDelivery
    <3> QED
      BY <3>1, <3>2, <3>3, <3>4 DEF TypeDelivery
  <2>2. TypeHistory'
    BY <1>2 DEF Store, TypeHistory, TypeDelivery
  <2>3. TypeSleep' /\ TypeThreads'
    BY <1>2 DEF Store, TypeSleep, TypeThreads
  <2> QED
    BY <2>1, <2>2, <2>3
<1>3. ASSUME NEW d \in Channels, CheckEmpty(d) PROVE TypeOK'
  <2>1. TypeDelivery'
    BY <1>3 DEF CheckEmpty, TypeDelivery
  <2>2. TypeHistory'
    BY <1>3 DEF CheckEmpty, TypeHistory
  <2>3. TypeSleep' /\ TypeThreads'
    BY <1>3 DEF CheckEmpty, TypeSleep, TypeThreads
  <2> QED
    BY <2>1, <2>2, <2>3
<1>4. ASSUME NEW d \in Channels, OnRecvMessage(d) PROVE TypeOK'
  <2>1. TypeDelivery'
    BY <1>4 DEF OnRecvMessage, TypeDelivery, Reasons
  <2>2. TypeHistory'
    BY <1>4 DEF OnRecvMessage, TypeHistory
  <2>3. TypeSleep' /\ TypeThreads'
    BY <1>4 DEF OnRecvMessage, TypeSleep, TypeThreads
  <2> QED
    BY <2>1, <2>2, <2>3
<1>5. ASSUME NEW d \in Channels, Post(d) PROVE TypeOK'
  <2>1. TypeDelivery'
    BY <1>5 DEF Post, TypeDelivery, Reasons
  <2>2. TypeSleep'
    BY <1>5 DEF Post, TypeSleep, TypeDelivery, Reasons
  <2>3. TypeThreads' /\ TypeHistory'
    BY <1>5 DEF Post, TypeThreads, TypeHistory
  <2> QED
    BY <2>1, <2>2, <2>3
<1>6. CASE PostOther
  <2>1. TypeSleep'
    BY <1>6 DEF PostOther, TypeSleep, Reasons
  <2>2. TypeDelivery' /\ TypeThreads' /\ TypeHistory'
    BY <1>6 DEF PostOther, TypeDelivery, TypeThreads, TypeHistory
  <2> QED
    BY <2>1, <2>2
<1>7. CASE SleepWait
  <2>1. TypeSleep'
    BY <1>7 DEF SleepWait, TypeSleep, Reasons
  <2>2. TypeDelivery' /\ TypeThreads' /\ TypeHistory'
    BY <1>7 DEF SleepWait, TypeDelivery, TypeThreads, TypeHistory
  <2> QED
    BY <2>1, <2>2
<1>8. ASSUME NEW running \in BOOLEAN, SleepDispatch(running) PROVE TypeOK'
  <2>1. TypeSleep'
    BY <1>8 DEF SleepDispatch, TypeSleep, Reasons
  <2>2. TypeHistory'
    BY <1>8 DEF SleepDispatch, TypeHistory
  <2>3. TypeDelivery' /\ TypeThreads'
    BY <1>8 DEF SleepDispatch, TypeDelivery, TypeThreads
  <2> QED
    BY <2>1, <2>2, <2>3
<1>9. CASE MessageWait
  <2>1. TypeSleep'
    BY <1>9 DEF MessageWait, TypeSleep
  <2>2. TypeThreads'
    BY <1>9 DEF MessageWait, TypeThreads
  <2>3. TypeDelivery' /\ TypeHistory'
    BY <1>9 DEF MessageWait, TypeDelivery, TypeHistory
  <2> QED
    BY <2>1, <2>2, <2>3
<1>10. CASE MessageRead
  <2>1. TypeThreads'
    BY <1>10 DEF MessageRead, TypeThreads, TypeDelivery
  <2>2. TypeHistory'
    BY <1>10 DEF MessageRead, TypeHistory
  <2>3. TypeDelivery' /\ TypeSleep'
    BY <1>10 DEF MessageRead, TypeDelivery, TypeSleep
  <2> QED
    BY <2>1, <2>2, <2>3
<1>11. CASE MessageClear
  <2>1. TypeDelivery'
    BY <1>11 DEF MessageClear, TypeDelivery
  <2>2. TypeThreads'
    BY <1>11 DEF MessageClear, TypeThreads
  <2>3. TypeHistory'
    BY <1>11 DEF MessageClear, TypeHistory, TypeDelivery
  <2>4. TypeSleep'
    BY <1>11 DEF MessageClear, TypeSleep
  <2> QED
    BY <2>1, <2>2, <2>3, <2>4
<1>12. CASE MessageResponse
  <2>1. TypeThreads'
    BY <1>12 DEF MessageResponse, TypeThreads
  <2>2. TypeHistory'
    <3>1. answered' \in [MessageRequests -> Nat]
      <4>1. \/ answered' = answered
            \/ answered' = [answered EXCEPT ![mmsg] = @ + 1]
        BY <1>12 DEF MessageResponse
      <4> QED
        BY <4>1 DEF TypeHistory
    <3>2. lost' = lost \/ lost' = lost \cup {"answer"}
      BY <1>12 DEF MessageResponse
    <3>3. UNCHANGED <<received, unsynced, syncs>>
      BY <1>12 DEF MessageResponse
    <3> QED
      BY <3>1, <3>2, <3>3 DEF TypeHistory
  <2>3. TypeDelivery' /\ TypeSleep'
    BY <1>12 DEF MessageResponse, TypeDelivery, TypeSleep
  <2> QED
    BY <2>1, <2>2, <2>3
<1>13. CASE SynfileWait
  <2>1. TypeSleep'
    BY <1>13 DEF SynfileWait, TypeSleep
  <2>2. TypeThreads'
    BY <1>13 DEF SynfileWait, TypeThreads
  <2>3. TypeDelivery' /\ TypeHistory'
    BY <1>13 DEF SynfileWait, TypeDelivery, TypeHistory
  <2> QED
    BY <2>1, <2>2, <2>3
<1>14. CASE SyncFiles
  <2>1. TypeThreads'
    BY <1>14 DEF SyncFiles, TypeThreads
  <2>2. TypeHistory'
    BY <1>14 DEF SyncFiles, TypeHistory
  <2>3. TypeDelivery' /\ TypeSleep'
    BY <1>14 DEF SyncFiles, TypeDelivery, TypeSleep
  <2> QED
    BY <2>1, <2>2, <2>3
<1>15. CASE UNCHANGED vars
  BY <1>15 DEF vars, TypeDelivery, TypeSleep, TypeThreads, TypeHistory
<1> QED
  BY <1>1, <1>2, <1>3, <1>4, <1>5, <1>6, <1>7, <1>8,
     <1>9, <1>10, <1>11, <1>12, <1>13, <1>14, <1>15
     DEF Next, Deliver, Sleep, Message, Synfile
LEMMA InitTypes == Init => TypeOK
<1> SUFFICES ASSUME Init PROVE TypeOK
  OBVIOUS
<1> USE DEF Init
<1>1. TypeDelivery
  BY DEF TypeDelivery, Reasons, Requests, Channels
<1>2. TypeSleep
  BY BoundsAssumption DEF TypeSleep, Reasons
<1>3. TypeThreads /\ TypeHistory
  BY DEF TypeThreads, TypeHistory
<1> QED
  BY <1>1, <1>2, <1>3 DEF TypeOK

(* The state of the message path has its types, and the message thread      *)
(* never handles an empty message.                                          *)
THEOREM TypeCorrect == Spec => []TypeOK
  BY InitTypes, TypeStep, PTL DEF Spec

-----------------------------------------------------------------------------
One(b) == IF b THEN 1 ELSE 0

Storing1(m) == \E d \in Channels : dpc[d] = "store" /\ dmsg[d] = m

Held(m) == IF mpc = "clear" THEN One(current = m \/ mmsg = m)
                            ELSE One(current = m) + One(mmsg = m)

Account(m) == One(Storing1(m)) + Held(m) + answered[m] <= One(m \in received)

(* What the answering of a message request rests on.                        *)
IInv == TypeOK /\ \A m \in MessageRequests : Account(m)

LEMMA AccountTypes ==
  ASSUME TypeOK, NEW m \in MessageRequests
  PROVE  answered[m] \in Nat
  BY DEF TypeOK, TypeHistory

(* Every step keeps the account of every request; a message request is      *)
(* stored by the one delivery thread of its channel.                        *)
LEMMA AccountStep == IInv /\ [Next]_vars => IInv'
<1> SUFFICES ASSUME IInv, [Next]_vars, NEW m \in MessageRequests PROVE Account(m)'
  BY TypeStep DEF IInv
<1>0. /\ TypeOK /\ TypeOK' /\ Account(m)
      /\ answered[m] \in Nat /\ answered'[m] \in Nat
      /\ m # None /\ m # Torn
  BY TypeStep, AccountTypes, RequestsAssumption DEF IInv, Requests, TypeOK, TypeHistory
<1>s. /\ Storing1(m) <=> dpc["message"] = "store" /\ dmsg["message"] = m
      /\ Storing1(m)' <=> dpc'["message"] = "store" /\ dmsg'["message"] = m
  <2>1. dpc["syncfile"] = "store" => dmsg["syncfile"] \in SyncRequests
    BY <1>0 DEF TypeOK, TypeDelivery, Channels, Sent
  <2>2. dpc'["syncfile"] = "store" => dmsg'["syncfile"] \in SyncRequests
    BY <1>0 DEF TypeOK, TypeDelivery, Channels, Sent
  <2> QED
    BY <2>1, <2>2, RequestsAssumption DEF Storing1, Channels
<1> USE DEF delivery, reason, sleep, message, synfile
<1>1. ASSUME NEW d \in Channels, NEW n \in Requests, Receive(d, n) PROVE Account(m)'
  <2>1. UNCHANGED <<current, mpc, mmsg, answered>> /\ received' = received \cup {n} /\ n \notin received
    BY <1>1 DEF Receive
  <2>2. Storing1(m)' => n = m \/ Storing1(m)
    BY <1>0, <1>1, <1>s DEF Receive, TypeOK, TypeDelivery, Channels
  <2>3. Held(m)' = Held(m)
    BY <2>1 DEF Held
  <2>4. Held(m) \in 0..2
    BY DEF Held, One
  <2> HIDE DEF Held, Storing1
  <2> QED
    BY <1>0, <2>1, <2>2, <2>3, <2>4 DEF Account, One
<1>2. ASSUME NEW d \in Channels, Store(d) PROVE Account(m)'
  <2>1. UNCHANGED <<mpc, mmsg, answered, received>>
    BY <1>2 DEF Store
  <2>2. dpc[d] = "store" /\ dpc' = [dpc EXCEPT ![d] = "check"] /\ dmsg' = dmsg
    BY <1>2 DEF Store, Storing
  <2>3. current' = dmsg[d] \/ current' = Torn
    BY <1>2 DEF Store
  <2>4. CASE Storing1(m) /\ d = "message"
    <3>1. ~Storing1(m)'
      BY <1>0, <1>s, <2>2, <2>4 DEF TypeOK, TypeDelivery, Channels
    <3> QED
      BY <1>0, <2>1, <3>1, <2>4 DEF Account, Held, One
  <2>5. CASE ~(Storing1(m) /\ d = "message")
    <3>1. current' # m
      BY <1>0, <1>s, <2>2, <2>3, <2>5, RequestsAssumption DEF TypeOK, TypeDelivery, Channels, Sent
    <3>2. Storing1(m)' => Storing1(m)
      BY <1>0, <1>s, <2>2 DEF TypeOK, TypeDelivery, Channels
    <3> HIDE DEF Storing1
    <3> QED
      BY <1>0, <2>1, <3>1, <3>2 DEF Account, Held, One
  <2> QED
    BY <2>4, <2>5
<1>3. ASSUME NEW d \in Channels, CheckEmpty(d) \/ OnRecvMessage(d) \/ Post(d) PROVE Account(m)'
  <2>1. UNCHANGED <<current, mpc, mmsg, answered, received>>
    BY <1>3 DEF CheckEmpty, OnRecvMessage, Post
  <2>2. dpc[d] # "store" /\ \E p \in {"idle", "classify", "post"} : dpc' = [dpc EXCEPT ![d] = p]
    BY <1>3 DEF CheckEmpty, OnRecvMessage, Post
  <2>3. dmsg' = dmsg \/ dmsg' = [dmsg EXCEPT ![d] = None]
    BY <1>0, <1>3 DEF CheckEmpty, OnRecvMessage, Post, TypeOK, TypeDelivery
  <2>4. Storing1(m)' => Storing1(m)
    BY <1>0, <1>s, <2>2, <2>3 DEF TypeOK, TypeDelivery, Channels
  <2>5. Held(m)' = Held(m) /\ Held(m) \in 0..2
    BY <2>1 DEF Held, One
  <2> HIDE DEF Held, Storing1
  <2> QED
    BY <1>0, <2>1, <2>4, <2>5 DEF Account, One
<1>4. CASE PostOther \/ Sleep \/ MessageWait \/ Synfile \/ UNCHANGED vars
  <2>1. UNCHANGED <<dpc, dmsg, current, mmsg, answered, received>>
    BY <1>4 DEF PostOther, Sleep, SleepWait, SleepDispatch, MessageWait, Synfile, SynfileWait,
                SyncFiles, vars
  <2>2. mpc' = "clear" <=> mpc = "clear"
    BY <1>4 DEF PostOther, Sleep, SleepWait, SleepDispatch, MessageWait, Synfile, SynfileWait,
                SyncFiles, vars
  <2>3. Held(m)' = Held(m) /\ (Storing1(m)' <=> Storing1(m))
    BY <2>1, <2>2 DEF Held, Storing1
  <2> HIDE DEF Held, Storing1
  <2> QED
    BY <1>0, <2>1, <2>3 DEF Account, One
<1>5. CASE MessageRead
  <2>1. /\ UNCHANGED <<dpc, dmsg, current, answered, received>> /\ mpc = "test"
        /\ \/ mpc' = "wait" /\ mmsg' = mmsg
           \/ mpc' = "clear" /\ mmsg' \in {current, Torn}
    BY <1>5 DEF MessageRead
  <2>2. Storing1(m)' <=> Storing1(m)
    BY <2>1 DEF Storing1
  <2>3. Held(m)' <= Held(m) /\ Held(m)' \in 0..2 /\ Held(m) \in 0..2
    BY <1>0, <2>1 DEF Held, One
  <2> HIDE DEF Held, Storing1
  <2> QED
    BY <1>0, <2>1, <2>2, <2>3 DEF Account, One
<1>6. CASE MessageClear
  <2>1. /\ UNCHANGED <<dpc, dmsg, mmsg, answered, received>>
        /\ mpc = "clear" /\ mpc' = "assert" /\ current' = None
    BY <1>6 DEF MessageClear
  <2>2. Storing1(m)' <=> Storing1(m)
    BY <2>1 DEF Storing1
  <2>3. Held(m)' <= Held(m) /\ Held(m)' \in 0..2 /\ Held(m) \in 0..2
    BY <1>0, <2>1 DEF Held, One
  <2> HIDE DEF Held, Storing1
  <2> QED
    BY <1>0, <2>1, <2>2, <2>3 DEF Account, One
<1>7. CASE MessageResponse
  <2>1. /\ UNCHANGED <<dpc, dmsg, current, received>> /\ mpc = "assert" /\ mpc' # "clear" /\ mmsg' = None
    BY <1>7 DEF MessageResponse
  <2>2. answered'[m] = answered[m] \/ (mmsg = m /\ answered'[m] = answered[m] + 1)
    <3>1. \/ answered' = answered
          \/ mmsg \in MessageRequests /\ answered' = [answered EXCEPT ![mmsg] = @ + 1]
      BY <1>7 DEF MessageResponse
    <3> QED
      BY <1>0, <3>1 DEF TypeOK, TypeHistory
  <2>3. Storing1(m)' <=> Storing1(m)
    BY <2>1 DEF Storing1
  <2>4. Held(m)' = One(current = m) /\ Held(m) = One(current = m) + One(mmsg = m)
    BY <1>0, <2>1 DEF Held, One
  <2> HIDE DEF Held, Storing1
  <2> QED
    BY <1>0, <2>1, <2>2, <2>3, <2>4 DEF Account, One
<1> QED
  BY <1>1, <1>2, <1>3, <1>4, <1>5, <1>6, <1>7 DEF Next, Deliver, Message

(* For any requests, torn strings included, no request is answered twice.   *)
THEOREM NoRequestAnsweredTwice == Spec => []AnsweredAtMostOnce
<1>1. Init => IInv
  <2> SUFFICES ASSUME Init, NEW m \in MessageRequests PROVE Account(m)
    BY InitTypes DEF IInv
  <2>1. ~Storing1(m) /\ current # m /\ mmsg # m /\ answered[m] = 0 /\ m \notin received
    BY RequestsAssumption DEF Init, Storing1, Channels, Requests
  <2>2. mpc = "wait"
    BY DEF Init
  <2> QED
    BY <2>1, <2>2 DEF Account, Held, One
<1>2. IInv => AnsweredAtMostOnce
  <2> SUFFICES ASSUME IInv, NEW m \in MessageRequests PROVE answered[m] <= 1
    BY DEF AnsweredAtMostOnce
  <2>1. Account(m) /\ answered[m] \in Nat
    BY AccountTypes DEF IInv
  <2>2. Held(m) \in 0..2
    BY DEF Held, One
  <2> HIDE DEF Held, Storing1
  <2> QED
    BY <2>1, <2>2 DEF Account, One
<1> QED
  BY <1>1, <1>2, AccountStep, PTL DEF Spec

-----------------------------------------------------------------------------
(* A reason is on its way from a delivery thread to the wake flags. *)
Posted(r) == \/ \E d \in Channels : dpc[d] = "post" /\ dreason[d] = r
             \/ slot = r
             \/ spc = "dispatch" /\ sreason = r

LEMMA PostedKept ==
  ASSUME NEW r, UNCHANGED <<slot, spc, sreason>>,
         \A d \in Channels : dpc[d] = "post" => dpc'[d] = "post" /\ dreason'[d] = dreason[d]
  PROVE  Posted(r) => Posted(r)'
  BY DEF Posted

LEMMA PostedMoves ==
  ASSUME TypeOK, NEW r \in Reasons \ {"none"}, (\E d \in Channels : Post(d)) \/ SleepWait
  PROVE  Posted(r) => Posted(r)'
<1>1. ASSUME NEW d \in Channels, Post(d), Posted(r) PROVE Posted(r)'
  <2>1. /\ slot = "none" /\ slot' = dreason[d] /\ UNCHANGED <<spc, sreason>>
        /\ \A e \in Channels \ {d} : dpc'[e] = dpc[e] /\ dreason'[e] = dreason[e]
    BY <1>1 DEF Post, sleep, TypeOK, TypeDelivery
  <2>2. CASE dpc[d] = "post" /\ dreason[d] = r
    BY <2>1, <2>2 DEF Posted
  <2>3. CASE ~(dpc[d] = "post" /\ dreason[d] = r)
    BY <1>1, <2>1, <2>3 DEF Posted
  <2> QED
    BY <2>2, <2>3
<1>2. ASSUME SleepWait, Posted(r) PROVE Posted(r)'
  BY <1>2 DEF SleepWait, Posted, delivery
<1> QED
  BY <1>1, <1>2

(* Where a request can be that was received and has not been answered, as   *)
(* long as nothing went wrong: whenever it stands in g_current_message the  *)
(* message thread is about to look there.                                   *)
Woken(m) == \/ dpc["message"] \in {"check", "classify"} /\ dmsg["message"] = m
            \/ Posted("recv_message")
            \/ msignal

Awaited(m) == \/ dpc["message"] = "store" /\ dmsg["message"] = m
              \/ current = m /\ (mpc \in {"test", "clear"} \/ Woken(m))
              \/ mmsg = m
              \/ mpc = "terminated"

Followed(m) == lost = {} /\ m \in received /\ answered[m] = 0 => Awaited(m)

(* Likewise for the synchronisation that was asked for. *)
SyncAwaited == \/ dpc["syncfile"] \in {"store", "check", "classify"}
               \/ Posted("send_synfile")
               \/ ysignal
               \/ ypc = "sync"

FollowedAll == /\ \A m \in MessageRequests \ Mentions : Followed(m)
               /\ lost = {} /\ unsynced # {} => SyncAwaited

LEMMA FollowedStep ==
  ASSUME TypeOK, NEW m \in MessageRequests \ Mentions, Followed(m), Next PROVE Followed(m)'
<1> SUFFICES ASSUME lost' = {}, m \in received', answered'[m] = 0 PROVE Awaited(m)'
  BY DEF Followed
<1> USE DEF delivery, reason, sleep, message, synfile
<1>0. /\ m \in Requests /\ m # None /\ m # Torn /\ m \notin SyncRequests
      /\ "message" \in Channels /\ "syncfile" \in Channels
      /\ "recv_message" \in Reasons \ {"none"}
  BY RequestsAssumption DEF Requests, Channels, Reasons
<1>a. lost = {} /\ m \in received /\ answered[m] = 0 => Awaited(m)
  BY DEF Followed
<1>1. ASSUME NEW d \in Channels, NEW n \in Requests, Receive(d, n) PROVE Awaited(m)'
  <2>1. /\ dpc[d] = "idle" /\ n \in Sent(d) \ received /\ received' = received \cup {n}
        /\ dmsg' = [dmsg EXCEPT ![d] = n] /\ dpc' = [dpc EXCEPT ![d] = "store"]
        /\ UNCHANGED <<dreason, current, slot, spc, sreason, msignal, mpc, mmsg, answered, lost>>
    BY <1>1 DEF Receive
  <2>2. CASE n = m
    <3>1. d = "message"
      BY <1>0, <2>1, <2>2 DEF Sent, Channels
    <3> QED
      BY <2>1, <2>2, <3>1 DEF Awaited, TypeOK, TypeDelivery
  <2>3. CASE n # m
    <3>1. Awaited(m)
      BY <1>a, <2>1, <2>3
    <3>2. Posted("recv_message") => Posted("recv_message")'
      BY <2>1, PostedKept DEF TypeOK, TypeDelivery
    <3>3. dpc["message"] # "idle" => UNCHANGED <<dpc["message"], dmsg["message"]>>
      BY <1>0, <2>1 DEF TypeOK, TypeDelivery
    <3> QED
      BY <2>1, <3>1, <3>2, <3>3 DEF Awaited, Woken
  <2> QED
    BY <2>2, <2>3
<1>2. ASSUME NEW d \in Channels, Store(d) PROVE Awaited(m)'
  <2>1. /\ dpc[d] = "store" /\ dpc' = [dpc EXCEPT ![d] = "check"]
        /\ UNCHANGED <<dmsg, dreason, slot, spc, sreason, msignal, mpc, mmsg, answered, received>>
    BY <1>2 DEF Store, Storing
  <2>2. lost = {} /\ current' = dmsg[d]
        /\ ~(current \in MessageRequests /\ ~(mpc = "clear" /\ mmsg = current))
    BY <1>2 DEF Store
  <2>3. Awaited(m)
    BY <1>a, <2>1, <2>2
  <2>4. CASE d = "message" /\ dmsg["message"] = m
    <3>1. current' = m /\ dpc'["message"] = "check" /\ dmsg'["message"] = m
      BY <2>1, <2>2, <2>4 DEF TypeOK, TypeDelivery
    <3> QED
      BY <3>1 DEF Awaited, Woken
  <2>5. CASE ~(d = "message" /\ dmsg["message"] = m)
    <3>1. current = m => mmsg = m
      BY <2>2
    <3>2. dpc["message"] = "store" /\ dmsg["message"] = m => dpc'["message"] = "store"
      BY <1>0, <2>1, <2>5 DEF TypeOK, TypeDelivery
    <3> QED
      BY <2>1, <2>3, <3>1, <3>2 DEF Awaited
  <2> QED
    BY <2>4, <2>5
<1>3. ASSUME NEW d \in Channels, CheckEmpty(d) PROVE Awaited(m)'
  <2>1. /\ dpc[d] = "check" /\ lost = {}
        /\ UNCHANGED <<dreason, slot, spc, sreason, msignal, current, mpc, mmsg, answered, received>>
    BY <1>3 DEF CheckEmpty
  <2>2. Awaited(m)
    BY <1>a, <2>1
  <2>3. Posted("recv_message") => Posted("recv_message")'
    BY <1>3, <2>1, PostedKept DEF CheckEmpty, TypeOK, TypeDelivery
  <2>4. CASE d = "message"
    <3>1. current = m => dpc'["message"] = "classify" /\ dmsg'["message"] = dmsg["message"]
      BY <1>0, <1>3, <2>4 DEF CheckEmpty, TypeOK, TypeDelivery
    <3> QED
      BY <2>1, <2>2, <2>3, <2>4, <3>1 DEF Awaited, Woken
  <2>5. CASE d # "message"
    <3>1. dpc'["message"] = dpc["message"] /\ dmsg'["message"] = dmsg["message"]
      BY <1>0, <1>3, <2>5 DEF CheckEmpty, TypeOK, TypeDelivery
    <3> QED
      BY <2>1, <2>2, <2>3, <3>1 DEF Awaited, Woken
  <2> QED
    BY <2>4, <2>5
<1>4. ASSUME NEW d \in Channels, OnRecvMessage(d) PROVE Awaited(m)'
  <2>1. /\ dpc[d] = "classify" /\ lost = {}
        /\ UNCHANGED <<slot, spc, sreason, msignal, current, mpc, mmsg, answered, received>>
    BY <1>4 DEF OnRecvMessage
  <2>2. Awaited(m)
    BY <1>a, <2>1
  <2>3. Posted("recv_message") => Posted("recv_message")'
    BY <1>4, <2>1, PostedKept DEF OnRecvMessage, TypeOK, TypeDelivery
  <2>4. CASE d = "message" /\ dmsg["message"] = m /\ current = m
    <3>1. Contains(m) = {FALSE}
      BY <1>0 DEF Contains
    <3>2. dpc'["message"] = "post" /\ dreason'["message"] = "recv_message"
      BY <1>0, <1>4, <2>4, <3>1 DEF OnRecvMessage, TypeOK, TypeDelivery
    <3>3. Posted("recv_message")'
      BY <1>0, <3>2 DEF Posted
    <3> QED
      BY <2>1, <2>4, <3>3 DEF Awaited, Woken
  <2>5. CASE ~(d = "message" /\ dmsg["message"] = m /\ current = m)
    <3>1. d # "message" => dpc'["message"] = dpc["message"] /\ dmsg'["message"] = dmsg["message"]
      BY <1>0, <1>4 DEF OnRecvMessage, TypeOK, TypeDelivery
    <3> QED
      BY <2>1, <2>2, <2>3, <2>5, <3>1 DEF Awaited, Woken
  <2> QED
    BY <2>4, <2>5
<1>5. ASSUME NEW d \in Channels, Post(d) PROVE Awaited(m)'
  <2>1. UNCHANGED <<dmsg, lost, msignal, current, mpc, mmsg, answered, received>>
    BY <1>5 DEF Post
  <2>2. Awaited(m)
    BY <1>a, <2>1
  <2>3. Posted("recv_message") => Posted("recv_message")'
    BY <1>0, <1>5, PostedMoves
  <2>4. dpc["message"] # "post" => dpc'["message"] = dpc["message"]
    BY <1>0, <1>5 DEF Post, TypeOK, TypeDelivery
  <2> QED
    BY <2>1, <2>2, <2>3, <2>4 DEF Awaited, Woken
<1>6. ASSUME PostOther PROVE Awaited(m)'
  <2>1. /\ UNCHANGED <<dpc, dmsg, dreason, spc, sreason, lost, msignal, current, mpc, mmsg, answered,
                      received>>
        /\ slot = "none"
    BY <1>6 DEF PostOther
  <2>2. Awaited(m)
    BY <1>a, <2>1
  <2>3. Posted("recv_message") => Posted("recv_message")'
    BY <2>1 DEF Posted
  <2> QED
    BY <2>1, <2>2, <2>3 DEF Awaited, Woken
<1>7. ASSUME SleepWait PROVE Awaited(m)'
  <2>1. UNCHANGED <<dpc, dmsg, lost, msignal, current, mpc, mmsg, answered, received>>
    BY <1>7 DEF SleepWait
  <2>2. Awaited(m)
    BY <1>a, <2>1
  <2>3. Posted("recv_message") => Posted("recv_message")'
    BY <1>0, <1>7, PostedMoves
  <2> QED
    BY <2>1, <2>2, <2>3 DEF Awaited, Woken
<1>8. ASSUME NEW running \in BOOLEAN, SleepDispatch(running) PROVE Awaited(m)'
  <2>1. /\ UNCHANGED <<dpc, dmsg, dreason, slot, current, mpc, mmsg, answered, received>>
        /\ lost = {} /\ (msignal => msignal')
        /\ sreason = "recv_message" => msignal'
    BY <1>8 DEF SleepDispatch
  <2>2. Awaited(m)
    BY <1>a, <2>1
  <2>3. Posted("recv_message") => Posted("recv_message")' \/ msignal'
    BY <2>1 DEF Posted
  <2> QED
    BY <2>1, <2>2, <2>3 DEF Awaited, Woken
<1>9. ASSUME MessageWait PROVE Awaited(m)'
  BY <1>9, <1>a DEF MessageWait, Awaited
<1>10. ASSUME MessageRead PROVE Awaited(m)'
  <2>1. /\ UNCHANGED <<dpc, dmsg, current, msignal, answered, received>> /\ lost = {}
        /\ mpc = "test"
        /\ \/ mpc' = "wait" /\ mmsg' = mmsg /\ current = None
           \/ mpc' = "clear" /\ (mmsg' = current \/ mmsg' = Torn)
    BY <1>10 DEF MessageRead
  <2>2. mmsg = None
    BY <2>1 DEF TypeOK, TypeThreads
  <2> QED
    BY <1>0, <1>a, <2>1, <2>2 DEF Awaited
<1>11. ASSUME MessageClear PROVE Awaited(m)'
  <2>1. /\ UNCHANGED <<dpc, dmsg, mmsg, answered, received>> /\ lost = {}
        /\ current \notin MessageRequests \ {mmsg}
    BY <1>11 DEF MessageClear
  <2>2. mpc = "clear"
    BY <1>11 DEF MessageClear
  <2> QED
    BY <1>0, <1>a, <2>1, <2>2 DEF Awaited
<1>12. ASSUME MessageResponse PROVE Awaited(m)'
  <2>1. /\ UNCHANGED <<dpc, dmsg, dreason, slot, spc, sreason, msignal, current, received>>
        /\ lost = {} /\ mpc = "assert"
    BY <1>12 DEF MessageResponse
  <2>2. CASE mpc' = "terminated"
    BY <2>2 DEF Awaited
  <2>3. CASE mpc' # "terminated" /\ mmsg = m
    <3>1. answered'[m] = answered[m] + 1 /\ answered[m] \in Nat
      BY <1>0, <1>12, <2>3 DEF MessageResponse, TypeOK, TypeHistory
    <3> QED
      BY <3>1
  <2>4. CASE mpc' # "terminated" /\ mmsg # m
    <3>1. answered'[m] = answered[m]
      BY <1>12, <2>4 DEF MessageResponse, TypeOK, TypeHistory
    <3>2. Posted("recv_message") => Posted("recv_message")'
      BY <2>1 DEF Posted
    <3> QED
      BY <1>a, <2>1, <2>4, <3>1, <3>2 DEF Awaited, Woken
  <2> QED
    BY <2>2, <2>3, <2>4
<1>13. ASSUME Synfile PROVE Awaited(m)'
  <2>1. UNCHANGED <<dpc, dmsg, dreason, slot, spc, sreason, msignal, current, mpc, mmsg, answered,
                    received, lost>>
    BY <1>13 DEF Synfile, SynfileWait, SyncFiles
  <2>2. Posted("recv_message") => Posted("recv_message")'
    BY <2>1 DEF Posted
  <2> QED
    BY <1>a, <2>1, <2>2 DEF Awaited, Woken
<1> QED
  BY <1>1, <1>2, <1>3, <1>4, <1>5, <1>6, <1>7, <1>8, <1>9, <1>10, <1>11, <1>12, <1>13
  DEF Next, Deliver, Sleep, Message

LEMMA SyncFollowedStep ==
  ASSUME TypeOK, Next, lost = {} /\ unsynced # {} => SyncAwaited, lost' = {}, unsynced' # {}
  PROVE  SyncAwaited'
<1> USE DEF delivery, reason, sleep, message, synfile
<1>0. "syncfile" \in Channels /\ "send_synfile" \in Reasons \ {"none"}
  BY DEF Channels, Reasons
<1>1. ASSUME NEW d \in Channels, NEW n \in Requests, Receive(d, n) PROVE SyncAwaited'
  <2>1. /\ dpc[d] = "idle" /\ dpc' = [dpc EXCEPT ![d] = "store"]
        /\ UNCHANGED <<dreason, slot, spc, sreason, ysignal, ypc, lost>>
        /\ d # "syncfile" => unsynced' = unsynced
    BY <1>1 DEF Receive
  <2>2. Posted("send_synfile") => Posted("send_synfile")'
    BY <2>1, PostedKept DEF TypeOK, TypeDelivery
  <2>3. dpc'["syncfile"] = IF d = "syncfile" THEN "store" ELSE dpc["syncfile"]
    BY <1>0, <2>1 DEF TypeOK, TypeDelivery
  <2> QED
    BY <2>1, <2>2, <2>3 DEF SyncAwaited
<1>2. ASSUME NEW d \in Channels, Store(d) \/ CheckEmpty(d) PROVE SyncAwaited'
  <2>1. /\ UNCHANGED <<dreason, slot, spc, sreason, ysignal, ypc, unsynced>> /\ lost = {}
        /\ dpc[d] \in {"store", "check"}
        /\ \E p \in {"check", "classify", "idle"} :
              dpc' = [dpc EXCEPT ![d] = p] /\ (p = "idle" => d # "syncfile")
    BY <1>2 DEF Store, Storing, CheckEmpty
  <2>2. Posted("send_synfile") => Posted("send_synfile")'
    BY <2>1, PostedKept DEF TypeOK, TypeDelivery
  <2>3. dpc["syncfile"] \in {"store", "check", "classify"} =>
          dpc'["syncfile"] \in {"store", "check", "classify"}
    BY <1>0, <2>1 DEF TypeOK, TypeDelivery
  <2> QED
    BY <2>1, <2>2, <2>3 DEF SyncAwaited
<1>3. ASSUME NEW d \in Channels, OnRecvMessage(d) PROVE SyncAwaited'
  <2>1. /\ UNCHANGED <<slot, spc, sreason, ysignal, ypc, unsynced>> /\ lost = {}
        /\ dpc[d] = "classify"
    BY <1>3 DEF OnRecvMessage
  <2>2. Posted("send_synfile") => Posted("send_synfile")'
    BY <1>3, <2>1, PostedKept DEF OnRecvMessage, TypeOK, TypeDelivery
  <2>3. CASE d = "syncfile"
    <3>1. dmsg["syncfile"] \in SyncRequests
      BY <1>0, <2>1, <2>3 DEF TypeOK, TypeDelivery, Sent
    <3>2. Contains(dmsg["syncfile"]) = {TRUE}
      BY <3>1, RequestsAssumption DEF Contains, Requests
    <3>3. current # None
      BY <1>3, <2>3 DEF OnRecvMessage
    <3>4. PICK sync : /\ dreason' = [dreason EXCEPT ![d] = IF sync THEN "send_synfile"
                                                                 ELSE "recv_message"]
                      /\ sync \in Contains(dmsg[d])
      BY <1>3, <3>3 DEF OnRecvMessage
    <3>5. dpc'["syncfile"] = "post"
      BY <1>0, <1>3, <2>3, <3>3 DEF OnRecvMessage, TypeOK, TypeDelivery
    <3>6. dreason'["syncfile"] = "send_synfile"
      BY <1>0, <2>3, <3>2, <3>4 DEF TypeOK, TypeDelivery
    <3> QED
      BY <1>0, <3>5, <3>6 DEF SyncAwaited, Posted
  <2>4. CASE d # "syncfile"
    <3>1. dpc'["syncfile"] = dpc["syncfile"]
      BY <1>0, <1>3, <2>4 DEF OnRecvMessage, TypeOK, TypeDelivery
    <3> QED
      BY <2>1, <2>2, <3>1 DEF SyncAwaited
  <2> QED
    BY <2>3, <2>4
<1>4. ASSUME (\E d \in Channels : Post(d)) \/ SleepWait PROVE SyncAwaited'
  <2>1. UNCHANGED <<ysignal, ypc, unsynced, lost>>
    BY <1>4 DEF Post, SleepWait
  <2>2. Posted("send_synfile") => Posted("send_synfile")'
    BY <1>0, <1>4, PostedMoves
  <2>3. dpc["syncfile"] # "post" => dpc'["syncfile"] = dpc["syncfile"]
    BY <1>0, <1>4 DEF Post, SleepWait, TypeOK, TypeDelivery
  <2> QED
    BY <2>1, <2>2, <2>3 DEF SyncAwaited
<1>5. ASSUME NEW running \in BOOLEAN, SleepDispatch(running) PROVE SyncAwaited'
  <2>1. /\ UNCHANGED <<dpc, dreason, slot, ypc, unsynced>>
        /\ lost = {} /\ (ysignal => ysignal')
        /\ sreason = "send_synfile" => ysignal'
    BY <1>5 DEF SleepDispatch
  <2>2. Posted("send_synfile") => Posted("send_synfile")' \/ ysignal'
    BY <2>1 DEF Posted
  <2> QED
    BY <2>1, <2>2 DEF SyncAwaited
<1>6. ASSUME PostOther \/ Message PROVE SyncAwaited'
  <2>1. /\ UNCHANGED <<dpc, dreason, spc, sreason, ysignal, ypc, unsynced>> /\ lost = {}
        /\ slot' = slot \/ slot = "none"
    BY <1>6 DEF PostOther, Message, MessageWait, MessageRead, MessageClear, MessageResponse
  <2>2. Posted("send_synfile") => Posted("send_synfile")'
    BY <2>1 DEF Posted
  <2> QED
    BY <2>1, <2>2 DEF SyncAwaited
<1>7. ASSUME Synfile PROVE SyncAwaited'
  BY <1>7 DEF Synfile, SynfileWait, SyncFiles, SyncAwaited
<1> QED
  BY <1>1, <1>2, <1>3, <1>4, <1>5, <1>6, <1>7 DEF Next, Deliver, Sleep

(* For any requests: once the threads have nothing left to do, every        *)
(* request has its answer and every sync request its synchronisation,       *)
(* unless the shared string, a pause or an answer that failed took it away. *)
THEOREM RequestsAreHandled == Spec => []RequestsHandled
<1>1. Init => FollowedAll
  BY DEF Init, FollowedAll, Followed
<1>2. TypeOK /\ FollowedAll /\ [Next]_vars => FollowedAll'
  <2> SUFFICES ASSUME TypeOK, FollowedAll, [Next]_vars PROVE FollowedAll'
    OBVIOUS
  <2>1. CASE Next
    <3>1. \A m \in MessageRequests \ Mentions : Followed(m)'
      BY <2>1, FollowedStep DEF FollowedAll
    <3>2. lost' = {} /\ unsynced' # {} => SyncAwaited'
      BY <2>1, SyncFollowedStep DEF FollowedAll
    <3> QED
      BY <3>1, <3>2 DEF FollowedAll
  <2>2. CASE UNCHANGED vars
    <3> USE DEF vars, delivery, reason, sleep, message, synfile
    <3>1. \A m \in MessageRequests \ Mentions : Followed(m)'
      BY <2>2 DEF FollowedAll, Followed, Awaited, Woken, Posted
    <3>2. lost' = {} /\ unsynced' # {} => SyncAwaited'
      BY <2>2 DEF FollowedAll, SyncAwaited, Posted
    <3> QED
      BY <3>1, <3>2 DEF FollowedAll
  <2> QED
    BY <2>1, <2>2
<1>3. TypeOK /\ FollowedAll => RequestsHandled
  <2> SUFFICES ASSUME TypeOK, FollowedAll, Quiet, lost = {}
               PROVE  Unanswered \subseteq Mentions /\ unsynced = {}
    BY DEF RequestsHandled
  <2>1. /\ \A d \in Channels : dpc[d] = "idle"
        /\ slot = "none" /\ spc = "wait" /\ ~msignal /\ ~ysignal /\ mpc = "wait" /\ ypc = "wait"
    BY DEF Quiet
  <2>2. mmsg = None
    BY <2>1 DEF TypeOK, TypeThreads
  <2>3. ~Posted("recv_message") /\ ~Posted("send_synfile")
    BY <2>1 DEF Posted
  <2>4. ASSUME NEW m \in MessageRequests PROVE ~Awaited(m)
    BY <2>1, <2>2, <2>3, RequestsAssumption DEF Awaited, Woken, Channels, Requests
  <2>5. ~SyncAwaited
    BY <2>1, <2>3 DEF SyncAwaited, Channels
  <2> QED
    BY <2>4, <2>5 DEF FollowedAll, Followed, Unanswered
<1> QED
  BY <1>1, <1>2, <1>3, TypeCorrect, PTL DEF Spec

-----------------------------------------------------------------------------
(* The synchronisations that are due: a delivery thread, the mailbox, the   *)
(* SleepThread, the wake flag and the synfile thread each stand for one.    *)
Asking == SyncRequests \cup Mentions
Asked == received \cap Asking

Asks(d) == \/ dpc[d] \in {"store", "check", "classify"} /\ dmsg[d] \in Asking
           \/ dpc[d] = "post" /\ dreason[d] = "send_synfile"

InMail == slot = "send_synfile"
InHand == spc = "dispatch" /\ sreason = "send_synfile"

Due == One(Asks("message")) + One(Asks("syncfile")) + One(InMail) + One(InHand) + One(ysignal)
       + One(ypc = "sync")

SyncAccount == /\ IsFiniteSet(received)
               /\ "misread" \notin lost => syncs + Due <= Cardinality(Asked) + 1

LEMMA Ones == \A b : One(b) \in {0, 1}
  BY DEF One

LEMMA DueBounds == Due \in Nat /\ Due' \in Nat
<1>1. /\ One(Asks("message")) \in {0, 1} /\ One(Asks("syncfile")) \in {0, 1} /\ One(InMail) \in {0, 1}
      /\ One(InHand) \in {0, 1} /\ One(ysignal) \in {0, 1} /\ One(ypc = "sync") \in {0, 1}
  BY Ones
<1>2. /\ One(Asks("message"))' \in {0, 1} /\ One(Asks("syncfile"))' \in {0, 1}
      /\ One(InMail)' \in {0, 1} /\ One(InHand)' \in {0, 1} /\ One(ysignal)' \in {0, 1}
      /\ One(ypc = "sync")' \in {0, 1}
  BY Ones
<1> HIDE DEF One, Asks, InMail, InHand
<1> QED
  BY <1>1, <1>2 DEF Due

(* A step of a delivery thread changes what it stands for itself. *)
LEMMA AsksOf ==
  ASSUME TypeOK, TypeOK', NEW d \in Channels,
         UNCHANGED <<ysignal, ypc, spc, sreason>>,
         \A e \in Channels \ {d} : UNCHANGED <<dpc[e], dmsg[e], dreason[e]>>
  PROVE  /\ One(InHand)' = One(InHand)
         /\ Due' + One(Asks(d)) + One(InMail) = Due + One(Asks(d))' + One(InMail)'
<1>1. One(InHand)' = One(InHand) /\ One(ysignal)' = One(ysignal) /\ One(ypc = "sync")' = One(ypc = "sync")
  BY DEF One, InHand
<1>2. \A e \in Channels \ {d} : One(Asks(e))' = One(Asks(e))
  BY DEF One, Asks
<1>3. /\ One(Asks("message")) \in {0, 1} /\ One(Asks("syncfile")) \in {0, 1} /\ One(InMail) \in {0, 1}
      /\ One(Asks("message"))' \in {0, 1} /\ One(Asks("syncfile"))' \in {0, 1} /\ One(InMail)' \in {0, 1}
  BY Ones
<1>4. One(InHand) \in {0, 1} /\ One(ysignal) \in {0, 1} /\ One(ypc = "sync") \in {0, 1}
  BY Ones
<1>5. CASE d = "message"
  <2>1. One(Asks("syncfile"))' = One(Asks("syncfile"))
    BY <1>2, <1>5 DEF Channels
  <2> HIDE DEF One, Asks, InMail, InHand
  <2> QED
    BY <1>1, <1>3, <1>4, <1>5, <2>1 DEF Due
<1>6. CASE d = "syncfile"
  <2>1. One(Asks("message"))' = One(Asks("message"))
    BY <1>2, <1>6 DEF Channels
  <2> HIDE DEF One, Asks, InMail, InHand
  <2> QED
    BY <1>1, <1>3, <1>4, <1>6, <2>1 DEF Due
<1> QED
  BY <1>1, <1>5, <1>6 DEF Channels

LEMMA SyncAccountStep == SyncAccount /\ TypeOK /\ [Next]_vars => SyncAccount'
<1> SUFFICES ASSUME SyncAccount, TypeOK, [Next]_vars PROVE SyncAccount'
  OBVIOUS
<1> USE DEF delivery, reason, sleep, message, synfile
<1>0. /\ TypeOK' /\ Due \in Nat /\ Due' \in Nat /\ syncs \in Nat
      /\ IsFiniteSet(Asked) /\ Cardinality(Asked) \in Nat
  <2>1. IsFiniteSet(Asked)
    BY FS_Intersection DEF SyncAccount, Asked
  <2> QED
    BY <2>1, TypeStep, DueBounds, FS_CardinalityType DEF TypeOK, TypeHistory
<1>a. ASSUME received' = received, syncs' + Due' <= syncs + Due, lost \subseteq lost', syncs' \in Nat
      PROVE  SyncAccount'
  <2>1. Asked' = Asked
    BY <1>a DEF Asked, Asking
  <2>2. \A s, t, e, f, c \in Nat : t + f <= s + e /\ s + e <= c + 1 => t + f <= c + 1
    OBVIOUS
  <2>3. /\ syncs \in Nat /\ syncs' \in Nat /\ Due \in Nat /\ Due' \in Nat
        /\ Cardinality(Asked) \in Nat
    BY <1>0, <1>a
  <2>4. "misread" \notin lost' => syncs' + Due' <= Cardinality(Asked) + 1
    <3>1. SUFFICES ASSUME "misread" \notin lost'
                   PROVE  syncs' + Due' <= Cardinality(Asked) + 1
      OBVIOUS
    <3>2. syncs + Due <= Cardinality(Asked) + 1
      BY <1>a, <3>1 DEF SyncAccount
    <3> QED
      BY <1>a, <2>2, <2>3, <3>2
  <2> QED
    BY <1>a, <2>1, <2>4 DEF SyncAccount
<1>1. ASSUME NEW d \in Channels, NEW n \in Requests, Receive(d, n) PROVE SyncAccount'
  <2>1. /\ dpc[d] = "idle" /\ n \notin received /\ received' = received \cup {n}
        /\ UNCHANGED <<slot, spc, sreason, ysignal, ypc, syncs, lost, dreason>>
        /\ dmsg' = [dmsg EXCEPT ![d] = n] /\ dpc' = [dpc EXCEPT ![d] = "store"]
    BY <1>1 DEF Receive
  <2>2. \A e \in Channels \ {d} : UNCHANGED <<dpc[e], dmsg[e], dreason[e]>>
    BY <2>1 DEF TypeOK, TypeDelivery
  <2>3. Due' + One(Asks(d)) + One(InMail) = Due + One(Asks(d))' + One(InMail)'
    BY <1>0, <2>1, <2>2, AsksOf
  <2>4. One(InMail)' = One(InMail) /\ One(Asks(d)) = 0 /\ One(Asks(d))' = One(n \in Asking)
    BY <2>1 DEF One, InMail, Asks, Asking, TypeOK, TypeDelivery
  <2>5. One(InMail) \in {0, 1} /\ One(n \in Asking) \in {0, 1}
    BY Ones
  <2>6. Due' = Due + One(n \in Asking)
    <3> HIDE DEF One, Asks, InMail
    <3> QED
      BY <1>0, <2>3, <2>4, <2>5
  <2>7. IsFiniteSet(received')
    BY <2>1, FS_AddElement DEF SyncAccount
  <2>8. CASE n \in Asking
    <3>1. Asked' = Asked \cup {n} /\ n \notin Asked
      BY <2>1, <2>8 DEF Asked, Asking
    <3>2. Cardinality(Asked)' = Cardinality(Asked) + 1
      BY <1>0, <3>1, FS_AddElement
    <3>3. Due' = Due + 1
      BY <2>6, <2>8 DEF One
    <3> QED
      BY <1>0, <2>1, <2>7, <3>2, <3>3 DEF SyncAccount
  <2>9. CASE n \notin Asking
    <3>1. Asked' = Asked
      BY <2>1, <2>9 DEF Asked, Asking
    <3>2. Due' = Due
      BY <1>0, <2>6, <2>9 DEF One
    <3> QED
      BY <1>0, <2>1, <2>7, <3>1, <3>2 DEF SyncAccount
  <2> QED
    BY <2>8, <2>9
<1>2. ASSUME NEW d \in Channels, Store(d) \/ CheckEmpty(d) PROVE SyncAccount'
  <2>1. /\ UNCHANGED <<slot, spc, sreason, ysignal, ypc, syncs, dreason, received>>
        /\ lost \subseteq lost'
        /\ dpc[d] \in {"store", "check"} /\ \A e \in Channels \ {d} : UNCHANGED <<dpc[e], dmsg[e]>>
    BY <1>2 DEF Store, Storing, CheckEmpty, TypeOK, TypeDelivery
  <2>2. Due' + One(Asks(d)) + One(InMail) = Due + One(Asks(d))' + One(InMail)'
    BY <1>0, <2>1, AsksOf
  <2>3. Asks(d)' => Asks(d)
    BY <1>2, <2>1 DEF Store, CheckEmpty, Asks, Asking, TypeOK, TypeDelivery
  <2>4. One(InMail)' = One(InMail) /\ One(Asks(d))' <= One(Asks(d))
    BY <2>1, <2>3 DEF One, InMail
  <2>5. One(InMail) \in {0, 1} /\ One(Asks(d)) \in {0, 1} /\ One(Asks(d))' \in {0, 1}
    BY Ones
  <2> HIDE DEF One, Asks, InMail
  <2>6. Due' <= Due
    <3>1. Due \in Nat /\ Due' \in Nat
      BY DueBounds
    <3> HIDE DEF Due
    <3> QED
      BY <2>2, <2>4, <2>5, <3>1
  <2>7. received' = received /\ lost \subseteq lost' /\ syncs' \in Nat /\ syncs' <= syncs
    BY <1>0, <2>1
  <2>8. syncs' + Due' <= syncs + Due
    <3>1. \A s, t, e, f \in Nat : t <= s /\ f <= e => t + f <= s + e
      OBVIOUS
    <3>2. syncs \in Nat /\ syncs' \in Nat /\ Due \in Nat /\ Due' \in Nat
      BY <1>0, <2>7
    <3> QED
      BY <2>6, <2>7, <3>1, <3>2
  <2> QED
    BY <1>a, <2>7, <2>8
<1>3. ASSUME NEW d \in Channels, OnRecvMessage(d) PROVE SyncAccount'
  <2>1. /\ UNCHANGED <<slot, spc, sreason, ysignal, ypc, syncs, received>>
        /\ lost \subseteq lost'
        /\ dpc[d] = "classify" /\ \A e \in Channels \ {d} : UNCHANGED <<dpc[e], dmsg[e], dreason[e]>>
    BY <1>3 DEF OnRecvMessage, TypeOK, TypeDelivery
  <2>2. Due' + One(Asks(d)) + One(InMail) = Due + One(Asks(d))' + One(InMail)'
    BY <1>0, <2>1, AsksOf
  <2>3. CASE "misread" \in lost'
    BY <2>1, <2>3 DEF SyncAccount
  <2>4. CASE "misread" \notin lost'
    <3>1. Asks(d)' => Asks(d)
      <4>1. SUFFICES ASSUME Asks(d)' PROVE dmsg[d] \in Asking
        BY <2>1 DEF Asks
      <4>2. dpc'[d] = "post" /\ dreason'[d] = "send_synfile" /\ current # None
        BY <1>3, <4>1 DEF OnRecvMessage, Asks, TypeOK, TypeDelivery
      <4>3. PICK sync : /\ dreason' = [dreason EXCEPT ![d] = IF sync THEN "send_synfile"
                                                                   ELSE "recv_message"]
                        /\ sync \in Contains(dmsg[d])
        BY <1>3, <2>4, <4>2 DEF OnRecvMessage
      <4>4. sync
        BY <4>2, <4>3 DEF TypeOK, TypeDelivery
      <4>5. dmsg[d] # Torn
        BY <2>1, RequestsAssumption DEF TypeOK, TypeDelivery, Channels, Sent, Requests
      <4> QED
        BY <4>3, <4>4, <4>5 DEF Contains, Asking
    <3>2. One(InMail)' = One(InMail) /\ One(Asks(d))' <= One(Asks(d))
      BY <2>1, <3>1 DEF One, InMail
    <3>3. One(InMail) \in {0, 1} /\ One(Asks(d)) \in {0, 1} /\ One(Asks(d))' \in {0, 1}
      BY Ones
    <3> HIDE DEF One, Asks, InMail
    <3>4. Due' <= Due
      BY <1>0, <2>2, <3>2, <3>3
    <3> QED
      BY <1>0, <1>a, <2>1, <3>4
  <2> QED
    BY <2>3, <2>4
<1>4. ASSUME NEW d \in Channels, Post(d) PROVE SyncAccount'
  <2>1. /\ UNCHANGED <<spc, sreason, ysignal, ypc, syncs, received, lost>>
        /\ dpc[d] = "post" /\ dpc'[d] = "idle" /\ slot = "none" /\ slot' = dreason[d]
        /\ \A e \in Channels \ {d} : UNCHANGED <<dpc[e], dmsg[e], dreason[e]>>
    BY <1>4 DEF Post, TypeOK, TypeDelivery
  <2>2. Due' + One(Asks(d)) + One(InMail) = Due + One(Asks(d))' + One(InMail)'
    BY <1>0, <2>1, AsksOf
  <2>3. One(InMail)' = One(Asks(d)) /\ One(InMail) = 0 /\ One(Asks(d))' = 0
    BY <2>1 DEF One, InMail, Asks
  <2>4. One(Asks(d)) \in {0, 1}
    BY Ones
  <2> HIDE DEF One, Asks, InMail
  <2>5. Due' = Due
    BY <1>0, <2>2, <2>3, <2>4
  <2>6. syncs' + Due' <= syncs + Due
    BY <1>0, <2>1, <2>5
  <2> QED
    BY <1>0, <1>a, <2>1, <2>6
<1>5. ASSUME PostOther \/ Sleep \/ Message \/ Synfile \/ UNCHANGED vars PROVE SyncAccount'
  <2>1. UNCHANGED <<dpc, dmsg, dreason, received>> /\ lost \subseteq lost' /\ syncs' \in Nat
    BY <1>5 DEF PostOther, Sleep, SleepWait, SleepDispatch, Message, MessageWait, MessageRead,
                MessageClear, MessageResponse, Synfile, SynfileWait, SyncFiles, vars, TypeOK,
                TypeHistory
  <2>2. One(Asks("message"))' = One(Asks("message")) /\ One(Asks("syncfile"))' = One(Asks("syncfile"))
    BY <2>1 DEF One, Asks, Asking
  <2>3. One(Asks("message")) \in {0, 1} /\ One(Asks("syncfile")) \in {0, 1}
    BY Ones
  <2>4. syncs' + One(InMail)' + One(InHand)' + One(ysignal)' + One(ypc = "sync")'
        <= syncs + One(InMail) + One(InHand) + One(ysignal) + One(ypc = "sync")
    BY <1>0, <1>5 DEF PostOther, Sleep, SleepWait, SleepDispatch, Message, MessageWait, MessageRead,
                MessageClear, MessageResponse, Synfile, SynfileWait, SyncFiles, vars, One, InMail,
                InHand, TypeOK, TypeSleep, TypeThreads
  <2>5. /\ One(InMail) \in {0, 1} /\ One(InHand) \in {0, 1} /\ One(ysignal) \in {0, 1}
        /\ One(ypc = "sync") \in {0, 1}
        /\ One(InMail)' \in {0, 1} /\ One(InHand)' \in {0, 1} /\ One(ysignal)' \in {0, 1}
        /\ One(ypc = "sync")' \in {0, 1}
    BY Ones
  <2> HIDE DEF One, Asks, InMail, InHand
  <2>6. syncs' + Due' <= syncs + Due
    BY <1>0, <2>1, <2>2, <2>3, <2>4, <2>5 DEF Due
  <2> QED
    BY <1>a, <2>1, <2>6
<1> QED
  BY <1>1, <1>2, <1>3, <1>4, <1>5 DEF Next, Deliver

(* For any requests: the folder is never synchronised more often than was   *)
(* asked for, but for the wake flag left up, unless a request was read in   *)
(* place of another.                                                        *)
THEOREM SynchronisationsAreAsked == Spec => []SyncsAreAskedFor
<1>1. Init => SyncAccount
  <2> SUFFICES ASSUME Init PROVE SyncAccount
    OBVIOUS
  <2>1. received = {} /\ syncs = 0 /\ Asked = {}
    BY DEF Init, Asked
  <2>2. ~Asks("message") /\ ~Asks("syncfile") /\ ~InMail /\ ~InHand /\ ypc # "sync"
    BY DEF Init, Asks, InMail, InHand, Channels
  <2>3. One(ysignal) \in {0, 1}
    BY Ones
  <2>4. Due = One(ysignal)
    <3>1. /\ One(Asks("message")) = 0 /\ One(Asks("syncfile")) = 0 /\ One(InMail) = 0
          /\ One(InHand) = 0 /\ One(ypc = "sync") = 0
      BY <2>2 DEF One
    <3> HIDE DEF One, Asks, InMail, InHand
    <3> QED
      BY <2>3, <3>1 DEF Due
  <2> QED
    BY <2>1, <2>3, <2>4, FS_EmptySet DEF SyncAccount
<1>2. SyncAccount /\ TypeOK => SyncsAreAskedFor
  <2> SUFFICES ASSUME SyncAccount, TypeOK, "misread" \notin lost
               PROVE  syncs <= Cardinality(Asked) + 1
    BY DEF SyncsAreAskedFor, Asked, Asking
  <2>1. IsFiniteSet(Asked)
    BY FS_Intersection DEF SyncAccount, Asked
  <2>2. Cardinality(Asked) \in Nat /\ Due \in Nat /\ syncs \in Nat
    BY <2>1, FS_CardinalityType, DueBounds DEF TypeOK, TypeHistory
  <2> QED
    BY <2>2 DEF SyncAccount
<1> QED
  BY <1>1, <1>2, SyncAccountStep, TypeCorrect, PTL DEF Spec

-----------------------------------------------------------------------------
(* The way of a request is finite: what each thread, the slot and the two   *)
(* wake flags have still to do of what came in from outside.                *)
DeliveryLeft(pc) ==
  CASE pc = "store"    -> 10
    [] pc = "check"    -> 9
    [] pc = "classify" -> 8
    [] pc = "post"     -> 7
    [] OTHER           -> 0

MessageLeft(pc) ==
  CASE pc = "test"   -> 3
    [] pc = "clear"  -> 2
    [] pc = "assert" -> 1
    [] OTHER         -> 0

SlotLeft(r) == IF r # "none" THEN 6 ELSE 0
SleepLeft(pc) == IF pc = "dispatch" THEN 5 ELSE 0
MessageSignalLeft(up) == IF up THEN 4 ELSE 0
SynfileSignalLeft(up) == IF up THEN 2 ELSE 0
SynfileLeft(pc) == IF pc = "sync" THEN 1 ELSE 0

DeliveriesLeft == DeliveryLeft(dpc["message"]) + DeliveryLeft(dpc["syncfile"])
ThreadsLeft == SlotLeft(slot) + SleepLeft(spc) + MessageSignalLeft(msignal) + SynfileSignalLeft(ysignal)
                 + MessageLeft(mpc) + SynfileLeft(ypc)
Work == DeliveriesLeft + ThreadsLeft

(* What comes from outside: a request on a channel, a reason of another.    *)
FromOutside == PostOther \/ \E d \in Channels, m \in Requests : Receive(d, m)

WorkRunsOut == [][FromOutside \/ Work' < Work]_vars

(* Whether a thread may take a step: the guards of the actions.             *)
ThreadGoes ==
  \/ \E d \in Channels : dpc[d] \in {"store", "check", "classify"} \/ (dpc[d] = "post" /\ slot = "none")
  \/ (spc = "wait" /\ slot # "none") \/ spc = "dispatch"
  \/ (mpc = "wait" /\ msignal) \/ mpc \in {"test", "clear", "assert"}
  \/ (ypc = "wait" /\ ysignal) \/ ypc = "sync"

EndsHandled ==
  mpc # "terminated" /\ ~ThreadGoes =>
    Quiet /\ (lost = {} => Unanswered \subseteq Mentions /\ unsynced = {})

LEMMA LeftTypes ==
  /\ \A pc : DeliveryLeft(pc) \in 0..10 /\ MessageLeft(pc) \in 0..3
  /\ \A pc : SleepLeft(pc) \in 0..5 /\ SynfileLeft(pc) \in 0..1
  /\ \A r : SlotLeft(r) \in 0..6
  /\ \A up : MessageSignalLeft(up) \in 0..4 /\ SynfileSignalLeft(up) \in 0..2
<1>1. \A pc : DeliveryLeft(pc) \in 0..10
  BY DEF DeliveryLeft
<1>2. \A pc : MessageLeft(pc) \in 0..3
  BY DEF MessageLeft
<1>3. \A pc : SleepLeft(pc) \in 0..5 /\ SynfileLeft(pc) \in 0..1
  BY DEF SleepLeft, SynfileLeft
<1>4. \A r : SlotLeft(r) \in 0..6
  BY DEF SlotLeft
<1>5. \A up : MessageSignalLeft(up) \in 0..4 /\ SynfileSignalLeft(up) \in 0..2
  BY DEF MessageSignalLeft, SynfileSignalLeft
<1> QED
  BY <1>1, <1>2, <1>3, <1>4, <1>5

(* A delivery thread that comes closer makes both together come closer.     *)
LEMMA DeliveryMoves ==
  ASSUME TypeOK, NEW d \in Channels, NEW p, dpc' = [dpc EXCEPT ![d] = p]
  PROVE  DeliveriesLeft' = DeliveriesLeft + DeliveryLeft(p) - DeliveryLeft(dpc[d])
<1> DEFINE Left(e) == DeliveryLeft(dpc[e])
           LeftAfter(e) == DeliveryLeft(dpc'[e])
<1>1. \A e \in Channels : LeftAfter(e) = IF e = d THEN DeliveryLeft(p) ELSE Left(e)
  BY DEF TypeOK, TypeDelivery
<1>2. \A e \in Channels : Left(e) \in 0..10 /\ DeliveryLeft(p) \in 0..10
  BY LeftTypes
<1>3. Left(d) = DeliveryLeft(dpc[d])
  OBVIOUS
<1> HIDE DEF Left, LeftAfter
<1>4. LeftAfter("message") + LeftAfter("syncfile")
        = Left("message") + Left("syncfile") + DeliveryLeft(p) - Left(d)
  <2>1. CASE d = "message"
    BY <1>1, <1>2, <2>1 DEF Channels
  <2>2. CASE d = "syncfile"
    BY <1>1, <1>2, <2>2 DEF Channels
  <2> QED
    BY <2>1, <2>2 DEF Channels
<1> QED
  BY <1>3, <1>4 DEF Left, LeftAfter, DeliveriesLeft

(* Every step of a thread leaves less to do.                                *)
LEMMA WorkStep ==
  ASSUME TypeOK, Next, ~FromOutside
  PROVE  Work' < Work
<1> USE DEF delivery, reason, sleep, message, synfile
<1>d. DeliveriesLeft \in 0..20 /\ DeliveriesLeft' \in 0..20 /\ ThreadsLeft \in 0..21 /\ ThreadsLeft' \in 0..21
  <2>1. ThreadsLeft \in 0..21
    BY LeftTypes DEF ThreadsLeft
  <2>2. ThreadsLeft' \in 0..21
    BY LeftTypes DEF ThreadsLeft
  <2> QED
    BY <2>1, <2>2, LeftTypes DEF DeliveriesLeft
<1>1. ASSUME NEW d \in Channels, Store(d) \/ CheckEmpty(d) \/ OnRecvMessage(d) PROVE Work' < Work
  <2> PICK p \in {"check", "classify", "post", "idle"} :
        /\ dpc' = [dpc EXCEPT ![d] = p]
        /\ DeliveryLeft(p) < DeliveryLeft(dpc[d])
    <3>1. CASE Store(d)
      BY <1>1, <3>1 DEF Store, Storing, DeliveryLeft
    <3>2. CASE CheckEmpty(d)
      <4>1. dpc[d] = "check" /\ (dpc' = [dpc EXCEPT ![d] = "idle"] \/ dpc' = [dpc EXCEPT ![d] = "classify"])
        BY <3>2 DEF CheckEmpty
      <4> QED
        BY <4>1 DEF DeliveryLeft
    <3>3. CASE OnRecvMessage(d)
      BY <1>1, <3>3 DEF OnRecvMessage, DeliveryLeft
    <3> QED
      BY <1>1, <3>1, <3>2, <3>3
  <2>1. DeliveriesLeft' = DeliveriesLeft + DeliveryLeft(p) - DeliveryLeft(dpc[d])
    BY DeliveryMoves
  <2>2. DeliveryLeft(p) \in 0..10 /\ DeliveryLeft(dpc[d]) \in 0..10
    BY LeftTypes
  <2>3. UNCHANGED <<slot, spc, msignal, ysignal, mpc, ypc>>
    BY <1>1 DEF Store, CheckEmpty, OnRecvMessage
  <2>4. ThreadsLeft' = ThreadsLeft
    BY <2>3 DEF ThreadsLeft, MessageLeft, SlotLeft, SleepLeft, MessageSignalLeft, SynfileSignalLeft,
                SynfileLeft
  <2> QED
    BY <1>d, <2>1, <2>2, <2>4 DEF Work
<1>2. ASSUME NEW d \in Channels, Post(d) PROVE Work' < Work
  <2>1. dpc[d] = "post" /\ dpc' = [dpc EXCEPT ![d] = "idle"] /\ slot = "none"
        /\ UNCHANGED <<spc, msignal, ysignal, mpc, ypc>>
    BY <1>2 DEF Post
  <2>2. DeliveriesLeft' = DeliveriesLeft + DeliveryLeft("idle") - DeliveryLeft("post")
    BY <2>1, DeliveryMoves
  <2>3. DeliveryLeft("idle") = 0 /\ DeliveryLeft("post") = 7
    BY DEF DeliveryLeft
  <2>4. ThreadsLeft' <= ThreadsLeft + 6
    <3>1. SleepLeft(spc') = SleepLeft(spc)
        /\ MessageSignalLeft(msignal') = MessageSignalLeft(msignal)
          /\ SynfileSignalLeft(ysignal') = SynfileSignalLeft(ysignal)
          /\ SynfileLeft(ypc') = SynfileLeft(ypc) /\ MessageLeft(mpc') = MessageLeft(mpc)
      BY <2>1 DEF MessageLeft, SleepLeft, MessageSignalLeft, SynfileSignalLeft, SynfileLeft
    <3>2. SlotLeft(slot) = 0 /\ SlotLeft(slot') <= 6
      BY <2>1 DEF SlotLeft
    <3> QED
      BY <2>1, <3>1, <3>2, LeftTypes DEF ThreadsLeft
  <2> QED
    BY <1>d, <2>2, <2>3, <2>4 DEF Work
<1>3. ASSUME Sleep \/ Message \/ Synfile, UNCHANGED dpc, ThreadsLeft' < ThreadsLeft PROVE Work' < Work
  <2>1. DeliveriesLeft' = DeliveryLeft(dpc["message"]) + DeliveryLeft(dpc["syncfile"])
    BY <1>3 DEF DeliveriesLeft
  <2> QED
    BY <1>3, <2>1, LeftTypes DEF Work, ThreadsLeft, DeliveriesLeft
<1>4. CASE SleepWait
  <2>1. SlotLeft(slot) = 6 /\ SlotLeft(slot') = 0 /\ SleepLeft(spc) = 0 /\ SleepLeft(spc') = 5
    BY <1>4 DEF SleepWait, SlotLeft, SleepLeft
  <2>2. MessageSignalLeft(msignal') = MessageSignalLeft(msignal)
        /\ SynfileSignalLeft(ysignal') = SynfileSignalLeft(ysignal)
        /\ SynfileLeft(ypc') = SynfileLeft(ypc) /\ MessageLeft(mpc') = MessageLeft(mpc)
    BY <1>4 DEF SleepWait, MessageLeft, MessageSignalLeft, SynfileSignalLeft, SynfileLeft
  <2>3. ThreadsLeft' < ThreadsLeft
    BY <2>1, <2>2, LeftTypes DEF ThreadsLeft
  <2> QED
    BY <1>3, <1>4, <2>3 DEF SleepWait, Sleep
<1>5. ASSUME NEW running \in BOOLEAN, SleepDispatch(running) PROVE Work' < Work
  <2>1. SlotLeft(slot') = SlotLeft(slot) /\ SleepLeft(spc) = 5 /\ SleepLeft(spc') = 0
        /\ SynfileLeft(ypc') = SynfileLeft(ypc) /\ MessageLeft(mpc') = MessageLeft(mpc)
    BY <1>5 DEF SleepDispatch, MessageLeft, SlotLeft, SleepLeft, SynfileLeft
  <2>2. MessageSignalLeft(msignal') <= MessageSignalLeft(msignal) + 4
    BY LeftTypes
  <2>3. SynfileSignalLeft(ysignal') <= SynfileSignalLeft(ysignal) + 2
    BY LeftTypes
  <2>4. \/ MessageSignalLeft(msignal') = MessageSignalLeft(msignal)
        \/ SynfileSignalLeft(ysignal') = SynfileSignalLeft(ysignal)
    <3>1. msignal' = msignal \/ ysignal' = ysignal
      <4>1. msignal \in BOOLEAN /\ ysignal \in BOOLEAN
        BY DEF TypeOK, TypeSleep
      <4>2. CASE running /\ sreason = "recv_message"
        BY <1>5, <4>1, <4>2 DEF SleepDispatch
      <4>3. CASE ~(running /\ sreason = "recv_message")
        BY <1>5, <4>1, <4>3 DEF SleepDispatch
      <4> QED
        BY <4>2, <4>3
    <3> QED
      BY <3>1 DEF MessageSignalLeft, SynfileSignalLeft
  <2>5. ThreadsLeft' < ThreadsLeft
    BY <2>1, <2>2, <2>3, <2>4, LeftTypes DEF ThreadsLeft
  <2> QED
    BY <1>3, <1>5, <2>5 DEF SleepDispatch, Sleep
<1>6. CASE Message
  <2>1. SlotLeft(slot') = SlotLeft(slot) /\ SleepLeft(spc') = SleepLeft(spc)
        /\ SynfileSignalLeft(ysignal') = SynfileSignalLeft(ysignal)
        /\ SynfileLeft(ypc') = SynfileLeft(ypc) /\ dpc' = dpc
    BY <1>6 DEF Message, MessageWait, MessageRead, MessageClear, MessageResponse,
                SlotLeft, SleepLeft, SynfileSignalLeft, SynfileLeft
  <2>2. MessageSignalLeft(msignal') + MessageLeft(mpc') < MessageSignalLeft(msignal) + MessageLeft(mpc)
    <3>1. CASE MessageWait
      BY <3>1 DEF MessageWait, MessageSignalLeft, MessageLeft
    <3>2. ASSUME UNCHANGED msignal, MessageLeft(mpc') < MessageLeft(mpc)
          PROVE MessageSignalLeft(msignal') + MessageLeft(mpc') < MessageSignalLeft(msignal) + MessageLeft(mpc)
      <4>1. MessageSignalLeft(msignal') = MessageSignalLeft(msignal)
        BY <3>2 DEF MessageSignalLeft
      <4> QED
        BY <3>2, <4>1, LeftTypes
    <3>3. CASE MessageRead
      BY <3>2, <3>3 DEF MessageRead, MessageLeft
    <3>4. CASE MessageClear
      BY <3>2, <3>4 DEF MessageClear, MessageLeft
    <3>5. CASE MessageResponse
      BY <3>2, <3>5 DEF MessageResponse, MessageLeft
    <3> QED
      BY <1>6, <3>1, <3>3, <3>4, <3>5 DEF Message
  <2>3. ThreadsLeft' < ThreadsLeft
    BY <2>1, <2>2, LeftTypes DEF ThreadsLeft
  <2> QED
    BY <1>3, <1>6, <2>1, <2>3
<1>7. CASE Synfile
  <2>1. SlotLeft(slot') = SlotLeft(slot) /\ SleepLeft(spc') = SleepLeft(spc)
        /\ MessageSignalLeft(msignal') = MessageSignalLeft(msignal)
        /\ MessageLeft(mpc') = MessageLeft(mpc) /\ dpc' = dpc
    BY <1>7 DEF MessageLeft, Synfile, SynfileWait, SyncFiles, SlotLeft, SleepLeft, MessageSignalLeft
  <2>2. SynfileSignalLeft(ysignal') + SynfileLeft(ypc') < SynfileSignalLeft(ysignal) + SynfileLeft(ypc)
    BY <1>7 DEF Synfile, SynfileWait, SyncFiles, SynfileSignalLeft, SynfileLeft
  <2>3. ThreadsLeft' < ThreadsLeft
    BY <2>1, <2>2, LeftTypes DEF ThreadsLeft
  <2> QED
    BY <1>3, <1>7, <2>1, <2>3
<1> QED
  BY <1>1, <1>2, <1>4, <1>5, <1>6, <1>7 DEF Next, Deliver, Sleep, FromOutside

(* When nothing more comes from outside the threads take at most 41 steps,  *)
(* whatever the races of g_current_message: a reason posted twice, or a     *)
(* string torn, makes no thread run in a circle.                            *)
THEOREM MessageWorkIsFinite == Spec => [](Work \in 0..41) /\ WorkRunsOut
<1>1. TypeOK => Work \in 0..41
  BY LeftTypes DEF Work, DeliveriesLeft, ThreadsLeft
<1>2. TypeOK /\ [Next]_vars => [FromOutside \/ Work' < Work]_vars
  BY WorkStep
<1> QED
  BY <1>1, <1>2, TypeCorrect, PTL DEF WorkRunsOut, Spec

(* And they come to rest nowhere on the way: where no thread may take a     *)
(* step none holds a request, none is due, and every request is handled     *)
(* unless lost names what became of one.                                    *)
THEOREM RestIsHandled == Spec => []EndsHandled
<1>1. TypeOK /\ RequestsHandled => EndsHandled
  <2> SUFFICES ASSUME TypeOK, RequestsHandled, mpc # "terminated", ~ThreadGoes PROVE Quiet
    BY DEF EndsHandled, RequestsHandled
  <2>1. spc = "wait" /\ slot = "none"
    BY DEF TypeOK, TypeSleep, ThreadGoes
  <2>2. \A d \in Channels : dpc[d] = "idle"
    BY <2>1 DEF TypeOK, TypeDelivery, ThreadGoes
  <2>3. mpc = "wait" /\ ypc = "wait"
    BY DEF TypeOK, TypeThreads, ThreadGoes
  <2>4. ~msignal /\ ~ysignal
    BY <2>3 DEF ThreadGoes
  <2> QED
    BY <2>1, <2>2, <2>3, <2>4 DEF Quiet
<1> QED
  BY <1>1, TypeCorrect, RequestsAreHandled, PTL

-----------------------------------------------------------------------------
(* What a synchronisation uploads: SyncFiles. *)

(* Every step keeps the types. *)
LEMMA SyncTypeStep == SyncTypeOK /\ [SyncNext]_syncVars => SyncTypeOK'
<1> SUFFICES ASSUME SyncTypeOK, SyncNext \/ UNCHANGED syncVars PROVE SyncTypeOK'
  BY DEF syncVars
<1>a. /\ MaxRequests \in Nat /\ MaxSyncs \in Nat /\ MaxSwitches \in Nat
      /\ requests \in 0..MaxRequests /\ calls \in 0..MaxSyncs /\ switches \in 0..MaxSwitches
  BY SyncBoundsAssumption DEF SyncTypeOK
<1>b. /\ requests < MaxRequests => requests + 1 \in 0..MaxRequests
      /\ calls < MaxSyncs => calls + 1 \in 0..MaxSyncs
      /\ switches < MaxSwitches => switches + 1 \in 0..MaxSwitches
  BY <1>a
<1> USE DEF SyncTypeOK, info, walk, synvars, Raced
<1>1. ASSUME NEW f \in Folders, SaveLatestFolder(f) PROVE SyncTypeOK'
  BY <1>b, <1>1 DEF SaveLatestFolder
<1>2. ASSUME NEW f \in Folders, NEW ign \in Requested(f), TreeInfo(f, ign) PROVE SyncTypeOK'
  <2>1. ign \subseteq Entries
    BY DEF Requested, Entries
  <2> QED
    BY <1>b, <1>2, <2>1 DEF TreeInfo
<1>3. CASE SetSyncPath
  BY <1>3 DEF SetSyncPath
<1>4. CASE SwapIgnores
  BY <1>4 DEF SwapIgnores
<1>5. ASSUME NEW e \in todo, PushIgnore(e) PROVE SyncTypeOK'
  <2>1. Narrow(e) \in Entries \cup (Folders \X {"mangled"})
    BY DEF Narrow, Entries
  <2> QED
    BY <1>5, <2>1 DEF PushIgnore
<1>6. CASE TreeInfoDone
  BY <1>6 DEF TreeInfoDone, NoRequest
<1>7. CASE NotifySynfiles
  BY <1>b, <1>7 DEF NotifySynfiles
<1>8. ASSUME NEW read \in BOOLEAN, SynfileWake(read) PROVE SyncTypeOK'
  BY <1>8 DEF SynfileWake
<1>9. CASE StoreSyncPath
  BY <1>9 DEF StoreSyncPath
<1>10. CASE OpenTree
  <2> PICK root \in Folders \cup {NoFolder, "torn"} :
        \/ root \in Folders /\ pending' = {root} \X ({Dir} \cup Outer)
        \/ pending' = {}
    BY <1>10 DEF OpenTree
  <2>1. pending' \subseteq Entries
    BY DEF Entries, Names
  <2> QED
    BY <1>10, <2>1 DEF OpenTree
<1>11. ASSUME NEW e \in pending, Visit(e) PROVE SyncTypeOK'
  <2>1. Under(e) \subseteq Entries
    BY DEF Under, Entries, Names
  <2>2. pending' \subseteq Entries /\ tree' \subseteq Entries
    BY <1>11, <2>1 DEF Visit
  <2>3. trouble' \subseteq {"raced", "no folder", "not listed", "passed over", "dropped"}
    BY <1>11 DEF Visit
  <2> QED
    BY <1>11, <2>2, <2>3 DEF Visit
<1>12. CASE WalkDone
  BY <1>12 DEF WalkDone
<1>13. ASSUME NEW e \in tree, PublishFile(e) PROVE SyncTypeOK'
  BY <1>13 DEF PublishFile
<1>14. CASE SyncDone
  BY <1>14 DEF SyncDone
<1>15. CASE UNCHANGED syncVars
  BY <1>15 DEF syncVars
<1> QED
  BY <1>1, <1>2, <1>3, <1>4, <1>5, <1>6, <1>7, <1>8, <1>9, <1>10, <1>11, <1>12, <1>13, <1>14, <1>15
     DEF SyncNext, Info, Sync

LEMMA SyncInitTypes == SyncInit => SyncTypeOK
<1> SUFFICES ASSUME SyncInit PROVE SyncTypeOK
  OBVIOUS
<1>1. requests \in 0..MaxRequests /\ calls \in 0..MaxSyncs /\ switches \in 0..MaxSwitches
  BY SyncBoundsAssumption DEF SyncInit
<1> QED
  BY <1>1 DEF SyncInit, SyncTypeOK, NoRequest

(* Type correctness: the variables of the two threads that share the        *)
(* client's folder and list keep their types, whatever they read torn.      *)
THEOREM SyncTypeCorrect == SyncSpec => []SyncTypeOK
<1>1. SyncTypeOK /\ [SyncNext]_syncVars => SyncTypeOK'
  BY SyncTypeStep
<1> QED
  BY <1>1, SyncInitTypes, PTL DEF SyncSpec

-----------------------------------------------------------------------------
(* The list is what the last tree-info request asked to ignore, or is being *)
(* filled with it.                                                          *)
ListAgrees ==
  /\ infopc \in {"path", "swap"} => todo = mreq.ignores
  /\ infopc = "wait" => todo = {}
  /\ infopc = "fill" => agreed = mreq.ignores
  /\ \A e \in Entries :
       e \in Meant(agreed) <=> e \in ignores \/ (infopc = "fill" /\ e \in Meant(todo))

LEMMA ListStep == SyncTypeOK /\ ListAgrees /\ [SyncNext]_syncVars => ListAgrees'
<1> SUFFICES ASSUME SyncTypeOK, ListAgrees, SyncNext \/ UNCHANGED syncVars PROVE ListAgrees'
  BY DEF syncVars
<1> USE DEF ListAgrees, Meant, info, synvars
<1>1. ASSUME NEW f \in Folders, NEW ign \in Requested(f), TreeInfo(f, ign) PROVE ListAgrees'
  BY <1>1 DEF TreeInfo
<1>2. CASE SetSyncPath
  BY <1>2 DEF SetSyncPath
<1>3. CASE SwapIgnores
  BY <1>3 DEF SwapIgnores
<1>4. ASSUME NEW e \in todo, PushIgnore(e) PROVE ListAgrees'
  <2>1. infopc = "fill" /\ infopc' = "fill" /\ todo' = todo \ {e} /\ ignores' = ignores \cup {Narrow(e)}
        /\ UNCHANGED <<mreq, agreed>>
    BY <1>4 DEF PushIgnore
  <2>2. e[2] \in Wide => Narrow(e) \notin Entries
    BY NamesAssumption DEF Narrow, Entries, Names
  <2>3. e[2] \notin Wide => Narrow(e) = e
    BY DEF Narrow
  <2>4. ASSUME NEW x \in Entries
        PROVE  x \in ignores \/ x \in Meant(todo) <=> x \in ignores' \/ x \in Meant(todo)'
    BY <2>1, <2>2, <2>3
  <2> QED
    BY <2>1, <2>4
<1>5. CASE TreeInfoDone
  BY <1>5 DEF TreeInfoDone, NoRequest, SyncTypeOK
<1>6. CASE UNCHANGED <<info, ignores>>
  BY <1>6
<1>7. ASSUME NEW f \in Folders, SaveLatestFolder(f) PROVE UNCHANGED <<info, ignores>>
  BY <1>7 DEF SaveLatestFolder
<1>8. ASSUME Sync PROVE UNCHANGED <<info, ignores>>
  BY <1>8 DEF Sync, NotifySynfiles, SynfileWake, StoreSyncPath, OpenTree, Visit, WalkDone, PublishFile,
              SyncDone
<1>9. CASE UNCHANGED syncVars
  BY <1>9 DEF syncVars
<1> QED
  BY <1>1, <1>2, <1>3, <1>4, <1>5, <1>6, <1>7, <1>8, <1>9 DEF SyncNext, Info

-----------------------------------------------------------------------------
(* What is in a folder, and what of it a list keeps back. *)
Content(f) == {f} \X Names

LEMMA HiddenEntries ==
  ASSUME NEW ign, ign \subseteq Entries, NEW f \in Folders, NEW x \in Content(f)
  PROVE  x \in Hidden(ign) <=> x \in Meant(ign) \/ (x[2] \in Inner /\ <<f, Dir>> \in Meant(ign))
<1>1. ASSUME NEW k \in Meant(ign), x \in Under(k) PROVE x[2] \in Inner /\ k = <<f, Dir>>
  BY <1>1 DEF Meant, Under, IsDir, Content, Entries
<1>2. ASSUME x[2] \in Inner PROVE x \in Under(<<f, Dir>>)
  BY <1>2 DEF Under, IsDir, Content
<1> QED
  BY <1>1, <1>2 DEF Hidden

LEMMA UnderFolder ==
  ASSUME NEW f, NEW e \in Content(f)
  PROVE  /\ IsDir(e) => e = <<f, Dir>> /\ Under(e) = {f} \X Inner
         /\ ~IsDir(e) => Under(e) = {} /\ e \in FilesOf(f)
         /\ Under(e) \subseteq Content(f)
BY DEF Content, IsDir, Under, FilesOf, Names

LEMMA FilesAreContent == \A f : FilesOf(f) \subseteq Content(f) /\ \A x \in FilesOf(f) : ~IsDir(x)
BY NamesAssumption DEF FilesOf, Content, Names, IsDir

(* The synchronisation at each of its places.  A file that is to be sent    *)
(* and not yet listed is among the entries to come to, or its directory is. *)
Begun ==
  /\ syncpc \in {"store", "open"} => tree = {} /\ pending = {}
  /\ syncpc \in {"store", "open", "walk"} => uploaded = {}
  /\ syncpc # "wait" /\ folder = NoFolder => "no folder" \in trouble

PathIn == syncpc = "open" => syncPath = folder

Walked ==
  syncpc = "walk" =>
    /\ folder \in Folders
    /\ pending \subseteq Content(folder)
    /\ tree \subseteq Content(folder) \ Hidden(agreed)
    /\ \A e \in pending : e[2] \in Inner => <<folder, Dir>> \notin Meant(agreed)
    /\ trouble = {} =>
         \A x \in FilesOf(folder) \ Hidden(agreed) :
           x \in tree \/ x \in pending \/ (x[2] \in Inner /\ <<folder, Dir>> \in pending)

Uploading ==
  /\ syncpc = "send" => tree \subseteq Content(folder) \ Hidden(shun)
  /\ uploaded \subseteq FilesOf(folder) \ Hidden(shun)
  /\ syncpc = "send" /\ trouble = {} => FilesOf(folder) \ Hidden(shun) \subseteq uploaded \cup tree

SyncInv == Begun /\ ("raced" \notin trouble => PathIn /\ Walked /\ Uploading)

LEMMA SyncInvStep == SyncTypeOK /\ ListAgrees /\ SyncInv /\ [SyncNext]_syncVars => SyncInv'
<1> SUFFICES ASSUME SyncTypeOK, ListAgrees, SyncInv, SyncNext \/ UNCHANGED syncVars PROVE SyncInv'
  BY DEF syncVars
<1> USE DEF info, walk, synvars, Raced
<1>1. CASE UNCHANGED <<syncPath, agreed, synvars>>
  BY <1>1 DEF SyncInv, Begun, PathIn, Walked, Uploading
<1>2. ASSUME NEW f \in Folders, SaveLatestFolder(f) PROVE UNCHANGED <<syncPath, agreed, synvars>>
  BY <1>2 DEF SaveLatestFolder
<1>3. ASSUME NEW f \in Folders, NEW ign \in Requested(f), TreeInfo(f, ign)
      PROVE UNCHANGED <<syncPath, agreed, synvars>>
  BY <1>3 DEF TreeInfo
<1>4. CASE SetSyncPath
  BY <1>4 DEF SetSyncPath, SyncInv, Begun, PathIn, Walked, Uploading
<1>5. CASE SwapIgnores
  BY <1>5 DEF SwapIgnores, SyncInv, Begun, PathIn, Walked, Uploading
<1>6. ASSUME NEW e \in todo, PushIgnore(e) PROVE SyncInv'
  BY <1>6 DEF PushIgnore, SyncInv, Begun, PathIn, Walked, Uploading
<1>7. ASSUME TreeInfoDone \/ NotifySynfiles \/ UNCHANGED syncVars
      PROVE UNCHANGED <<syncPath, agreed, synvars>>
  BY <1>7 DEF TreeInfoDone, NotifySynfiles, syncVars
<1>8. ASSUME NEW read \in BOOLEAN, SynfileWake(read) PROVE SyncInv'
  BY <1>8 DEF SynfileWake, SyncInv, Begun, PathIn, Walked, Uploading
<1>9. CASE StoreSyncPath
  BY <1>9 DEF StoreSyncPath, SyncInv, Begun, PathIn, Walked, Uploading
<1>10. CASE OpenTree
  <2>1. SUFFICES ASSUME "raced" \notin trouble' PROVE PathIn' /\ Walked' /\ Uploading'
    BY <1>10 DEF OpenTree, SyncInv, Begun
  <2>2. /\ "raced" \notin trouble /\ syncpc = "open" /\ tree' = {} /\ uploaded' = {}
        /\ UNCHANGED <<folder, agreed>>
        /\ \/ /\ folder # NoFolder /\ syncpc' = "walk" /\ pending' = {folder} \X ({Dir} \cup Outer)
              /\ trouble' = trouble
           \/ syncpc' = "send" /\ trouble' # {}
    <3>1. "raced" \notin trouble /\ ~(infopc = "path" \/ syncPath = "torn") /\ syncPath = folder
      BY <1>10, <2>1 DEF OpenTree, SyncInv, PathIn
    <3> QED
      BY <1>10, <3>1 DEF OpenTree, SyncInv, Begun
  <2>3. PathIn' /\ Uploading'
    BY <2>2 DEF PathIn, Uploading
  <2>4. CASE syncpc' = "walk"
    <3>1. folder \in Folders /\ folder' = folder /\ pending' = {folder} \X ({Dir} \cup Outer)
      BY <2>2, <2>4 DEF SyncTypeOK
    <3>2. pending' \subseteq Content(folder) /\ \A e \in pending' : e[2] \notin Inner
      BY <3>1, NamesAssumption DEF Content, Names
    <3>3. \A x \in FilesOf(folder) : x \in pending' \/ (x[2] \in Inner /\ <<folder, Dir>> \in pending')
      BY <3>1 DEF FilesOf
    <3> QED
      BY <2>2, <2>3, <3>1, <3>2, <3>3 DEF Walked
  <2> QED
    BY <2>2, <2>3, <2>4 DEF Walked
<1>11. ASSUME NEW e \in pending, Visit(e) PROVE SyncInv'
  <2>1. SUFFICES ASSUME "raced" \notin trouble' PROVE PathIn' /\ Walked' /\ Uploading'
    BY <1>11 DEF Visit, SyncInv, Begun
  <2>2. /\ "raced" \notin trouble /\ syncpc = "walk" /\ uploaded' = {} /\ UNCHANGED <<folder, agreed>>
        /\ \/ /\ syncpc' = "walk" /\ trouble' = trouble /\ ~(infopc = "fill" /\ todo # {})
              /\ pending' = (pending \ {e}) \cup (IF e \in ignores THEN {} ELSE Under(e))
              /\ tree' = IF e \in ignores THEN tree ELSE tree \cup {e}
           \/ syncpc' = "send" /\ tree' = {} /\ trouble' # {}
    BY <1>11, <2>1 DEF Visit, SyncInv, Begun
  <2>3. PathIn' /\ Uploading'
    BY <2>2 DEF PathIn, Uploading
  <2>4. CASE syncpc' = "walk"
    <3>1. /\ folder \in Folders /\ e \in Content(folder) /\ pending \subseteq Content(folder)
          /\ tree \subseteq Content(folder) \ Hidden(agreed)
          /\ e[2] \in Inner => <<folder, Dir>> \notin Meant(agreed)
      BY <2>2 DEF SyncInv, Walked
    <3>2. e \in ignores <=> e \in Meant(agreed)
      BY <2>2, <2>4 DEF ListAgrees, SyncTypeOK, Meant
    <3>3. e \notin ignores => e \notin Hidden(agreed)
      BY <3>1, <3>2, HiddenEntries DEF SyncTypeOK
    <3>4. Under(e) \subseteq Content(folder) /\ (Under(e) # {} => e = <<folder, Dir>>)
      BY <3>1, UnderFolder
    <3>5. \A x \in pending' : x[2] \in Inner => <<folder, Dir>> \notin Meant(agreed)
      BY <2>2, <2>4, <3>2, <3>4 DEF SyncInv, Walked
    <3>6. ASSUME trouble = {}, NEW x \in FilesOf(folder) \ Hidden(agreed)
          PROVE  x \in tree' \/ x \in pending' \/ (x[2] \in Inner /\ <<folder, Dir>> \in pending')
      <4>1. x \in tree \/ x \in pending \/ (x[2] \in Inner /\ <<folder, Dir>> \in pending)
        BY <2>2, <3>6 DEF SyncInv, Walked
      <4>2. x \notin Meant(agreed) /\ (x[2] \in Inner => <<folder, Dir>> \notin Meant(agreed))
        BY <3>1, HiddenEntries, FilesAreContent DEF SyncTypeOK
      <4>3. CASE x = e
        BY <2>2, <2>4, <3>2, <4>2, <4>3
      <4>4. CASE x[2] \in Inner /\ e = <<folder, Dir>>
        <5>1. x \in Under(e)
          BY <4>4, FilesAreContent DEF FilesOf, Under, IsDir
        <5> QED
          BY <2>2, <2>4, <3>2, <4>2, <4>4, <5>1
      <4> QED
        BY <2>2, <2>4, <4>1, <4>3, <4>4
    <3> QED
      BY <2>2, <2>3, <2>4, <3>1, <3>3, <3>4, <3>5, <3>6 DEF Walked
  <2> QED
    BY <2>2, <2>3, <2>4 DEF Walked
<1>12. CASE WalkDone
  <2>1. CASE "raced" \in trouble
    BY <1>12, <2>1 DEF WalkDone, SyncInv, Begun
  <2>2. CASE "raced" \notin trouble
    BY <1>12, <2>2 DEF WalkDone, SyncInv, Begun, PathIn, Walked, Uploading
  <2> QED
    BY <2>1, <2>2
<1>13. ASSUME NEW e \in tree, PublishFile(e) PROVE SyncInv'
  <2>1. SUFFICES ASSUME "raced" \notin trouble' PROVE PathIn' /\ Walked' /\ Uploading'
    BY <1>13 DEF PublishFile, SyncInv, Begun
  <2>2. /\ "raced" \notin trouble /\ syncpc = "send" /\ syncpc' = "send" /\ UNCHANGED <<folder, shun>>
        /\ tree' \subseteq tree
        /\ uploaded' = uploaded \/ (uploaded' = uploaded \cup {e} /\ ~IsDir(e))
        /\ trouble' = {} => trouble = {} /\ tree' = tree \ {e} /\ (IsDir(e) \/ uploaded' = uploaded \cup {e})
    BY <1>13, <2>1 DEF PublishFile
  <2>3. e \in Content(folder) \ Hidden(shun)
    BY <2>2 DEF SyncInv, Uploading
  <2>4. ~IsDir(e) => e \in FilesOf(folder)
    BY <2>3, UnderFolder
  <2>5. IsDir(e) => e \notin FilesOf(folder)
    BY FilesAreContent
  <2>6. Uploading'
    BY <2>2, <2>3, <2>4, <2>5 DEF SyncInv, Uploading
  <2> QED
    BY <2>2, <2>6 DEF PathIn, Walked
<1>14. CASE SyncDone
  BY <1>14 DEF SyncDone, SyncInv, Begun, PathIn, Walked, Uploading
<1> QED
  BY <1>1, <1>2, <1>3, <1>4, <1>5, <1>6, <1>7, <1>8, <1>9, <1>10, <1>11, <1>12, <1>13, <1>14
     DEF SyncNext, Info, Sync

LEMMA SyncInvariant == SyncSpec => [](SyncTypeOK /\ ListAgrees /\ SyncInv)
<1>1. SyncInit => ListAgrees /\ SyncInv
  BY DEF SyncInit, ListAgrees, SyncInv, Begun, PathIn, Walked, Uploading, Meant, NoRequest
<1>2. SyncTypeOK /\ ListAgrees /\ SyncInv /\ [SyncNext]_syncVars => (SyncTypeOK /\ ListAgrees /\ SyncInv)'
  BY SyncTypeStep, ListStep, SyncInvStep
<1> QED
  BY <1>1, <1>2, SyncInitTypes, PTL DEF SyncSpec

(* Nothing of another folder, and nothing that the last tree-info request   *)
(* asked to ignore, is uploaded by sync_files, whatever list and folder     *)
(* earlier requests left, unless a request met it.                          *)
THEOREM SynchronisationsKeepOut == SyncSpec => []NothingElseIsSent
<1>1. SyncInv => NothingElseIsSent
  BY DEF SyncInv, Uploading, NothingElseIsSent
<1> QED
  BY <1>1, SyncInvariant, PTL

(* A synchronisation that met no trouble is complete at its end.            *)
THEOREM SynchronisationsAreWhole == SyncSpec => []SyncIsWhole
<1>1. SyncInv => SyncIsWhole
  <2> SUFFICES ASSUME SyncInv, syncpc = "send", tree = {}, trouble = {}
               PROVE  uploaded = FilesOf(folder) \ Hidden(shun)
    BY DEF SyncIsWhole
  <2> QED
    BY DEF SyncInv, Uploading
<1> QED
  BY <1>1, SyncInvariant, PTL
==============================================================================
