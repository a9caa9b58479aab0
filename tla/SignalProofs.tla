---------------------------- MODULE SignalProofs ----------------------------
(***************************************************************************)
(* The theorems of the service's two signals, for any number of threads    *)
(* and calls: WakeFlag, which drives each of the client's threads, and     *)
(* ReasonSignal, which wakes the SleepThread with a reason.                *)
(*                                                                         *)
(* The bound on the flag's unrequested handlings is proved by an account:  *)
(* every request and every stop pays for one token, which is the raised    *)
(* flag, the worker between its clear and its test, or the raise that      *)
(* stop_threads still owes; a handling consumes one.                       *)
(*                                                                         *)
(* The invariants of the reason signal need one another: the exchange      *)
(* keeps the types only because the slot is full when it happens, and the  *)
(* slot is full because nobody but the consumer empties it.                *)
(*                                                                         *)
(* Of both: who is awaited is woken, and has a few steps to go, which      *)
(* nobody adds to.                                                         *)
(***************************************************************************)
EXTENDS WakeFlag, Sequences, TLAPS

CONSTANTS Posters, Reasons, None, MaxPosts
VARIABLES slot, ppc, preason, cpc, begun, posted, taken

Signal == INSTANCE ReasonSignal WITH wpc <- cpc
Box == INSTANCE Mailbox

-----------------------------------------------------------------------------
(* The wake flag. *)
One(b) == IF b THEN 1 ELSE 0

TokensPaid ==
  handled + One(flag) + One(wpc = "test") + One(opc = "set") <= requests + stops

(* The worker clears only a flag it saw raised, and nobody else lowers it.  *)
ClearsRaised == wpc = "clear" => flag

Safe == NoLostRequest /\ NoLostWakeup /\ ClearsRaised /\ NoThreadLeftBehind

IInv == TypeOK /\ Safe /\ TokensPaid

USE DEF One

LEMMA InitIInv == Init => IInv
<1> SUFFICES ASSUME Init PROVE IInv
  OBVIOUS
<1> USE DEF NoLostRequest, NoLostWakeup, ClearsRaised, NoThreadLeftBehind
<1>1. TypeOK
  <2>1. requests \in 0..MaxRequests /\ handled \in Nat /\ stops \in 0..MaxStops
    BY BoundsAreNat DEF Init
  <2>2. opc \in {"set", "notify", "join"} => ~running
    BY DEF Init
  <2> QED
    BY <2>1, <2>2 DEF Init, TypeOK
<1>2. Safe
  BY DEF Init, Safe
<1>3. TokensPaid
  BY DEF Init, TokensPaid
<1> QED
  BY <1>1, <1>2, <1>3 DEF IInv

LEMMA RequesterKeeps ==
  ASSUME IInv, NEW r \in Requesters, Requester(r)
  PROVE  IInv'
<1> USE DEF NoLostRequest, NoLostWakeup, ClearsRaised, NoThreadLeftBehind
<1>1. CASE Request(r)
  <2>1. TypeOK'
    BY <1>1, BoundsAreNat DEF IInv, TypeOK, Request
  <2>2. Safe'
    BY <1>1 DEF IInv, TypeOK, Safe, Request
  <2>3. TokensPaid'
    BY <1>1, BoundsAreNat DEF IInv, TypeOK, TokensPaid, Request
  <2> QED
    BY <2>1, <2>2, <2>3 DEF IInv
<1>2. CASE RequestNotify(r)
  <2>1. TypeOK'
    BY <1>2 DEF IInv, TypeOK, RequestNotify, Unblock
  <2>2. Safe'
    BY <1>2 DEF IInv, TypeOK, Safe, RequestNotify, Unblock
  <2>3. TokensPaid'
    BY <1>2 DEF IInv, TypeOK, TokensPaid, RequestNotify, Unblock
  <2> QED
    BY <2>1, <2>2, <2>3 DEF IInv
<1> QED
  BY <1>1, <1>2 DEF Requester

LEMMA OwnerKeeps ==
  ASSUME IInv, Owner \/ \E again \in BOOLEAN : StopBegin(again)
  PROVE  IInv'
<1> USE DEF NoLostRequest, NoLostWakeup, ClearsRaised, NoThreadLeftBehind
<1>1. ASSUME NEW again \in BOOLEAN, StopBegin(again)
      PROVE IInv'
  <2>1. TypeOK'
    <3>1. stops' \in 0..MaxStops
      BY <1>1, BoundsAreNat DEF IInv, TypeOK, StopBegin
    <3> QED
      BY <1>1, <3>1 DEF IInv, TypeOK, StopBegin
  <2>2. Safe'
    BY <1>1 DEF IInv, TypeOK, Safe, StopBegin
  <2>3. TokensPaid'
    BY <1>1, BoundsAreNat DEF IInv, TypeOK, TokensPaid, StopBegin
  <2> QED
    BY <2>1, <2>2, <2>3 DEF IInv
<1>2. CASE StopSet
  <2>1. TypeOK'
    BY <1>2, BoundsAreNat DEF IInv, TypeOK, StopSet
  <2>2. Safe'
    BY <1>2 DEF IInv, TypeOK, Safe, StopSet
  <2>3. TokensPaid'
    BY <1>2, BoundsAreNat DEF IInv, TypeOK, Safe, TokensPaid, StopSet
  <2> QED
    BY <2>1, <2>2, <2>3 DEF IInv
<1>3. CASE StopNotify
  <2>1. TypeOK'
    BY <1>3, BoundsAreNat DEF IInv, TypeOK, StopNotify, Unblock
  <2>2. Safe'
    BY <1>3 DEF IInv, TypeOK, Safe, StopNotify, Unblock
  <2>3. TokensPaid'
    BY <1>3, BoundsAreNat DEF IInv, TypeOK, Safe, TokensPaid, StopNotify, Unblock
  <2> QED
    BY <2>1, <2>2, <2>3 DEF IInv
<1>4. CASE StopJoin
  <2>1. TypeOK'
    BY <1>4, BoundsAreNat DEF IInv, TypeOK, StopJoin
  <2>2. Safe'
    BY <1>4 DEF IInv, TypeOK, Safe, StopJoin
  <2>3. TokensPaid'
    BY <1>4, BoundsAreNat DEF IInv, TypeOK, Safe, TokensPaid, StopJoin
  <2> QED
    BY <2>1, <2>2, <2>3 DEF IInv
<1>5. CASE Start
  <2>1. TypeOK'
    BY <1>5, BoundsAreNat DEF IInv, TypeOK, Start
  <2>2. Safe'
    <3>1. CASE restart
      <4>1. wpc' = "check" /\ wpc # "test" => UNCHANGED <<flag, pending>>
        BY <1>5 DEF Start
      <4>2. wpc' = "check"
        BY <1>5, <3>1 DEF Start
      <4>3. pending' => flag' \/ wpc' = "test"
        BY <1>5, <4>1, <4>2 DEF IInv, Safe, Start
      <4> QED
        BY <1>5, <3>1, <4>2, <4>3 DEF Start, Safe
    <3>2. CASE ~restart
      <4>1. UNCHANGED <<wpc, flag, pending, rpc>> /\ opc # "notify"
        BY <1>5, <3>2 DEF Start
      <4>2. NoLostWakeup'
        BY <4>1 DEF IInv, Safe
      <4> QED
        BY <1>5, <4>1, <4>2 DEF Start, IInv, Safe
    <3> QED
      BY <3>1, <3>2
  <2>3. TokensPaid'
    BY <1>5, BoundsAreNat DEF IInv, TypeOK, Safe, TokensPaid, Start
  <2> QED
    BY <2>1, <2>2, <2>3 DEF IInv
<1> QED
  BY <1>1, <1>2, <1>3, <1>4, <1>5 DEF Owner

LEMMA WorkerKeeps ==
  ASSUME IInv, Worker \/ SpuriousWake
  PROVE  IInv'
<1> USE DEF NoLostRequest, NoLostWakeup, ClearsRaised, NoThreadLeftBehind
<1>1. CASE WaitCheck
  <2>1. TypeOK'
    BY <1>1, BoundsAreNat DEF IInv, TypeOK, WaitCheck
  <2>2. Safe'
    BY <1>1 DEF IInv, TypeOK, Safe, WaitCheck
  <2>3. TokensPaid'
    BY <1>1, BoundsAreNat DEF IInv, TypeOK, Safe, TokensPaid, WaitCheck
  <2> QED
    BY <2>1, <2>2, <2>3 DEF IInv
<1>2. CASE Clear
  <2>1. TypeOK'
    BY <1>2, BoundsAreNat DEF IInv, TypeOK, Clear
  <2>2. Safe'
    BY <1>2 DEF IInv, TypeOK, Safe, Clear
  <2>3. TokensPaid'
    BY <1>2, BoundsAreNat DEF IInv, TypeOK, Safe, TokensPaid, Clear
  <2> QED
    BY <2>1, <2>2, <2>3 DEF IInv
<1>3. CASE TestRunning
  <2>1. TypeOK'
    <3>1. handled' \in Nat
      BY <1>3 DEF IInv, TypeOK, TestRunning
    <3> QED
      BY <1>3, <3>1 DEF IInv, TypeOK, TestRunning
  <2>2. Safe'
    BY <1>3 DEF IInv, TypeOK, Safe, TestRunning
  <2>3. TokensPaid'
    BY <1>3, BoundsAreNat DEF IInv, TypeOK, Safe, TokensPaid, TestRunning
  <2> QED
    BY <2>1, <2>2, <2>3 DEF IInv
<1>4. CASE WorkDone
  <2>1. TypeOK'
    BY <1>4, BoundsAreNat DEF IInv, TypeOK, WorkDone
  <2>2. Safe'
    BY <1>4 DEF IInv, TypeOK, Safe, WorkDone
  <2>3. TokensPaid'
    BY <1>4, BoundsAreNat DEF IInv, TypeOK, Safe, TokensPaid, WorkDone
  <2> QED
    BY <2>1, <2>2, <2>3 DEF IInv
<1>5. CASE SpuriousWake
  <2>1. TypeOK'
    BY <1>5, BoundsAreNat DEF IInv, TypeOK, SpuriousWake
  <2>2. Safe'
    BY <1>5 DEF IInv, TypeOK, Safe, SpuriousWake
  <2>3. TokensPaid'
    BY <1>5, BoundsAreNat DEF IInv, TypeOK, Safe, TokensPaid, SpuriousWake
  <2> QED
    BY <2>1, <2>2, <2>3 DEF IInv
<1> QED
  BY <1>1, <1>2, <1>3, <1>4, <1>5 DEF Worker

LEMMA IInvHolds == Spec => []IInv
<1> USE DEF NoLostRequest, NoLostWakeup, ClearsRaised, NoThreadLeftBehind
<1>1. ASSUME IInv, [Next]_vars
      PROVE  IInv'
  <2>1. CASE UNCHANGED vars
    BY <1>1, <2>1 DEF IInv, TypeOK, Safe, TokensPaid, vars
  <2> QED
    BY <1>1, <2>1, RequesterKeeps, OwnerKeeps, WorkerKeeps DEF Next
<1> QED
  BY InitIInv, <1>1, PTL DEF Spec

(* The flag's state keeps its types, and stop_threads wakes a thread only   *)
(* after lowering its running flag.                                         *)
THEOREM TypeCorrect == Spec => []TypeOK
  BY IInvHolds, PTL DEF IInv

(* No request stored before a clear is swallowed by it. *)
THEOREM RequestsAreNotLost == Spec => []NoLostRequest
  BY IInvHolds, PTL DEF IInv, Safe

(* The worker never sleeps on a raised flag without a notification to come. *)
THEOREM WakeupsAreNotLost == Spec => []NoLostWakeup
  BY IInvHolds, PTL DEF IInv, Safe

(* A thread is never assigned over one that was not joined. *)
THEOREM ThreadsAreJoined == Spec => []NoThreadLeftBehind
  BY IInvHolds, PTL DEF IInv, Safe

(* Handlings nobody asked for are at most as many as the stops. *)
THEOREM SpuriousWorkIsBounded == Spec => []SpuriousWorkBounded
<1>1. IInv => SpuriousWorkBounded
  BY BoundsAreNat DEF IInv, TypeOK, TokensPaid, SpuriousWorkBounded
<1> QED
  BY <1>1, IInvHolds, PTL

(* Who waits for the worker: the owner in the join of stop_threads, and a   *)
(* request whose thread is to run on.                                       *)
Awaited == opc = "join" \/ (pending /\ running /\ wpc # "none")

(* The steps of the worker up to its exit, or to the handler.               *)
WorkerLeft(pc) ==
  CASE pc \in {"blocked", "work"} -> 4
    [] pc = "check"               -> 3
    [] pc = "clear"               -> 2
    [] pc = "test"                -> 1
    [] OTHER                      -> 0

WorkerComes ==
  [][Awaited /\ Awaited' => /\ WorkerLeft(wpc') <= WorkerLeft(wpc)
                            /\ Worker => WorkerLeft(wpc') < WorkerLeft(wpc)]_vars

(* The awaited worker finds the flag up, or has seen it, and if it blocks   *)
(* a notification is under way; in a join it blocks no more.                *)
AwaitedIsHeard ==
  /\ opc = "join" => ~running /\ wpc # "blocked" /\ (wpc \in {"check", "clear", "work"} => flag)
  /\ pending /\ running /\ wpc # "none" =>
       /\ wpc # "exited"
       /\ wpc # "test" => flag
       /\ wpc = "blocked" => \E r \in Requesters : rpc[r] = "notify"

(* From the moment the stop has raised the flag nothing but the worker's    *)
(* own clear, behind which it finds running lowered, takes it down.         *)
StopHeard ==
  /\ opc \in {"notify", "join"} /\ wpc \in {"check", "blocked", "work", "clear"} => flag
  /\ opc = "join" => wpc # "blocked"
  /\ wpc = "exited" => ~running

LEMMA StopHeardStep == TypeOK /\ StopHeard /\ [Next]_vars => StopHeard'
<1> SUFFICES ASSUME TypeOK, StopHeard, [Next]_vars PROVE StopHeard'
  OBVIOUS
<1> USE DEF StopHeard
<1>1. ASSUME NEW r \in Requesters, Requester(r) PROVE StopHeard'
  <2>1. CASE Request(r)
    BY <2>1 DEF Request
  <2>2. CASE RequestNotify(r)
    BY <2>2 DEF RequestNotify, Unblock
  <2> QED
    BY <1>1, <2>1, <2>2 DEF Requester
<1>2. ASSUME NEW again \in BOOLEAN, StopBegin(again) PROVE StopHeard'
  BY <1>2 DEF StopBegin
<1>3. CASE StopSet
  BY <1>3 DEF StopSet
<1>4. CASE StopNotify
  BY <1>4 DEF StopNotify, Unblock
<1>5. CASE StopJoin
  BY <1>5 DEF StopJoin
<1>6. CASE Start
  BY <1>6 DEF Start
<1>7. CASE WaitCheck
  BY <1>7 DEF WaitCheck
<1>8. CASE SpuriousWake
  BY <1>8 DEF SpuriousWake
<1>9. CASE Clear
  BY <1>9 DEF Clear
<1>10. CASE TestRunning
  BY <1>10 DEF TestRunning, TypeOK
<1>11. CASE WorkDone
  BY <1>11 DEF WorkDone
<1>12. CASE UNCHANGED vars
  BY <1>12 DEF vars
<1> QED
  BY <1>1, <1>2, <1>3, <1>4, <1>5, <1>6, <1>7, <1>8, <1>9, <1>10, <1>11, <1>12 DEF Next, Owner, Worker

LEMMA WorkerComesStep ==
  ASSUME IInv, StopHeard, Next, Awaited, Awaited'
  PROVE  WorkerLeft(wpc') <= WorkerLeft(wpc) /\ (Worker => WorkerLeft(wpc') < WorkerLeft(wpc))
<1>0. WorkerLeft(wpc) \in Nat
  BY DEF WorkerLeft
<1>1. CASE Worker
  <2>1. CASE WaitCheck
    <3>1. flag
      BY <2>1 DEF WaitCheck, Awaited, StopHeard, IInv, Safe, NoLostRequest
    <3> QED
      BY <2>1, <3>1 DEF WaitCheck, WorkerLeft
  <2>2. CASE Clear
    BY <2>2 DEF Clear, WorkerLeft
  <2>3. CASE TestRunning
    <3>1. ~running /\ wpc' = "exited" /\ wpc = "test"
      BY <2>3 DEF TestRunning, Awaited, IInv, TypeOK
    <3> QED
      BY <3>1 DEF WorkerLeft
  <2>4. CASE WorkDone
    BY <2>4 DEF WorkDone, WorkerLeft
  <2> QED
    BY <1>1, <2>1, <2>2, <2>3, <2>4 DEF Worker
<1>2. CASE wpc' = wpc /\ ~Worker
  BY <1>0, <1>2
<1>3. CASE wpc = "blocked" /\ wpc' = "check" /\ ~Worker
  BY <1>3 DEF WorkerLeft
<1>4. ASSUME NEW r \in Requesters, Requester(r) PROVE wpc' = wpc \/ (wpc = "blocked" /\ wpc' = "check")
  BY <1>4 DEF Requester, Request, RequestNotify, Unblock
<1>5. Owner => wpc' = wpc \/ (wpc = "blocked" /\ wpc' = "check")
  <2>1. Start => FALSE
    BY DEF Start, Awaited, IInv, Safe, NoThreadLeftBehind, StopHeard
  <2> QED
    BY <2>1 DEF Owner, StopSet, StopNotify, StopJoin, Unblock
<1>6. ASSUME NEW again \in BOOLEAN, StopBegin(again) PROVE wpc' = wpc
  BY <1>6 DEF StopBegin
<1>7. SpuriousWake => wpc = "blocked" /\ wpc' = "check"
  BY DEF SpuriousWake
<1> QED
  BY <1>1, <1>2, <1>3, <1>4, <1>5, <1>6, <1>7 DEF Next

(* stop_threads never joins a thread that sleeps on, and no request waits   *)
(* for a thread that nobody will wake: as long as one is awaited every step *)
(* of the worker brings it closer to its exit, or to the handler, four at   *)
(* most, and no request, notification or stop takes it further away.        *)
THEOREM AwaitedWorkerComes == Spec => []AwaitedIsHeard /\ WorkerComes
<1>1. Init => StopHeard
  BY DEF Init, StopHeard
<1>2. IInv /\ StopHeard => AwaitedIsHeard
  <2> SUFFICES ASSUME IInv, StopHeard PROVE AwaitedIsHeard
    OBVIOUS
  <2>1. opc = "join" => ~running /\ wpc # "blocked" /\ (wpc \in {"check", "clear", "work"} => flag)
    BY DEF IInv, TypeOK, StopHeard
  <2>2. ASSUME pending, running, wpc # "none"
        PROVE  wpc # "exited" /\ (wpc # "test" => flag)
    BY <2>2 DEF IInv, Safe, NoLostRequest, StopHeard
  <2>3. ASSUME pending, running, wpc = "blocked"
        PROVE  \E r \in Requesters : rpc[r] = "notify"
    BY <2>3 DEF IInv, TypeOK, Safe, NoLostRequest, NoLostWakeup
  <2> QED
    BY <2>1, <2>2, <2>3 DEF AwaitedIsHeard
<1>3. IInv /\ StopHeard /\ [Next]_vars =>
        [Awaited /\ Awaited' => /\ WorkerLeft(wpc') <= WorkerLeft(wpc)
                                /\ Worker => WorkerLeft(wpc') < WorkerLeft(wpc)]_vars
  BY WorkerComesStep
<1>4. IInv => TypeOK
  BY DEF IInv
<1> QED
  BY <1>1, <1>2, <1>3, <1>4, StopHeardStep, IInvHolds, PTL DEF Spec, WorkerComes

-----------------------------------------------------------------------------
(* The reason signal.  Its theorems state the assumptions of its module as  *)
(* a hypothesis, which an instance does not hand on.                        *)
SlotBounds == None \notin Reasons /\ MaxPosts \in Nat

(* Between the return of the atomic wait and the exchange the slot stays    *)
(* full, so that wait_reason never returns sync_reason_none__reason.        *)
NeverReturnsNone == cpc = "exchange" => slot # None

(* The four invariants together. *)
SlotInv == SlotBounds /\ Signal!TypeOK /\ Signal!ExactlyOnce /\ Signal!NoLostWakeup /\ NeverReturnsNone

LEMMA InitSlotInv ==
  ASSUME SlotBounds, Signal!Init
  PROVE  SlotInv
  BY DEF SlotBounds, Signal!Init, SlotInv, Signal!TypeOK, Signal!ExactlyOnce, Signal!NoLostWakeup, NeverReturnsNone

(* A store appends to what was taken before: the slot was empty. *)
LEMMA UntilWaitKeeps ==
  ASSUME SlotInv, NEW p \in Posters, Signal!UntilWait(p)
  PROVE  SlotInv'
<1>1. preason[p] \in Reasons
  BY DEF SlotInv, Signal!TypeOK, Signal!UntilWait
<1>2. Signal!TypeOK'
  BY <1>1 DEF SlotInv, Signal!TypeOK, Signal!UntilWait
<1>3. Signal!ExactlyOnce'
  BY <1>1 DEF SlotInv, SlotBounds, Signal!TypeOK, Signal!ExactlyOnce, Signal!UntilWait
<1>4. Signal!NoLostWakeup'
  BY DEF SlotInv, Signal!TypeOK, Signal!NoLostWakeup, Signal!UntilWait
<1>5. NeverReturnsNone'
  BY <1>1 DEF SlotInv, SlotBounds, NeverReturnsNone, Signal!UntilWait
<1> QED
  BY <1>2, <1>3, <1>4, <1>5 DEF SlotInv, SlotBounds

(* A notification frees the consumer, so none has to be pending after it. *)
LEMMA NotifyOneKeeps ==
  ASSUME SlotInv, NEW p \in Posters, Signal!NotifyOne(p)
  PROVE  SlotInv'
<1>1. Signal!TypeOK'
  BY DEF SlotInv, Signal!TypeOK, Signal!NotifyOne
<1>2. Signal!ExactlyOnce'
  BY DEF SlotInv, Signal!ExactlyOnce, Signal!NotifyOne
<1>3. Signal!NoLostWakeup'
  BY DEF SlotInv, Signal!TypeOK, Signal!NoLostWakeup, Signal!NotifyOne
<1>4. NeverReturnsNone'
  BY DEF SlotInv, NeverReturnsNone, Signal!NotifyOne
<1> QED
  BY <1>1, <1>2, <1>3, <1>4 DEF SlotInv, SlotBounds

(* The exchange finds the slot full and moves what it holds. *)
LEMMA ExchangeKeeps ==
  ASSUME SlotInv, Signal!Exchange
  PROVE  SlotInv'
<1>1. slot \in Reasons /\ slot # None
  BY DEF SlotInv, Signal!TypeOK, NeverReturnsNone, Signal!Exchange
<1>2. Signal!TypeOK'
  BY <1>1 DEF SlotInv, Signal!TypeOK, Signal!Exchange
<1>3. Signal!ExactlyOnce'
  BY <1>1 DEF SlotInv, Signal!ExactlyOnce, Signal!Exchange
<1>4. Signal!NoLostWakeup' /\ NeverReturnsNone'
  BY DEF Signal!NoLostWakeup, NeverReturnsNone, Signal!Exchange
<1> QED
  BY <1>2, <1>3, <1>4 DEF SlotInv, SlotBounds

LEMMA NextKeepsSlotInv ==
  ASSUME SlotInv, [Signal!Next]_Signal!vars
  PROVE  SlotInv'
<1>1. ASSUME NEW p \in Posters, NEW r \in Reasons, Signal!NotifyReason(p, r)
      PROVE SlotInv'
  <2>1. Signal!TypeOK'
    BY <1>1 DEF SlotInv, SlotBounds, Signal!TypeOK, Signal!NotifyReason
  <2>2. Signal!ExactlyOnce' /\ NeverReturnsNone'
    BY <1>1 DEF SlotInv, Signal!ExactlyOnce, NeverReturnsNone, Signal!NotifyReason
  <2>3. Signal!NoLostWakeup'
    BY <1>1 DEF SlotInv, Signal!TypeOK, Signal!NoLostWakeup, Signal!NotifyReason
  <2> QED
    BY <2>1, <2>2, <2>3 DEF SlotInv, SlotBounds
<1>2. ASSUME NEW p \in Posters, Signal!UntilWait(p)
      PROVE SlotInv'
  BY <1>2, UntilWaitKeeps
<1>3. ASSUME NEW p \in Posters, Signal!NotifyOne(p)
      PROVE SlotInv'
  BY <1>3, NotifyOneKeeps
<1>4. CASE Signal!WaitCheck
  BY <1>4 DEF SlotInv, SlotBounds, Signal!TypeOK, Signal!ExactlyOnce, Signal!NoLostWakeup, NeverReturnsNone, Signal!WaitCheck
<1>5. CASE Signal!Exchange
  BY <1>5, ExchangeKeeps
<1>6. CASE Signal!Handled
  BY <1>6 DEF SlotInv, SlotBounds, Signal!TypeOK, Signal!ExactlyOnce, Signal!NoLostWakeup, NeverReturnsNone, Signal!Handled
<1>7. CASE Signal!SpuriousWake
  BY <1>7 DEF SlotInv, Signal!TypeOK, Signal!ExactlyOnce, Signal!NoLostWakeup, NeverReturnsNone, Signal!SpuriousWake
<1>8. CASE UNCHANGED Signal!vars
  BY <1>8 DEF SlotInv, SlotBounds, Signal!TypeOK, Signal!ExactlyOnce, Signal!NoLostWakeup, NeverReturnsNone, Signal!vars
<1> QED
  BY <1>1, <1>2, <1>3, <1>4, <1>5, <1>6, <1>7, <1>8 DEF Signal!Next, Signal!Poster, Signal!Consumer

LEMMA SlotInvHolds ==
  ASSUME SlotBounds
  PROVE  Signal!Spec => []SlotInv
  BY InitSlotInv, NextKeepsSlotInv, PTL DEF Signal!Spec

(* Every step of notify_reason and wait_reason keeps the types of the       *)
(* signal's state.                                                          *)
THEOREM SlotTypeCorrect ==
  ASSUME SlotBounds
  PROVE  Signal!Spec => []Signal!TypeOK
  BY SlotInvHolds, PTL DEF SlotInv

(* A reason notify_reason stored is returned by wait_reason exactly once,   *)
(* in the order of the stores.                                              *)
THEOREM StoredReasonsAreTakenOnce ==
  ASSUME SlotBounds
  PROVE  Signal!Spec => []Signal!ExactlyOnce
  BY SlotInvHolds, PTL DEF SlotInv

(* The consumer is never asleep on a full slot without a notification to    *)
(* come.                                                                    *)
THEOREM SlotWakeupsAreNotLost ==
  ASSUME SlotBounds
  PROVE  Signal!Spec => []Signal!NoLostWakeup
  BY SlotInvHolds, PTL DEF SlotInv

(* The steps of the SleepThread up to the exchange.                         *)
ConsumerLeft(pc) ==
  CASE pc \in {"blocked", "handle"} -> 3
    [] pc = "check"                 -> 2
    [] pc = "exchange"              -> 1
    [] OTHER                        -> 0

ConsumerComes ==
  [][slot # None /\ slot' # None => /\ ConsumerLeft(cpc') <= ConsumerLeft(cpc)
                                    /\ Signal!Consumer => ConsumerLeft(cpc') < ConsumerLeft(cpc)]_(Signal!vars)

(* As long as a reason is stored every step of the SleepThread brings it    *)
(* closer to the exchange, three at most, and no poster takes it further    *)
(* away; with SlotWakeupsAreNotLost it is woken where it has blocked.       *)
THEOREM StoredReasonIsReached ==
  ASSUME SlotBounds
  PROVE  Signal!Spec => ConsumerComes
<1>1. ASSUME Signal!Next, slot # None, slot' # None
      PROVE  /\ ConsumerLeft(cpc') <= ConsumerLeft(cpc)
             /\ Signal!Consumer => ConsumerLeft(cpc') < ConsumerLeft(cpc)
  <2>0. ConsumerLeft(cpc) \in Nat
    BY DEF ConsumerLeft
  <2>1. CASE Signal!Consumer
    <3>1. CASE Signal!WaitCheck
      BY <1>1, <3>1 DEF Signal!WaitCheck, ConsumerLeft
    <3>2. Signal!Exchange => FALSE
      BY <1>1 DEF Signal!Exchange
    <3>3. CASE Signal!Handled
      BY <3>3 DEF Signal!Handled, ConsumerLeft
    <3> QED
      BY <2>1, <3>1, <3>2, <3>3 DEF Signal!Consumer
  <2>2. CASE ~Signal!Consumer
    <3>1. cpc' = cpc \/ (cpc = "blocked" /\ cpc' = "check")
      BY <1>1, <2>2 DEF Signal!Next, Signal!Poster, Signal!NotifyReason, Signal!UntilWait,
                        Signal!NotifyOne, Signal!SpuriousWake
    <3> QED
      BY <2>0, <2>2, <3>1 DEF ConsumerLeft
  <2> QED
    BY <2>1, <2>2
<1>2. [Signal!Next]_(Signal!vars) =>
        [slot # None /\ slot' # None =>
           /\ ConsumerLeft(cpc') <= ConsumerLeft(cpc)
           /\ Signal!Consumer => ConsumerLeft(cpc') < ConsumerLeft(cpc)]_(Signal!vars)
  BY <1>1
<1> QED
  BY <1>2, PTL DEF Signal!Spec, ConsumerComes

(* wait_reason returns a reason, never sync_reason_none__reason. *)
THEOREM WaitReturnsAReason ==
  ASSUME SlotBounds
  PROVE  Signal!Spec => []NeverReturnsNone
  BY SlotInvHolds, PTL DEF SlotInv

(* Every step of the signal is a Post, a Take or a stuttering step of the   *)
(* mailbox: the compare-and-swap is the Post, the exchange is the Take.     *)
THEOREM SignalImplementsMailbox ==
  ASSUME SlotBounds
  PROVE  Signal!Spec => Box!Spec
<1>1. Signal!Init => Box!Init
  BY DEF Signal!Init, Box!Init
<1>2. ASSUME SlotInv, [Signal!Next]_Signal!vars
      PROVE  [Box!Next]_Box!mvars
  <2> USE DEF Box!mvars
  <2>1. ASSUME NEW p \in Posters, Signal!UntilWait(p)
        PROVE Box!Next
    <3>1. preason[p] \in Reasons
      BY <1>2, <2>1 DEF SlotInv, Signal!TypeOK, Signal!UntilWait
    <3>2. Box!Post(preason[p])
      BY <2>1, <1>2 DEF SlotInv, Signal!ExactlyOnce, Signal!UntilWait, Box!Post
    <3> QED
      BY <3>1, <3>2 DEF Box!Next
  <2>2. CASE Signal!Exchange
    <3>1. slot \in Reasons /\ slot # None
      BY <1>2, <2>2 DEF SlotInv, Signal!TypeOK, NeverReturnsNone, Signal!Exchange
    <3>2. posted = Append(taken, slot) /\ taken \in Seq(Reasons)
      BY <1>2, <3>1 DEF SlotInv, Signal!TypeOK, Signal!ExactlyOnce
    <3>3. posted # taken
      BY <3>1, <3>2
    <3>4. Box!Take
      BY <2>2, <3>2, <3>3 DEF Signal!Exchange, Box!Take
    <3> QED
      BY <3>4 DEF Box!Next
  <2>3. ASSUME NEW p \in Posters, \/ \E r \in Reasons : Signal!NotifyReason(p, r)
                                  \/ Signal!NotifyOne(p)
        PROVE UNCHANGED Box!mvars
    BY <2>3 DEF Signal!NotifyReason, Signal!NotifyOne
  <2>4. CASE Signal!WaitCheck \/ Signal!Handled \/ Signal!SpuriousWake \/ UNCHANGED Signal!vars
    BY <2>4 DEF Signal!WaitCheck, Signal!Handled, Signal!SpuriousWake, Signal!vars
  <2> QED
    BY <1>2, <2>1, <2>2, <2>3, <2>4 DEF Signal!Next, Signal!Poster, Signal!Consumer
<1> QED
  BY <1>1, <1>2, SlotInvHolds, PTL DEF Signal!Spec, Box!Spec
=============================================================================
