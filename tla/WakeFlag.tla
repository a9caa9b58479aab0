------------------------------ MODULE WakeFlag ------------------------------
(***************************************************************************)
(* freeze::atomic_sync (service_dep.h) and the life of one of the four     *)
(* threads nats_client drives with it: the notify_... calls that request   *)
(* work, the loop "wait, test running, handle" of the lambdas of           *)
(* init_threads, and stop_threads / init_threads on the side of the        *)
(* thread that connects or closes the client.                              *)
(*                                                                         *)
(* pending, requests, handled and stops are history variables.             *)
(***************************************************************************)
EXTENDS Naturals

CONSTANTS
  Requesters,     \* threads that call notify_message, notify_command, ...
  MaxRequests,    \* bound: requests in a run
  MaxStops        \* bound: calls of stop_threads in a run

ASSUME BoundsAreNat == MaxRequests \in Nat /\ MaxStops \in Nat

VARIABLES
  flag,           \* _flag of the signal
  running,        \* _msg_thread_running (or _cmd_, _pal_, _syn_)
  rpc,            \* where each requester is in notify()
  opc,            \* where the owner is in init_threads or stop_threads
  restart,        \* the owner is in init_threads (connect), not only in stop_threads (close)
  wpc,            \* where the worker thread is; "none" when no thread was ever started
  pending,        \* a request was stored that no handling has begun for
  requests, handled, stops

vars == <<flag, running, rpc, opc, restart, wpc, pending, requests, handled, stops>>

Init ==
  /\ flag = FALSE
  /\ running = TRUE             \* the member initialisers, before any thread exists
  /\ rpc = [r \in Requesters |-> "idle"]
  /\ opc = "idle"
  /\ restart = FALSE
  /\ wpc = "none"
  /\ pending = FALSE
  /\ requests = 0
  /\ handled = 0
  /\ stops = 0

(* notify_one: a worker blocked in wait compares again. *)
Unblock == wpc' = IF wpc = "blocked" THEN "check" ELSE wpc

(* Slips used to check that the properties bite. *)
RequestNotifyNobody(r) == \* the notification reaches no one
  /\ rpc[r] = "notify"
  /\ rpc' = [rpc EXCEPT ![r] = "idle"]
  /\ UNCHANGED <<flag, running, opc, restart, wpc, pending, requests, handled, stops>>

StopSetSkipped == \* the stop does not raise the flag
  /\ opc = "set" /\ opc' = "notify"
  /\ UNCHANGED <<flag, running, rpc, restart, wpc, pending, requests, handled, stops>>

StopJoinDetaches == \* the owner goes on without waiting for the exit
  /\ opc = "join" /\ opc' = "start"
  /\ UNCHANGED <<flag, running, rpc, restart, wpc, pending, requests, handled, stops>>

-----------------------------------------------------------------------------
(* notify() by a requester: test_and_set, then notify_one. *)

Request(r) ==
  /\ rpc[r] = "idle"
  /\ requests < MaxRequests
  /\ requests' = requests + 1
  /\ flag' = TRUE
  /\ pending' = TRUE
  /\ rpc' = [rpc EXCEPT ![r] = "notify"]
  /\ UNCHANGED <<running, opc, restart, wpc, handled, stops>>

RequestNotify(r) ==
  /\ rpc[r] = "notify"
  /\ rpc' = [rpc EXCEPT ![r] = "idle"]
  /\ Unblock
  /\ UNCHANGED <<flag, running, opc, restart, pending, requests, handled, stops>>

-----------------------------------------------------------------------------
(* stop_threads, and init_threads which calls it first.                     *)

(* if (running) running = false; a client already stopped skips the rest.   *)
StopBegin(again) ==
  /\ opc = "idle"
  /\ stops < MaxStops
  /\ stops' = stops + 1
  /\ restart' = again
  /\ opc' = IF running THEN "set" ELSE "start"
  /\ running' = FALSE
  /\ UNCHANGED <<flag, rpc, wpc, pending, requests, handled>>

StopSet ==
  /\ opc = "set"
  /\ flag' = TRUE
  /\ opc' = "notify"
  /\ UNCHANGED <<running, rpc, restart, wpc, pending, requests, handled, stops>>

StopNotify ==
  /\ opc = "notify"
  /\ opc' = "join"
  /\ Unblock
  /\ UNCHANGED <<flag, running, rpc, restart, pending, requests, handled, stops>>

(* joinable() is false before the first thread; join waits for the exit.    *)
StopJoin ==
  /\ opc = "join"
  /\ wpc \in {"none", "exited"}
  /\ opc' = "start"
  /\ UNCHANGED <<flag, running, rpc, restart, wpc, pending, requests, handled, stops>>

Start ==
  /\ opc = "start"
  /\ opc' = "idle"
  /\ running' = restart
  /\ wpc' = IF restart THEN "check" ELSE wpc
  /\ UNCHANGED <<flag, rpc, restart, pending, requests, handled, stops>>

-----------------------------------------------------------------------------
(* The worker thread. *)

(* _flag.wait(false) compares and blocks in one step. *)
WaitCheck ==
  /\ wpc = "check"
  /\ wpc' = IF flag THEN "clear" ELSE "blocked"
  /\ UNCHANGED <<flag, running, rpc, opc, restart, pending, requests, handled, stops>>

SpuriousWake ==
  /\ wpc = "blocked"
  /\ wpc' = "check"
  /\ UNCHANGED <<flag, running, rpc, opc, restart, pending, requests, handled, stops>>

(* _flag.clear(), a step of its own after the wait. *)
Clear ==
  /\ wpc = "clear"
  /\ flag' = FALSE
  /\ wpc' = "test"
  /\ UNCHANGED <<running, rpc, opc, restart, pending, requests, handled, stops>>

(* if (!running) break; otherwise the handler runs, for all stored requests. *)
TestRunning ==
  /\ wpc = "test"
  /\ pending' = FALSE
  /\ \/ /\ running
        /\ wpc' = "work"
        /\ handled' = handled + 1
     \/ /\ ~running
        /\ wpc' = "exited"
        /\ UNCHANGED handled
  /\ UNCHANGED <<flag, running, rpc, opc, restart, requests, stops>>

WorkDone ==
  /\ wpc = "work"
  /\ wpc' = "check"
  /\ UNCHANGED <<flag, running, rpc, opc, restart, pending, requests, handled, stops>>

-----------------------------------------------------------------------------
Requester(r) == Request(r) \/ RequestNotify(r)
Owner == StopSet \/ StopNotify \/ StopJoin \/ Start
Worker == WaitCheck \/ Clear \/ TestRunning \/ WorkDone

Next == \/ \E r \in Requesters : Requester(r)
        \/ \E again \in BOOLEAN : StopBegin(again)
        \/ Owner
        \/ Worker
        \/ SpuriousWake

Spec == Init /\ [][Next]_vars

(* Threads that are not blocked run on, and a handler returns. *)
FairSpec ==
  /\ Spec
  /\ WF_vars(Worker)
  /\ WF_vars(Owner)
  /\ \A r \in Requesters : WF_vars(RequestNotify(r))

-----------------------------------------------------------------------------
TypeOK ==
  /\ flag \in BOOLEAN
  /\ running \in BOOLEAN
  /\ rpc \in [Requesters -> {"idle", "notify"}]
  /\ opc \in {"idle", "set", "notify", "join", "start"}
  /\ restart \in BOOLEAN
  /\ wpc \in {"none", "check", "blocked", "clear", "test", "work", "exited"}
  /\ pending \in BOOLEAN
  /\ requests \in 0..MaxRequests
  /\ handled \in Nat
  /\ stops \in 0..MaxStops
  /\ opc \in {"set", "notify", "join"} => ~running  \* lowered before the worker is woken

(* The clear that follows the wait never swallows a request: as long as a   *)
(* request is without a handling (and was not abandoned by the exit of the  *)
(* thread) the flag is up, or the worker is between the clear and the       *)
(* handler that will find the request's data.                               *)
NoLostRequest == pending => flag \/ wpc = "test"

(* The worker never blocks on a raised flag unless a notify_one is to come. *)
NoLostWakeup ==
  (wpc = "blocked" /\ flag) => opc = "notify" \/ \E r \in Requesters : rpc[r] = "notify"

(* init_threads assigns a new std::thread, and close leaves the client, only *)
(* when the previous thread has been joined: assigning over a joinable      *)
(* thread would terminate the process.                                      *)
NoThreadLeftBehind ==
  (opc = "start" \/ (opc = "idle" /\ ~running)) => wpc \in {"none", "exited"}

(* A handler that nobody asked for runs at most once per stop: a flag that  *)
(* stop_threads raises for a thread that does not exist yet, or that is     *)
(* already on its way out, is seen by the thread started next.              *)
SpuriousWorkBounded == handled <= requests + stops

(* stop_threads comes back: the thread it joins always sees running=false.  *)
StopReturns == opc = "join" ~> opc # "join"

(* A request is handled unless the client's thread is told to exit.         *)
RequestServed == (pending /\ running /\ wpc # "none") ~> (~pending \/ ~running)
==============================================================================
