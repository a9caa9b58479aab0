---------------------------- MODULE ServiceStates ----------------------------
(***************************************************************************)
(* What the service promises to whoever watches it through the service     *)
(* manager: the states it goes through in one life, from the start to      *)
(* STOPPED.  ServiceControl implements it; ServiceSetup, the controller,   *)
(* relies on nothing else.                                                 *)
(*                                                                         *)
(* Nothing here must happen: a service may stay in any state, also in a    *)
(* pending one, for ever.                                                  *)
(***************************************************************************)
VARIABLES
  state,        \* the state the service manager knows
  told          \* the service has been told to stop

service == <<state, told>>

Init == state = "start_pending" /\ told = FALSE

(* The service gets to run, or gives up. *)
Start == /\ state = "start_pending"
         /\ state' \in {"running", "stop_pending", "stopped"}
         /\ UNCHANGED told

(* A service told to stop is neither paused nor continued any more. *)
Pauses == {<<"running", "pause_pending">>, <<"paused", "pause_pending">>, <<"pause_pending", "paused">>,
           <<"running", "continue_pending">>, <<"paused", "continue_pending">>,
           <<"continue_pending", "running">>}

Pause == /\ ~told
         /\ \E move \in Pauses : state = move[1] /\ state' = move[2]
         /\ UNCHANGED told

Tell == /\ state \in {"running", "paused"} /\ ~told
        /\ told' = TRUE
        /\ UNCHANGED state

(* It may stop before STOP_PENDING is reported, and never runs again. *)
Stop == /\ told
        /\ \/ state \in {"running", "paused"} /\ state' \in {"stop_pending", "stopped"}
           \/ state = "stop_pending" /\ state' = "stopped"
        /\ UNCHANGED told

Next == Start \/ Pause \/ Tell \/ Stop

Spec == Init /\ [][Next]_service
=============================================================================
