---------------------------- MODULE ReasonSignal ----------------------------
(***************************************************************************)
(* freeze::atomic_sync_reason (service_dep.h), the signal every thread of  *)
(* the service uses to wake the SleepThread: an atomic long, a             *)
(* compare-and-swap loop on the side of the posters and an atomic wait     *)
(* followed by an exchange on the side of the single consumer.             *)
(*                                                                         *)
(* posted and taken are history variables: they record the successful      *)
(* compare-and-swaps and the results of the exchanges.                     *)
(***************************************************************************)
EXTENDS Naturals, Sequences, FiniteSets

CONSTANTS
  Posters,        \* threads that call notify_reason
  Reasons,        \* the reasons they post
  None,           \* sync_reason_none__reason
  MaxPosts        \* bound: how many posts a run begins

ASSUME NoneIsNoReason == None \notin Reasons
ASSUME MaxPostsIsNat == MaxPosts \in Nat

VARIABLES
  slot,           \* _reason
  ppc,            \* where each poster is in notify_reason
  preason,        \* the argument of its call
  wpc,            \* where the consumer is in its loop around wait_reason
  begun,          \* number of notify_reason calls so far
  posted, taken

vars == <<slot, ppc, preason, wpc, begun, posted, taken>>

Init ==
  /\ slot = None
  /\ ppc = [p \in Posters |-> "idle"]
  /\ preason = [p \in Posters |-> None]
  /\ wpc = "check"
  /\ begun = 0
  /\ posted = << >>
  /\ taken = << >>

(* A slip used to check that the property bites. *)
ExchangeKept == \* the reason is read but not reset
  /\ wpc = "exchange" /\ taken' = Append(taken, slot) /\ wpc' = "handle"
  /\ UNCHANGED <<slot, ppc, preason, begun, posted>>

-----------------------------------------------------------------------------
(* notify_reason *)

(* The call: the poster enters the compare-and-swap loop of until_wait. *)
NotifyReason(p, r) ==
  /\ ppc[p] = "idle"
  /\ begun < MaxPosts
  /\ begun' = begun + 1
  /\ ppc' = [ppc EXCEPT ![p] = "cas"]
  /\ preason' = [preason EXCEPT ![p] = r]
  /\ UNCHANGED <<slot, wpc, posted, taken>>

(* An iteration of until_wait that succeeds; one that fails changes nothing. *)
UntilWait(p) ==
  /\ ppc[p] = "cas"
  /\ slot = None
  /\ slot' = preason[p]
  /\ posted' = Append(posted, preason[p])
  /\ ppc' = [ppc EXCEPT ![p] = "notify"]
  /\ UNCHANGED <<preason, wpc, begun, taken>>

(* notify_one, and the return whose value no caller uses. *)
NotifyOne(p) ==
  /\ ppc[p] = "notify"
  /\ ppc' = [ppc EXCEPT ![p] = "idle"]
  /\ wpc' = IF wpc = "blocked" THEN "check" ELSE wpc
  /\ UNCHANGED <<slot, preason, begun, posted, taken>>

-----------------------------------------------------------------------------
(* wait_reason *)

(* _reason.wait(none) compares and blocks in one step ... *)
WaitCheck ==
  /\ wpc = "check"
  /\ wpc' = IF slot = None THEN "blocked" ELSE "exchange"
  /\ UNCHANGED <<slot, ppc, preason, begun, posted, taken>>

(* ... and may be unblocked without a notification. *)
SpuriousWake ==
  /\ wpc = "blocked"
  /\ wpc' = "check"
  /\ UNCHANGED <<slot, ppc, preason, begun, posted, taken>>

(* reset(): the exchange whose old value wait_reason returns. *)
Exchange ==
  /\ wpc = "exchange"
  /\ taken' = Append(taken, slot)
  /\ slot' = None
  /\ wpc' = "handle"
  /\ UNCHANGED <<ppc, preason, begun, posted>>

(* The consumer has dealt with the reason and waits again. *)
Handled ==
  /\ wpc = "handle"
  /\ wpc' = "check"
  /\ UNCHANGED <<slot, ppc, preason, begun, posted, taken>>

-----------------------------------------------------------------------------
Poster(p) == \/ \E r \in Reasons : NotifyReason(p, r)
             \/ UntilWait(p)
             \/ NotifyOne(p)

Consumer == WaitCheck \/ Exchange \/ Handled

Next == \/ \E p \in Posters : Poster(p)
        \/ Consumer
        \/ SpuriousWake

Spec == Init /\ [][Next]_vars

(* The consumer and a poster that has stored its reason run on, as threads  *)
(* that do not block do; nothing is assumed of a poster that is still       *)
(* spinning, nor of the spurious wake-ups.                                  *)
FairSpec ==
  /\ Spec
  /\ WF_vars(Consumer)
  /\ \A p \in Posters : WF_vars(NotifyOne(p))

-----------------------------------------------------------------------------
TypeOK ==
  /\ slot \in Reasons \cup {None}
  /\ ppc \in [Posters -> {"idle", "cas", "notify"}]
  /\ preason \in [Posters -> Reasons \cup {None}]
  /\ \A p \in Posters : ppc[p] # "idle" => preason[p] \in Reasons
  /\ wpc \in {"check", "blocked", "exchange", "handle"}
  /\ begun \in 0..MaxPosts
  /\ posted \in Seq(Reasons)
  /\ taken \in Seq(Reasons)

(* No reason is lost, duplicated, reordered or overwritten: the reasons     *)
(* stored by notify_reason are those wait_reason has returned, followed by  *)
(* the one still in the slot.                                               *)
ExactlyOnce == posted = IF slot = None THEN taken ELSE Append(taken, slot)

(* wait_reason never blocks on a full slot unless the notify_one that wakes *)
(* it is still to come: the wake-up cannot be lost between the store and    *)
(* the notification, nor between the comparison and the block.              *)
NoLostWakeup == (wpc = "blocked" /\ slot # None) => \E p \in Posters : ppc[p] = "notify"

Box == INSTANCE Mailbox WITH Reasons <- Reasons, posted <- posted, taken <- taken

(* The signal implements the one-slot mailbox, and fairly: a stored reason  *)
(* is taken, the SleepThread cannot sleep on it.                            *)
ImplementsMailbox == Box!FairSpec
==============================================================================
