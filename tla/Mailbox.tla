------------------------------- MODULE Mailbox -------------------------------
(***************************************************************************)
(* What the service's threads expect of the global reason signal: a        *)
(* mailbox with one slot.  A reason that was accepted is taken exactly     *)
(* once, in the order of acceptance, and nothing is accepted before the    *)
(* previous reason has been taken.                                         *)
(***************************************************************************)
EXTENDS Sequences

CONSTANT Reasons  \* what may be put in the mailbox

VARIABLES
  posted,         \* the reasons accepted so far, oldest first
  taken           \* the reasons handed to the consumer so far, oldest first

mvars == <<posted, taken>>

Init == /\ posted = << >>
        /\ taken = << >>

Post(r) == /\ posted = taken
           /\ posted' = Append(posted, r)
           /\ UNCHANGED taken

Take == /\ posted # taken
        /\ taken' = posted
        /\ UNCHANGED posted

Next == \/ \E r \in Reasons : Post(r)
        \/ Take

Spec == Init /\ [][Next]_mvars

(* The consumer keeps coming back for what was accepted. *)
FairSpec == Spec /\ WF_mvars(Take)
==============================================================================
