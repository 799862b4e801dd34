--------------------------- MODULE ResumablePass ---------------------------
(***************************************************************************)
(* What a checkpointed pass promises (internal/checkpoint/checkpoint.go,   *)
(* the comment on File): a unit is claimed only when its work is in the    *)
(* graph, a claim that was made durable is never lost, and work is never   *)
(* undone.  A crash may lose claims that were not durable yet.             *)
(*                                                                         *)
(* A claim is what a Record makes.  The text of a line that was torn may   *)
(* name any unit; what that does to a pass is told where it is modelled.   *)
(***************************************************************************)
CONSTANT Names

VARIABLES written,      \* the units whose work is in the graph
          claimed,      \* the units the checkpoint claims
          durable       \* the claims that survive anything

Init == written = {} /\ claimed = {} /\ durable = {}

Write ==
    /\ written' \in SUBSET Names
    /\ written \subseteq written'
    /\ UNCHANGED <<claimed, durable>>

Claim ==
    /\ claimed' \in SUBSET written
    /\ claimed \subseteq claimed'
    /\ UNCHANGED <<written, durable>>

MakeDurable ==
    /\ durable' = claimed
    /\ UNCHANGED <<written, claimed>>

Lose ==
    /\ claimed' \in SUBSET claimed
    /\ durable \subseteq claimed'
    /\ UNCHANGED <<written, durable>>

Next == Write \/ Claim \/ MakeDurable \/ Lose

Spec == Init /\ [][Next]_<<written, claimed, durable>>
=============================================================================
