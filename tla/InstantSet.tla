---------------------------- MODULE InstantSet ----------------------------
(***************************************************************************)
(* What the type Set of internal/query/interval.go promises: it is the set *)
(* of the instants that were inserted into it, and an insertion reports    *)
(* whether it added an instant that was not there.                         *)
(***************************************************************************)
EXTENDS Intervals

CONSTANT Spans          \* the spans that may be inserted

VARIABLES instants,     \* the instants inserted so far
          added         \* what the last insertion reported

InstantsOf(i) == {t \in Instants : Contains(i, t)}

Init ==
    /\ instants = {}
    /\ added = FALSE

Add(i) ==
    /\ instants' = instants \cup InstantsOf(i)
    /\ added' = (InstantsOf(i) \ instants # {})

Next == \E i \in Spans : Add(i)

Spec == Init /\ [][Next]_<<instants, added>>
=============================================================================
