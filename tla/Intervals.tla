----------------------------- MODULE Intervals -----------------------------
(***************************************************************************)
(* The interval algebra of internal/query/interval.go: half-open spans of  *)
(* Unix seconds, the coexistence operator, and the sets of spans that the  *)
(* search keeps per node.                                                  *)
(*                                                                         *)
(* The code keeps a set of spans as a sorted slice.  Here it is a TLA+ set *)
(* of spans, which is the same thing as long as its members are disjoint   *)
(* and do not touch (Maximal below), because such a set has exactly one    *)
(* sorted order.  Module IntervalSlice keeps the slice and the code's own  *)
(* walks over it, and is checked to agree with the operators of this       *)
(* module.                                                                 *)
(***************************************************************************)
EXTENDS Integers

CONSTANT OpenInterval   \* graph.OpenInterval: the end of a span still open

ASSUME OpenIntervalAssumption == OpenInterval \in Nat \ {0}

Span == [from : Int, to : Int]

\* The instants a real edge can be valid at.
Instants == 0 .. (OpenInterval - 1)

-----------------------------------------------------------------------------

Earlier(a, b) == IF a <= b THEN a ELSE b
Later(a, b)   == IF a <= b THEN b ELSE a

Always == [from |-> 0, to |-> OpenInterval]

At(t) == [from |-> t, to |-> t + 1]

Empty(i) == i.from >= i.to

Contains(i, t) == i.from <= t /\ t < i.to

\* The coexistence operator: the instants both spans share.
Intersect(i, o) ==
    [from |-> Later(i.from, o.from), to |-> Earlier(i.to, o.to)]

-----------------------------------------------------------------------------
(* Sets of spans.                                                          *)

\* h and i overlap or abut, so that together they are one span.
Touches(h, i) == h.to >= i.from /\ h.from <= i.to

\* The representation invariant of the type Set: its members are non-empty
\* and no two of them touch.
Maximal(S) ==
    /\ \A h \in S : ~ Empty(h)
    /\ \A h, k \in S : h # k => ~ Touches(h, k)

\* The node holding S was reached at instant t.
Holds(S, t) == \E h \in S : Contains(h, t)

\* Every instant of i is in S already: as the members do not touch, one of
\* them must contain the whole of i.
Covers(S, i) ==
    \/ Empty(i)
    \/ \E h \in S : h.from <= i.from /\ i.to <= h.to

Least(T)    == CHOOSE x \in T : \A y \in T : x <= y
Greatest(T) == CHOOSE x \in T : \A y \in T : y <= x

\* i together with every member of S it touches.
Merge(S, i) ==
    LET touching == {h \in S : Touches(h, i)}
    IN  [from |-> Least({h.from : h \in touching} \cup {i.from}),
         to   |-> Greatest({h.to : h \in touching} \cup {i.to})]

\* Whether Insert reports that it added something.
Adds(S, i) == ~ Covers(S, i)

Insert(S, i) ==
    IF Covers(S, i)
    THEN S
    ELSE {h \in S : ~ Touches(h, i)} \cup {Merge(S, i)}

=============================================================================
