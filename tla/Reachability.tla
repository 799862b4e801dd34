--------------------------- MODULE Reachability ---------------------------
(***************************************************************************)
(* The question internal/query/reach.go answers, without the search: which *)
(* nodes can be walked to from the sources at one instant, along at most   *)
(* Bound edges that are all valid at that instant.  A node may be taken    *)
(* out of the graph, as removal analysis (cut.go) does.                    *)
(*                                                                         *)
(* An asker poses the question once, and is told either the answer or that *)
(* the graph could not be read; after an answer it may ask again with      *)
(* nodes removed.                                                          *)
(***************************************************************************)
EXTENDS Intervals

CONSTANTS Nodes,        \* the URNs of the graph
          Graphs,       \* the edge sets a behaviour may start from
          SourceSets,   \* the sets of source entries it may start from
          Horizon,      \* the span the search is restricted to
          Bound,        \* the most edges a walk may have
          Removals      \* the sets of nodes removal analysis may take out

VARIABLES graph, sources,
          removed,      \* the nodes taken out for the current question
          status,       \* "open", "answered" or "failed"
          answer        \* the nodes reached, per instant

vars == <<graph, sources, removed, status, answer>>

Nothing == [t \in Instants |-> {}]

-----------------------------------------------------------------------------

SeedsAt(t) ==
    {s.urn : s \in {e \in sources : Contains(e.valid, t)
                                    /\ Contains(Horizon, t)
                                    /\ e.urn \notin removed}}

StepAt(N, t) ==
    {e.to : e \in {g \in graph : g.from \in N
                                 /\ Contains(g.valid, t)
                                 /\ g.to \notin removed}}

\* Ball(t)[d]: the nodes at most d live edges away from a live source.
Ball(t) ==
    LET ball[d \in 0 .. Bound] ==
            IF d = 0 THEN SeedsAt(t)
            ELSE ball[d - 1] \cup StepAt(ball[d - 1], t)
    IN  ball

Truth == [t \in Instants |-> Ball(t)[Bound]]

-----------------------------------------------------------------------------

Init ==
    /\ graph \in Graphs
    /\ sources \in SourceSets
    /\ removed = {}
    /\ status = "open"
    /\ answer = Nothing

Answer ==
    /\ status = "open"
    /\ status' = "answered"
    /\ answer' = Truth
    /\ UNCHANGED <<graph, sources, removed>>

\* Only reading the graph can fail, and it is read for the first question.
Fail ==
    /\ status = "open"
    /\ removed = {}
    /\ status' = "failed"
    /\ UNCHANGED <<graph, sources, removed, answer>>

\* The same question of the graph without the nodes of b.
AskWithout(b) ==
    /\ status = "answered"
    /\ removed' = b
    /\ status' = "open"
    /\ answer' = Nothing
    /\ UNCHANGED <<graph, sources>>

Next == Answer \/ Fail \/ \E b \in Removals : AskWithout(b)

Spec == Init /\ [][Next]_vars
=============================================================================
