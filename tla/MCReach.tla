------------------------------ MODULE MCReach ------------------------------
(***************************************************************************)
(* Instances of Reach.  Nodes are a, b, c and d; a is the project that is  *)
(* asked about, and c may be a source as well.                             *)
(***************************************************************************)
EXTENDS Reach

CONSTANTS a, b, c, d

Arc(x, y, i, j) == [from |-> x, to |-> y, valid |-> [from |-> i, to |-> j]]
Node(x, i, j)   == [urn |-> x, valid |-> [from |-> i, to |-> j]]

\* Two abutting spans and one that overlaps both, on edges that make a
\* diamond with a cycle and a shortcut.
Arcs ==
    {Arc(a, b, 0, 2), Arc(a, b, 2, 4), Arc(a, c, 1, 3), Arc(b, c, 0, 2),
     Arc(b, c, 2, 4), Arc(c, d, 1, 3), Arc(c, b, 0, 4), Arc(b, d, 3, 4)}

MCGraphs == SUBSET Arcs

MCSourceSets == {{Node(a, 0, 4)}, {Node(a, 1, 3), Node(c, 0, 2)},
                 {Node(a, 0, 1), Node(a, 1, 2)}}

MCRemovals == {{b}, {c}, {a, c}}

Zero == [from |-> 0, to |-> 0]
Late == [from |-> 1, to |-> 4]
=============================================================================
