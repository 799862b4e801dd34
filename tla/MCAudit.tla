------------------------------- MODULE MCAudit -------------------------------
(* A project that pins a release of A, which resolves to the releases of B *)
(* in turn and through them, or by a shortcut, to C.                       *)
EXTENDS Audit, TLC

CONSTANTS s1, s2, A, B, C, a1, b1, b2, b3, c1, missing, h1, h2

Rel(v, p, t, L, h) ==
    [urn |-> v, pkg |-> p, published |-> t, pre |-> FALSE, doc |-> TRUE, listed |-> L,
     by |-> h, provenance |-> v \in {b1, c1}, script |-> v = b2]

Arc(x, y, i, j) == [from |-> x, to |-> y, valid |-> [from |-> i, to |-> j]]

\* Who is listed for B: leaving, returning, joining, handing over.
Lists == {<<{h1, h2}, {h2}, {h1}>>, <<{h1}, {}, {h1}>>, <<{h1}, {h2}, {}>>,
          <<{h1, h2}, {h1}, {}>>}

Timeline(l) ==
    {Rel(a1, A, 1, {h1}, h1), Rel(b1, B, 1, l[1], h1), Rel(b2, B, 2, l[2], h2),
     Rel(b3, B, 3, l[3], h1)}

Straight == {Arc(a1, b1, 1, 2), Arc(a1, b2, 2, 3), Arc(a1, b3, 3, 4), Arc(b1, c1, 2, 3),
             Arc(b2, c1, 2, 4)}
\* b1 again, when it no longer resolves to c1.
Again    == Straight \cup {Arc(a1, b1, 3, 4)}
Shortcut == {Arc(a1, b1, 1, 2), Arc(a1, c1, 3, 4), Arc(b1, c1, 1, 4), Arc(c1, b2, 2, 4)}

MCWorlds ==
    {[releases |-> Timeline(l) \cup {Rel(c1, C, 1, {h2}, h2)},
      edges |-> IF l[2] = {} THEN Straight ELSE Again] : l \in Lists}
    \cup {[releases |-> {[r EXCEPT !.pre = (r.urn = b2), !.doc = (r.urn # a1)] : r \in Timeline(l)}
                           \cup {Rel(c1, C, 0, {h1, h2}, h1)},
            edges |-> Shortcut] : l \in Lists}

MCFetchable == {Packages, {A, C}}

MCRequests ==
    {[kind |-> "who", pins |-> {}, withins |-> <<w>>, handle |-> h1] : w \in {At(2), Always}}
    \cup {[kind |-> "path", pins |-> {a1, missing}, withins |-> <<Always>>, handle |-> h2],
          [kind |-> "audit", pins |-> {a1, b1}, withins |-> <<At(2), Always>>, handle |-> h1]}

AnyOrder == Permutations(Clients)
=============================================================================
