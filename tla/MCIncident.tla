----------------------------- MODULE MCIncident -----------------------------
(* Timelines of up to three of four versions, two of them of one           *)
(* precedence, over three seconds and an unknown one; a project that is    *)
(* recorded twice, with the dependent, with a chain of others that leads   *)
(* to it, or with pins that are not in the graph or that the walk skips.   *)
EXTENDS Incident, FiniteSets

CONSTANTS a, b, c, d, uses, near, far, odd, missing

MCVersions == {a, b, c, d}
MCPrecedence == [v \in MCVersions |-> IF v = c THEN 2 ELSE IF v = d THEN 3 ELSE 1]

\* A release per version at most, at 0 (unknown), 1, 2 or 3.
MCTimelines ==
    UNION {{{[version |-> v, published |-> at[v]] : v \in V} : at \in [V -> 0 .. 3]} :
              V \in {W \in SUBSET MCVersions : Cardinality(W) <= 3}}

MCRanges == {MCVersions, {a, b, c}, {a, d}}

MCPins == {uses, near, far, odd, missing} \cup MCVersions
MCLockfiles == {{near, uses}, {far, missing}, {c, odd}}

Link(v, w, from, to) == [from |-> v, to |-> w, valid |-> [from |-> from, to |-> to]]

\* far leads to a version by as many edges as the depth allows, c by one more;
\* the walk does not expand odd.
MCLinks == {Link(near, uses, 2, 4), Link(far, near, 0, 4), Link(c, far, 2, 4),
            Link(odd, uses, 0, 4)}

MCPublishedAt == [p \in {near, far, odd, missing} |-> IF p = near THEN 2 ELSE 0]

At1(kind, place) == [kind |-> kind, place |-> place]
InRanges(rs) == [ranges |-> rs, versions |-> {}]

MCAdvisories ==
    {<<InRanges(<< <<At1("first", 0), At1("fixed", 3)>> >>)>>,
     <<InRanges(<< <<At1("introduced", 1), At1("last_affected", 1)>>,
                   <<At1("fixed", 4), At1("introduced", 3)>> >>)>>,
     <<InRanges(<< <<At1("introduced", 3), At1("fixed", 2), At1("introduced", 1)>> >>),
       [ranges |-> << >>, versions |-> {b, d}]>>}
=============================================================================
