----------------------------- MODULE MCResolve -----------------------------
(* Two targets: one with an upgrade and a later backport, which the graph  *)
(* may learn of late and in any order, and one with a single release.  Of  *)
(* the three declarations, two are on the first target, published before   *)
(* and after its upgrade.                                                  *)
EXTENDS Resolve

CONSTANTS lib1, lib2, lib1b, util1

\* A torn line of core-util, joined by the line of util, spells it again.
util == <<"util">>
lib  == <<"core-", "util">>

MCPieces == {"core-", "util"}
MCNames == {lib, util}
MCTargets == <<lib, util>>

MCVersions == {lib1, lib2, lib1b, util1}
MCPrecedence == [v \in MCVersions |-> IF v = lib2 THEN 3 ELSE IF v = lib1b THEN 2 ELSE 1]
MCReleases == [n \in MCNames |->
    IF n = lib
    THEN {[version |-> lib1, published |-> 1], [version |-> lib2, published |-> 3],
          [version |-> lib1b, published |-> 5]}
    ELSE {[version |-> util1, published |-> 1]}]
MCIngested == [n \in MCNames |-> {r \in MCReleases[n] : r.published < 3}]

\* Without the backport, releases can only be learned in order.
MCFewReleases == [n \in MCNames |-> {r \in MCReleases[n] : r.published < 5}]

MCDeclarations ==
    {[by |-> "app1", on |-> lib, admits |-> MCVersions, published |-> 2],
     [by |-> "app2", on |-> lib, admits |-> MCVersions, published |-> 4],
     [by |-> "app2", on |-> util, admits |-> {util1}, published |-> 4]}
=============================================================================
