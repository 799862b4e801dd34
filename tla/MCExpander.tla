----------------------------- MODULE MCExpander -----------------------------
(***************************************************************************)
(* Instances of Expander: four versions.  With a limit of two, a exceeds a *)
(* call by itself, c fills one exactly, and any two of them fill one.      *)
(***************************************************************************)
EXTENDS Expander

CONSTANTS a, b, c, d

MCUrns == {a, b, c, d}
MCEdges == {<<a, b>>, <<a, c>>, <<a, d>>, <<b, c>>, <<c, a>>, <<c, d>>, <<d, a>>}
Lower == {a, b, c}
=============================================================================
