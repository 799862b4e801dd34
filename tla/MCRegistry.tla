----------------------------- MODULE MCRegistry -----------------------------
(* Two getters: in two processes after one URL, or in one process after    *)
(* two.                                                                    *)
EXTENDS Registry, TLC

CONSTANTS g1, g2, p1, p2, u1, u2

MCDeployments ==
    {[home |-> (g1 :> p1 @@ g2 :> p2), url |-> (g1 :> u1 @@ g2 :> u1)],
     [home |-> (g1 :> p1 @@ g2 :> p1), url |-> (g1 :> u1 @@ g2 :> u2)]}
=============================================================================
