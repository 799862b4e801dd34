----------------------------- MODULE MCObservatory -----------------------------
(* Packages a and b depend on each other, c depends on a and later, in two *)
(* releases of one second, on d and on nothing.                            *)
EXTENDS Observatory, TLC

CONSTANTS a, b, c, d, h1, h2, w1, w2, r1, r2, r3, r4

Of(p, n, t, D) == [pkg |-> p, row |-> n, published |-> t, pre |-> FALSE, deps |-> D]
Held(h, p, i, j) == [handle |-> h, pkg |-> p, from |-> i, to |-> j]

Releases == {Of(a, 1, 1, {b}), Of(b, 1, 1, {a}), Of(c, 1, 1, {a}),
             [Of(a, 2, 2, {}) EXCEPT !.pre = TRUE]}

MCIngests ==
    {[releases |-> Releases \cup {Of(c, 2, 2, {d}), Of(c, 3, 2, {})},
      holdings |-> {Held(h1, a, 1, 2), Held(h2, d, 1, 9), Held(h1, c, 1, 9)}],
     [releases |-> Releases \cup {Of(c, 3, 2, {d}), Of(c, 2, 2, {}), Of(b, 2, 3, {})},
      holdings |-> {Held(h2, a, 1, 9), Held(h1, c, 1, 2)}]}

MCRuns ==
    {[epochs |-> <<1, 2>>, names |-> {a, b, c, d}], [epochs |-> <<2, 3>>, names |-> {a, b, c}]}

MCHash ==
    (a :> [reg |-> r1, rank |-> 1]) @@ (b :> [reg |-> r2, rank |-> 3])
      @@ (c :> [reg |-> r1, rank |-> 2]) @@ (d :> [reg |-> r3, rank |-> 1])

MCLinear == 4 :> 0 @@ 3 :> 1 @@ 2 :> 3 @@ 1 :> 6
=============================================================================
