---------------------------- MODULE ReachProofs ----------------------------
(***************************************************************************)
(* Theorems about the search of module Reach, for every graph, every set   *)
(* of sources, every horizon and every depth bound.                        *)
(*                                                                         *)
(* The argument.  Entering a node over a span adds exactly the instants of *)
(* that span to what is kept for the node (EnterEffect, from the lemmas of *)
(* DataProofs).  An entry on the frontier stands for instants at           *)
(* which its node has been reached (Backed), so following a live edge from *)
(* it stays inside every set that is closed at that instant: no phantom.   *)
(* Conversely every live edge out of a reached node is followed already,   *)
(* or an entry or pair that will follow it is still pending (Pending), so  *)
(* when nothing is pending what was reached is itself closed.              *)
(*                                                                         *)
(* Two sections follow about what the search is built from.  One hop,      *)
(* module Expander: what it has read is of sources no list holds any more, *)
(* and what it has still to read is held by lists without a source in      *)
(* common (HopInv).  The slice, module IntervalSlice: it stays in order    *)
(* with gaps (SliceInv), and on such a slice the walks compute what the    *)
(* operators of Intervals say, which the theorems of the search rest on.   *)
(***************************************************************************)
EXTENDS Reach, Expander, IntervalSlice, DataProofs, SequenceTheorems

\* The depth bound is a positive number whatever the caller passed.
LEMMA BoundType == Bound \in Nat \ {0}
BY ReachAssumption DEF Bound

\* The horizon is a span whatever the caller passed.
LEMMA HorizonType == Horizon \in Span
BY ReachAssumption, OpenIntervalAssumption DEF Horizon, Always, Span

\* What one call of Enter does: it adds the instants of i to node n and to
\* no other node, keeps the spans maximal, and puts n on the frontier
\* whenever i brought a new instant (reach.go, Insert and append in replay).
LEMMA EnterEffect ==
    ASSUME reached \in [Nodes -> SUBSET Span], SpansStayMaximal,
           frontier \in SUBSET Entry,
           NEW n \in Nodes, NEW i \in Span, Enter(n, i)
    PROVE  /\ reached' \in [Nodes -> SUBSET Span]
           /\ SpansStayMaximal'
           /\ frontier' \in SUBSET Entry
           /\ frontier \subseteq frontier'
           /\ \A f \in frontier' : f \in frontier \/ f = [urn |-> n, valid |-> i]
           /\ \A m \in Nodes : \A t \in Int :
                 Holds(reached'[m], t) <=>
                     Holds(reached[m], t) \/ (m = n /\ Contains(i, t))
           /\ \A t \in Int :
                 \/ Holds(reached[n], t)
                 \/ ~ Contains(i, t)
                 \/ [urn |-> n, valid |-> i] \in frontier'
           /\ \A m \in Nodes : reached'[m] # {} => reached[m] # {} \/ m = n
<1>1. Maximal(reached[n]) /\ reached[n] \in SUBSET Span
  BY DEF SpansStayMaximal
<1>2. CASE Adds(reached[n], i)
  <2>1. /\ reached' = [reached EXCEPT ![n] = Insert(reached[n], i)]
        /\ frontier' = frontier \cup {[urn |-> n, valid |-> i]}
    BY <1>2 DEF Enter
  <2>2. Insert(reached[n], i) \in SUBSET Span /\ Maximal(Insert(reached[n], i))
    BY <1>1, InsertMaximal
  <2>3. \A t \in Int : Holds(Insert(reached[n], i), t)
                         <=> Holds(reached[n], t) \/ Contains(i, t)
    BY <1>1, InsertPointwise
  <2>4. /\ reached' \in [Nodes -> SUBSET Span]
        /\ reached'[n] = Insert(reached[n], i)
        /\ \A m \in Nodes : m # n => reached'[m] = reached[m]
    BY <2>1, <2>2
  <2>5. SpansStayMaximal'
    BY <2>2, <2>4 DEF SpansStayMaximal
  <2>6. frontier' \in SUBSET Entry
    BY <2>1 DEF Entry
  <2>7. \A m \in Nodes : \A t \in Int :
           Holds(reached'[m], t) <=>
               Holds(reached[m], t) \/ (m = n /\ Contains(i, t))
    BY <2>3, <2>4
  <2> QED BY <2>1, <2>4, <2>5, <2>6, <2>7
<1>3. CASE ~ Adds(reached[n], i)
  <2>1. reached' = reached /\ frontier' = frontier
    BY <1>3 DEF Enter
  <2>2. \A t \in Int : Contains(i, t) => Holds(reached[n], t)
    BY <1>1, <1>3, CoversPointwise DEF Adds
  <2> QED BY <2>1, <2>2 DEF SpansStayMaximal
<1> QED BY <1>2, <1>3

-----------------------------------------------------------------------------
(* Types.                                                                  *)

\* The stream stays a sequence of frontiers.
LEMMA StreamType ==
    ASSUME NEW T, NEW s \in Seq(T), NEW x \in T
    PROVE  << >> \in Seq(T) /\ Append(s, x) \in Seq(T)
OBVIOUS

\* Reporting a frontier keeps the stream well typed.
LEMMA ReportType ==
    ASSUME TypeOK, Report
    PROVE  streamed' \in Seq([depth : 0 .. Bound, entries : SUBSET Entry])
<1> DEFINE T == [depth : 0 .. Bound, entries : SUBSET Entry]
           x == [depth |-> level, entries |-> frontier]
<1>1. x \in T /\ streamed \in Seq(T)
  BY DEF TypeOK
<1>2. streamed' = Append(streamed, x) \/ streamed' = streamed
  BY DEF Report
<1> HIDE DEF T, x
<1>3. streamed' \in Seq(T)
  BY <1>1, <1>2, StreamType
<1> QED BY <1>3 DEF T

\* A seed and an edge enter a node over a span.
LEMMA EnteredSpans ==
    /\ \A s \in Entry : s.urn \in Nodes /\ Intersect(s.valid, Horizon) \in Span
    /\ \A p \in [entry : Entry, edge : Edge] :
          /\ p.entry.urn \in Nodes /\ p.edge.to \in Nodes
          /\ Intersect(p.entry.valid, p.edge.valid) \in Span
BY IntersectPointwise, HorizonType DEF Entry, Edge

\* Types, together with the representation invariant of the spans kept per
\* node, which Insert needs to do what it should.
LEMMA TypeStep ==
    ASSUME TypeOK, SpansStayMaximal, [Next]_vars
    PROVE  TypeOK' /\ SpansStayMaximal'
<1> USE DEF inputs, unionVars, replayVars
<1>1. CASE ExpandUnion
  <2>1. OutOf(wave) \subseteq graph /\ \A e \in OutOf(wave) : e.to \in Nodes
    BY DEF OutOf, TypeOK, Edge
  <2>2. depth' \in 0 .. Bound
    BY <1>1, BoundType DEF ExpandUnion, TypeOK
  <2> QED BY <1>1, <2>1, <2>2 DEF ExpandUnion, TypeOK, SpansStayMaximal
<1>2. CASE ExpandFails
  BY <1>2, BoundType DEF ExpandFails, TypeOK, SpansStayMaximal
<1>3. CASE EndUnion
  BY <1>3 DEF EndUnion, TypeOK, SpansStayMaximal
<1>4. ASSUME NEW s \in seeds, Seed(s) PROVE TypeOK' /\ SpansStayMaximal'
  <2>1. /\ reached' \in [Nodes -> SUBSET Span]
        /\ SpansStayMaximal'
        /\ frontier' \in SUBSET Entry
    <3>1. CASE s.urn \in blocked
      BY <1>4, <3>1 DEF Seed, TypeOK, SpansStayMaximal
    <3>2. CASE s.urn \notin blocked
      BY <1>4, <3>2, EnterEffect, EnteredSpans DEF Seed, TypeOK
    <3> QED BY <3>1, <3>2
  <2> QED BY <1>4, <2>1 DEF Seed, TypeOK
<1>5. ASSUME NEW p \in todo, Follow(p) PROVE TypeOK' /\ SpansStayMaximal'
  <2>1. /\ reached' \in [Nodes -> SUBSET Span]
        /\ SpansStayMaximal'
        /\ frontier' \in SUBSET Entry
    <3>1. CASE p.edge.to \in blocked
      BY <1>5, <3>1 DEF Follow, TypeOK, SpansStayMaximal
    <3>2. CASE p.edge.to \notin blocked
      BY <1>5, <3>2, EnterEffect, EnteredSpans DEF Follow, TypeOK
    <3> QED BY <3>1, <3>2
  <2> QED BY <1>5, <2>1 DEF Follow, TypeOK
<1>6. CASE ExpandLevel
  <2>1. streamed' \in Seq([depth : 0 .. Bound, entries : SUBSET Entry])
    BY <1>6, ReportType DEF ExpandLevel
  <2>2. level' \in 0 .. Bound
    BY <1>6, BoundType DEF ExpandLevel, TypeOK
  <2>3. todo' \in SUBSET [entry : Entry, edge : Edge]
    BY <1>6 DEF ExpandLevel, Pair, TypeOK
  <2> QED BY <1>6, <2>1, <2>2, <2>3 DEF ExpandLevel, TypeOK, SpansStayMaximal
<1>7. CASE EndReplay
  <2>1. streamed' \in Seq([depth : 0 .. Bound, entries : SUBSET Entry])
    BY <1>7, ReportType DEF EndReplay
  <2> QED BY <1>7, <2>1 DEF EndReplay, TypeOK, SpansStayMaximal
<1>8. ASSUME NEW b \in Removals, Cut(b) PROVE TypeOK' /\ SpansStayMaximal'
  <2>1. b \subseteq Nodes
    BY ReachAssumption
  <2>2. level' \in 0 .. Bound
    BY <1>8, BoundType DEF Cut
  <2>3. reached' \in [Nodes -> SUBSET Span] /\ SpansStayMaximal'
    BY <1>8 DEF Cut, Nowhere, SpansStayMaximal, Maximal
  <2> QED BY <1>8, <2>1, <2>2, <2>3 DEF Cut, TypeOK
<1>9. CASE UNCHANGED vars
  BY <1>9 DEF vars, TypeOK, SpansStayMaximal
<1> QED
  BY <1>1, <1>2, <1>3, <1>4, <1>5, <1>6, <1>7, <1>8, <1>9 DEF Next

LEMMA TypeInit == Init => TypeOK /\ SpansStayMaximal
<1> SUFFICES ASSUME Init PROVE TypeOK /\ SpansStayMaximal
  OBVIOUS
<1>1. graph \in SUBSET Edge /\ sources \in SUBSET Entry
  BY ReachAssumption DEF Init
<1>2. {s.urn : s \in sources} \subseteq Nodes
  BY <1>1 DEF Entry
<1>3. reached = [n \in Nodes |-> {}] /\ full = [n \in Nodes |-> {}]
  BY DEF Init, Nowhere
<1>4. SpansStayMaximal
  BY <1>3 DEF SpansStayMaximal, Maximal
<1>5. 0 \in 0 .. Bound
  BY BoundType
<1>6. streamed \in Seq([depth : 0 .. Bound, entries : SUBSET Entry])
  <2> DEFINE T == [depth : 0 .. Bound, entries : SUBSET Entry]
  <2>1. streamed = << >>
    BY DEF Init
  <2> HIDE DEF T
  <2>2. streamed \in Seq(T)
    BY <2>1
  <2> QED BY <2>2 DEF T
<1> QED BY <1>1, <1>2, <1>3, <1>4, <1>5, <1>6 DEF Init, TypeOK

\* Type correctness of the whole search, cuts included, and the invariant of
\* interval.go's type Set: the spans kept for a node never touch.
THEOREM TypeCorrect == Spec => []TypeOK /\ []SpansStayMaximal
<1>1. Init => TypeOK /\ SpansStayMaximal
  BY TypeInit
<1>2. TypeOK /\ SpansStayMaximal /\ [Next]_vars => TypeOK' /\ SpansStayMaximal'
  BY TypeStep
<1> QED BY <1>1, <1>2, PTL DEF Spec

-----------------------------------------------------------------------------
(* The books of the union pass, which the replay relies on.                *)

Ledger ==
    /\ cache \subseteq graph
    /\ \A e \in cache : e.to \in union
    /\ phase # "failed" => \A s \in sources : s.urn \in union
    /\ phase \in {"union", "failed"} =>
          reached = Nowhere /\ seeds = {} /\ todo = {} /\ frontier = {}
    /\ phase = "union" =>
          \A e \in graph : e.from \in union => e.from \in wave \/ e \in cache
    /\ (Replaying \/ Finished) /\ ~ truncated =>
          \A e \in graph : e.from \in union => e \in cache
    /\ seeds \subseteq sources
    /\ \A p \in todo : p.edge \in cache /\ p.edge.from = p.entry.urn
    /\ Finished => seeds = {} /\ todo = {}
    /\ phase = "union" => blocked = {} /\ level = 0

LEMMA LedgerInit == Init => Ledger
BY DEF Init, Ledger, Replaying, Finished, Nowhere

LEMMA LedgerStep ==
    ASSUME TypeOK, Ledger, [Next]_vars
    PROVE  Ledger'
<1> USE DEF inputs, unionVars, replayVars, Ledger, Replaying, Finished
<1>1. CASE ExpandUnion
  <2>1. OutOf(wave) \subseteq graph
    BY DEF OutOf
  <2>2. \A e \in graph : e.from \in union' => e.from \in wave' \/ e \in cache'
    BY <1>1 DEF ExpandUnion, OutOf
  <2> QED BY <1>1, <2>1, <2>2 DEF ExpandUnion
<1>2. CASE ExpandFails
  BY <1>2 DEF ExpandFails
<1>3. CASE EndUnion
  BY <1>3 DEF EndUnion
<1>4. ASSUME NEW s \in seeds, Seed(s) PROVE Ledger'
  BY <1>4 DEF Seed
<1>5. ASSUME NEW p \in todo, Follow(p) PROVE Ledger'
  BY <1>5 DEF Follow
<1>6. CASE ExpandLevel
  <2>1. \A p \in todo' : p.edge \in cache /\ p.edge.from = p.entry.urn
    BY <1>6 DEF ExpandLevel, Pair
  <2> QED BY <1>6, <2>1 DEF ExpandLevel, LevelDone
<1>7. CASE EndReplay
  BY <1>7 DEF EndReplay, LevelDone
<1>8. ASSUME NEW b \in Removals, Cut(b) PROVE Ledger'
  BY <1>8 DEF Cut
<1>9. CASE UNCHANGED vars
  BY <1>9 DEF vars
<1> QED
  BY <1>1, <1>2, <1>3, <1>4, <1>5, <1>6, <1>7, <1>8, <1>9 DEF Next

THEOREM LedgerCorrect == Spec => []Ledger
<1>1. Init => Ledger
  BY LedgerInit
<1>2. TypeOK /\ Ledger /\ [Next]_vars => Ledger'
  BY LedgerStep
<1> QED BY <1>1, <1>2, TypeCorrect, PTL DEF Spec

LEMMA WithinUnionStep ==
    ASSUME TypeOK, SpansStayMaximal, Ledger, CoexistenceWithinUnion, [Next]_vars
    PROVE  CoexistenceWithinUnion'
<1> USE DEF inputs, unionVars, replayVars, CoexistenceWithinUnion
<1>1. CASE ExpandUnion
  BY <1>1 DEF ExpandUnion
<1>2. CASE ExpandFails
  BY <1>2 DEF ExpandFails, Ledger, Nowhere
<1>3. CASE EndUnion
  BY <1>3 DEF EndUnion
<1>4. ASSUME NEW s \in seeds, Seed(s) PROVE CoexistenceWithinUnion'
  <2>1. s.urn \in union /\ union' = union
    BY <1>4 DEF Seed, Ledger, Replaying
  <2>2. CASE s.urn \in blocked
    BY <1>4, <2>2 DEF Seed
  <2>3. CASE s.urn \notin blocked
    <3>1. \A m \in Nodes : reached'[m] # {} => reached[m] # {} \/ m = s.urn
      <4>1. s.urn \in Nodes /\ Intersect(s.valid, Horizon) \in Span
        BY EnteredSpans DEF TypeOK
      <4>2. Enter(s.urn, Intersect(s.valid, Horizon))
        BY <1>4, <2>3 DEF Seed
      <4> QED BY <4>1, <4>2, EnterEffect DEF TypeOK
    <3> QED BY <2>1, <3>1
  <2> QED BY <2>2, <2>3
<1>5. ASSUME NEW p \in todo, Follow(p) PROVE CoexistenceWithinUnion'
  <2>1. p.edge.to \in union /\ union' = union
    BY <1>5 DEF Follow, Ledger
  <2>2. CASE p.edge.to \in blocked
    BY <1>5, <2>2 DEF Follow
  <2>3. CASE p.edge.to \notin blocked
    <3>1. \A m \in Nodes : reached'[m] # {} => reached[m] # {} \/ m = p.edge.to
      <4>1. /\ p.edge.to \in Nodes
            /\ Intersect(p.entry.valid, p.edge.valid) \in Span
        BY EnteredSpans DEF TypeOK
      <4>2. Enter(p.edge.to, Intersect(p.entry.valid, p.edge.valid))
        BY <1>5, <2>3 DEF Follow
      <4> QED BY <4>1, <4>2, EnterEffect DEF TypeOK
    <3> QED BY <2>1, <3>1
  <2> QED BY <2>2, <2>3
<1>6. CASE ExpandLevel
  BY <1>6 DEF ExpandLevel
<1>7. CASE EndReplay
  BY <1>7 DEF EndReplay
<1>8. ASSUME NEW b \in Removals, Cut(b) PROVE CoexistenceWithinUnion'
  BY <1>8 DEF Cut, Nowhere
<1>9. CASE UNCHANGED vars
  BY <1>9 DEF vars
<1> QED
  BY <1>1, <1>2, <1>3, <1>4, <1>5, <1>6, <1>7, <1>8, <1>9 DEF Next

\* Every node with a span is in the union answer, at the depth bound
\* included, so Phantom Reach is a difference of two nested sets.
THEOREM WithinUnion == Spec => []CoexistenceWithinUnion
<1>1. Init => CoexistenceWithinUnion
  BY DEF Init, Nowhere, CoexistenceWithinUnion
<1>2. /\ TypeOK /\ SpansStayMaximal /\ Ledger
      /\ CoexistenceWithinUnion /\ [Next]_vars
      => CoexistenceWithinUnion'
  BY WithinUnionStep
<1> QED BY <1>1, <1>2, TypeCorrect, LedgerCorrect, PTL DEF Spec

-----------------------------------------------------------------------------
(* What the union pass read is enough for the replay.  Give every node the *)
(* level at which the union pass found it: an edge spans at most one       *)
(* level, the nodes below the wave are all expanded, and the replay at its *)
(* own level l only holds nodes of level l or less, because it walks the   *)
(* same edges from the same sources.                                       *)

Layering(r) ==
    /\ \A s \in sources : r[s.urn] = 0
    /\ \A e \in cache : e.from \in union /\ r[e.to] <= r[e.from] + 1
    /\ \A n \in union : r[n] <= depth
    /\ \A n \in union : r[n] < depth => OutOf({n}) \subseteq cache
    /\ wave = {n \in union : r[n] = depth}
    /\ Replaying \/ Finished => wave = {} \/ depth = Bound
    /\ \A f \in frontier : f.urn \in union /\ r[f.urn] <= level
    /\ \A p \in todo : r[p.edge.to] <= level

Layered == \E r \in [Nodes -> Nat] : Layering(r)

\* At the start every node is at level 0 and nothing was expanded.
LEMMA LayeredInit == Init /\ TypeOK => Layered
<1> SUFFICES ASSUME Init, TypeOK PROVE Layered
  OBVIOUS
<1> DEFINE r == [n \in Nodes |-> 0]
<1>1. r \in [Nodes -> Nat] /\ \A n \in Nodes : r[n] = 0
  OBVIOUS
<1> HIDE DEF r
<1>2. /\ \A s \in sources : s.urn \in Nodes
      /\ union \subseteq Nodes /\ wave = union /\ depth = 0
  BY DEF Init, TypeOK, Entry
<1>3. Layering(r)
  BY <1>1, <1>2 DEF Init, Layering, Replaying, Finished
<1> QED BY <1>1, <1>3 DEF Layered

\* One level of the union pass: the nodes it finds, and those it has not
\* found yet, are put one level below the wave.
LEMMA LayeredExpand ==
    ASSUME TypeOK, Ledger, ExpandUnion, NEW r \in [Nodes -> Nat], Layering(r)
    PROVE  Layered'
<1> USE DEF inputs, replayVars
<1>1. depth \in Nat /\ union \subseteq Nodes /\ graph \subseteq Edge
  BY BoundType DEF TypeOK
<1>2. PICK q \in [Nodes -> Nat] :
          /\ \A n \in union : q[n] = r[n]
          /\ \A n \in Nodes \ union : q[n] = depth + 1
  <2> DEFINE q == [n \in Nodes |-> IF n \in union THEN r[n] ELSE depth + 1]
  <2>1. /\ q \in [Nodes -> Nat]
        /\ \A n \in union : q[n] = r[n]
        /\ \A n \in Nodes \ union : q[n] = depth + 1
    BY <1>1
  <2> QED BY <2>1
<1>3. /\ depth' = depth + 1
      /\ cache' = cache \cup OutOf(wave)
      /\ union' = union \cup {e.to : e \in OutOf(wave)}
      /\ wave' = {e.to : e \in OutOf(wave)} \ union
      /\ UNCHANGED <<sources, graph, phase, level, todo, frontier>>
      /\ phase = "union"
  BY DEF ExpandUnion
<1>4. /\ \A n \in wave : n \in union /\ r[n] = depth
      /\ \A n \in union : r[n] <= depth /\ r[n] \in Nat
  BY <1>1 DEF Layering
<1>5. \A e \in OutOf(wave) : e \in graph /\ e.from \in wave /\ e.to \in Nodes
  BY <1>1 DEF OutOf, Edge
<1>6. \A s \in sources' : q[s.urn] = 0
  BY <1>2, <1>3 DEF Layering, Ledger
<1>7. \A e \in cache' : e.from \in union' /\ q[e.to] <= q[e.from] + 1
  <2>1. \A e \in cache : e.from \in union /\ e.to \in union
                            /\ r[e.to] <= r[e.from] + 1
    BY DEF Layering, Ledger
  <2>2. ASSUME NEW e \in OutOf(wave)
        PROVE  e.from \in union /\ q[e.from] = depth /\ q[e.to] <= depth + 1
    <3>1. CASE e.to \in union
      BY <1>1, <1>2, <1>4, <1>5, <3>1
    <3>2. CASE e.to \notin union
      BY <1>1, <1>2, <1>4, <1>5, <3>2
    <3> QED BY <3>1, <3>2
  <2> QED BY <1>2, <1>3, <2>1, <2>2
<1>8. \A n \in union' : q[n] <= depth'
  BY <1>1, <1>2, <1>3, <1>4, <1>5
<1>9. ASSUME NEW n \in union', q[n] < depth'
       PROVE  (OutOf({n}) \subseteq cache)'
  <2>1. n \in union /\ r[n] <= depth
    BY <1>1, <1>2, <1>3, <1>4, <1>5, <1>9
  <2>2. CASE r[n] < depth
    BY <1>3, <2>1, <2>2 DEF Layering, OutOf
  <2>3. CASE r[n] = depth
    <3>1. n \in wave
      BY <2>1, <2>3 DEF Layering
    <3> QED BY <1>3, <3>1 DEF OutOf
  <2> QED BY <1>1, <1>4, <2>1, <2>2, <2>3
<1>10. wave' = {n \in union' : q[n] = depth'}
  <2>1. \A n \in union : q[n] # depth'
    BY <1>1, <1>2, <1>3, <1>4
  <2>2. \A n \in wave' : q[n] = depth' /\ n \in union'
    BY <1>2, <1>3, <1>5
  <2> QED BY <1>3, <2>1, <2>2
<1>11. frontier' = {} /\ todo' = {}
  BY <1>3 DEF Ledger
<1>12. ~ (Replaying \/ Finished)'
  BY <1>3 DEF Replaying, Finished
<1>13. Layering(q)'
  BY <1>6, <1>7, <1>8, <1>9, <1>10, <1>11, <1>12 DEF Layering
<1> QED BY <1>2, <1>13 DEF Layered

\* Every other step keeps the levels as they are.
LEMMA LayeredReplay ==
    ASSUME TypeOK, SpansStayMaximal, Ledger, Next, ~ ExpandUnion,
           NEW r \in [Nodes -> Nat], Layering(r)
    PROVE  Layering(r)'
<1> USE DEF inputs, unionVars, replayVars
<1>1. CASE ExpandFails
  <2>1. /\ cache' = {} /\ union' = {} /\ wave' = {} /\ depth' = 0
        /\ phase' = "failed" /\ frontier' = {} /\ todo' = {}
        /\ sources' = sources
    BY <1>1 DEF ExpandFails, Ledger
  <2> QED BY <2>1 DEF Layering, Replaying, Finished
<1>2. CASE EndUnion
  <2>1. frontier' = {} /\ todo' = {}
    BY <1>2 DEF EndUnion, Ledger
  <2> QED BY <1>2, <2>1 DEF EndUnion, Layering, OutOf
<1>3. ASSUME NEW s \in seeds, Seed(s) PROVE Layering(r)'
  <2>1. s \in Entry /\ s.urn \in union /\ r[s.urn] = 0
    BY <1>3 DEF Ledger, TypeOK, Layering, Seed, Replaying
  <2>2. \A f \in frontier' : f.urn \in union /\ r[f.urn] <= level
    <3>1. CASE s.urn \in blocked
      BY <1>3, <3>1 DEF Seed, Layering
    <3>2. CASE s.urn \notin blocked
      <4>1. Enter(s.urn, Intersect(s.valid, Horizon))
        BY <1>3, <3>2 DEF Seed
      <4>2. \A f \in frontier' : f \in frontier \/ f.urn = s.urn
        <5>1. s.urn \in Nodes /\ Intersect(s.valid, Horizon) \in Span
          BY <2>1, EnteredSpans
        <5>2. \A f \in frontier' :
                 \/ f \in frontier
                 \/ f = [urn |-> s.urn, valid |-> Intersect(s.valid, Horizon)]
          BY <4>1, <5>1, EnterEffect DEF TypeOK
        <5> QED BY <5>2
      <4>3. 0 <= level
        BY BoundType DEF TypeOK
      <4> QED BY <2>1, <4>2, <4>3 DEF Layering
    <3> QED BY <3>1, <3>2
  <2> QED BY <1>3, <2>2 DEF Seed, Layering, OutOf, Replaying, Finished
<1>4. ASSUME NEW p \in todo, Follow(p) PROVE Layering(r)'
  <2>1. p \in [entry : Entry, edge : Edge] /\ p.edge.to \in union
    BY DEF Ledger, TypeOK
  <2>2. \A f \in frontier' : f.urn \in union /\ r[f.urn] <= level
    <3>1. CASE p.edge.to \in blocked
      BY <1>4, <3>1 DEF Follow, Layering
    <3>2. CASE p.edge.to \notin blocked
      <4>1. Enter(p.edge.to, Intersect(p.entry.valid, p.edge.valid))
        BY <1>4, <3>2 DEF Follow
      <4>2. \A f \in frontier' : f \in frontier \/ f.urn = p.edge.to
        <5>1. p.edge.to \in Nodes /\ Intersect(p.entry.valid, p.edge.valid) \in Span
          BY <2>1, EnteredSpans
        <5>2. \A f \in frontier' :
                 \/ f \in frontier
                 \/ f = [urn |-> p.edge.to, valid |-> Intersect(p.entry.valid, p.edge.valid)]
          BY <4>1, <5>1, EnterEffect DEF TypeOK
        <5> QED BY <5>2
      <4> QED BY <2>1, <4>2 DEF Layering
    <3> QED BY <3>1, <3>2
  <2> QED BY <1>4, <2>2 DEF Follow, Layering, OutOf, Replaying, Finished
<1>5. CASE ExpandLevel
  <2>1. \A q \in todo' : r[q.edge.to] <= level'
    <3>1. SUFFICES ASSUME NEW q \in todo' PROVE r[q.edge.to] <= level'
      OBVIOUS
    <3>2. PICK f \in frontier, e \in cache : q = Pair(f, e) /\ e.from = f.urn
      BY <1>5 DEF ExpandLevel, Pair
    <3>3. r[e.to] <= r[e.from] + 1 /\ r[f.urn] <= level
      BY DEF Layering
    <3>4. e.to \in Nodes /\ f.urn \in Nodes /\ level \in Nat
      BY BoundType DEF TypeOK, Edge, Entry
    <3>5. r[e.to] \in Nat /\ r[f.urn] \in Nat
      BY <3>4
    <3>6. q.edge = e /\ level' = level + 1
      BY <1>5, <3>2 DEF Pair, ExpandLevel
    <3> QED BY <3>2, <3>3, <3>4, <3>5, <3>6
  <2> QED BY <1>5, <2>1 DEF ExpandLevel, Layering, OutOf, LevelDone, Replaying, Finished
<1>6. CASE EndReplay
  BY <1>6 DEF EndReplay, LevelDone, Layering, OutOf, Replaying, Finished
<1>7. ASSUME NEW b \in Removals, Cut(b) PROVE Layering(r)'
  BY <1>7 DEF Cut, Layering, Ledger, OutOf, Replaying, Finished
<1> QED
  BY <1>1, <1>2, <1>3, <1>4, <1>5, <1>6, <1>7 DEF Next

\* The levels survive every step.
LEMMA LayeredStep ==
    ASSUME TypeOK, SpansStayMaximal, Ledger, Layered, [Next]_vars
    PROVE  Layered'
<1>1. PICK r \in [Nodes -> Nat] : Layering(r)
  BY DEF Layered
<1>2. CASE ExpandUnion
  BY <1>1, <1>2, LayeredExpand
<1>3. CASE Next /\ ~ ExpandUnion
  <2>1. Layering(r)'
    BY <1>1, <1>3, LayeredReplay
  <2> QED BY <2>1 DEF Layered
<1>4. CASE UNCHANGED vars
  <2>1. Layering(r)'
    BY <1>1, <1>4 DEF vars, inputs, unionVars, replayVars, Layering, OutOf,
                      Replaying, Finished
  <2> QED BY <2>1 DEF Layered
<1> QED BY <1>2, <1>3, <1>4

\* An entry above the depth bound is above the levels that were not read.
LEMMA LayersServe == TypeOK /\ Layered => CacheServesReplay
<1> SUFFICES ASSUME TypeOK, Layered, Replaying, level < Bound,
                    NEW f \in frontier
             PROVE  OutOf({f.urn}) \subseteq cache
  BY DEF CacheServesReplay
<1>1. PICK r \in [Nodes -> Nat] : Layering(r)
  BY DEF Layered
<1>2. f.urn \in union /\ r[f.urn] <= level /\ r[f.urn] <= depth
  BY <1>1 DEF Layering
<1>3. r[f.urn] \in Nat /\ level \in Nat /\ depth \in Nat /\ Bound \in Nat
  BY BoundType DEF TypeOK, Entry
<1>4. r[f.urn] < depth
  <2>1. CASE depth = Bound
    BY <1>2, <1>3, <2>1
  <2>2. CASE wave = {}
    <3>1. r[f.urn] # depth
      BY <1>1, <1>2, <2>2 DEF Layering
    <3> QED BY <1>2, <1>3, <3>1
  <2> QED BY <1>1, <2>1, <2>2 DEF Layering
<1> QED BY <1>1, <1>2, <1>4 DEF Layering

\* The edges read by the union pass serve every level of every replay, the
\* cuts' included (reach.go, replay; cut.go, Cuts): an entry that is still to
\* be expanded never stands at a node whose edges were not read.
THEOREM CacheServes == Spec => []CacheServesReplay
<1>1. Init => TypeOK
  BY TypeInit
<1>2. TypeOK /\ SpansStayMaximal /\ Ledger /\ Layered /\ [Next]_vars => Layered'
  BY LayeredStep
<1> QED
  BY <1>1, <1>2, LayeredInit, LayersServe, TypeCorrect, LedgerCorrect, PTL
  DEF Spec

-----------------------------------------------------------------------------
(* Entries stand for instants at which their node was reached.             *)

Backed ==
    /\ \A f \in frontier : \A t \in Instants :
          Contains(f.valid, t) => Holds(reached[f.urn], t)
    /\ \A p \in todo : \A t \in Instants :
          Contains(p.entry.valid, t) => Holds(reached[p.entry.urn], t)

\* Entering a node backs the entry it puts on the frontier, and disturbs
\* none of the others, because reach only grows.
LEMMA EnterKeepsBacked ==
    ASSUME TypeOK, SpansStayMaximal, Backed,
           NEW n \in Nodes, NEW i \in Span, Enter(n, i),
           todo' \subseteq todo
    PROVE  Backed'
<1>1. \A m \in Nodes : \A t \in Int :
         Holds(reached'[m], t) <=>
             Holds(reached[m], t) \/ (m = n /\ Contains(i, t))
  BY EnterEffect DEF TypeOK
<1>2. \A f \in frontier' : f \in frontier \/ f = [urn |-> n, valid |-> i]
  BY EnterEffect DEF TypeOK
<1>3. \A f \in frontier : f.urn \in Nodes
  BY DEF TypeOK, Entry
<1>4. \A p \in todo : p.entry.urn \in Nodes
  BY DEF TypeOK, Entry
<1>5. Instants \subseteq Int
  BY OpenIntervalAssumption DEF Instants
<1>6. ASSUME NEW f \in frontier', NEW t \in Instants, Contains(f.valid, t)
      PROVE  Holds(reached'[f.urn], t)
  BY <1>1, <1>2, <1>3, <1>5, <1>6 DEF Backed
<1>7. ASSUME NEW p \in todo', NEW t \in Instants, Contains(p.entry.valid, t)
      PROVE  Holds(reached'[p.entry.urn], t)
  BY <1>1, <1>4, <1>5, <1>7 DEF Backed
<1> QED BY <1>6, <1>7 DEF Backed

LEMMA BackedStep ==
    ASSUME TypeOK, SpansStayMaximal, Ledger, Backed, [Next]_vars
    PROVE  Backed'
<1> USE DEF inputs, unionVars, replayVars
<1>1. CASE ExpandUnion
  BY <1>1 DEF ExpandUnion, Backed
<1>2. CASE ExpandFails
  BY <1>2 DEF ExpandFails, Backed
<1>3. CASE EndUnion
  BY <1>3 DEF EndUnion, Backed
<1>4. ASSUME NEW s \in seeds, Seed(s) PROVE Backed'
  <2>1. CASE s.urn \in blocked
    BY <1>4, <2>1 DEF Seed, Backed
  <2>2. CASE s.urn \notin blocked
    BY <1>4, <2>2, EnterKeepsBacked, EnteredSpans DEF Seed, TypeOK
  <2> QED BY <2>1, <2>2
<1>5. ASSUME NEW p \in todo, Follow(p) PROVE Backed'
  <2>1. CASE p.edge.to \in blocked
    BY <1>5, <2>1 DEF Follow, Backed
  <2>2. CASE p.edge.to \notin blocked
    BY <1>5, <2>2, EnterKeepsBacked, EnteredSpans DEF Follow, TypeOK
  <2> QED BY <2>1, <2>2
<1>6. CASE ExpandLevel
  <2>1. \A p \in todo' : p.entry \in frontier
    BY <1>6 DEF ExpandLevel, Pair
  <2> QED BY <1>6, <2>1 DEF ExpandLevel, Backed
<1>7. CASE EndReplay
  BY <1>7 DEF EndReplay, Backed
<1>8. ASSUME NEW b \in Removals, Cut(b) PROVE Backed'
  BY <1>8 DEF Cut, Backed, Ledger
<1>9. CASE UNCHANGED vars
  BY <1>9 DEF vars, Backed
<1> QED
  BY <1>1, <1>2, <1>3, <1>4, <1>5, <1>6, <1>7, <1>8, <1>9 DEF Next

THEOREM BackedCorrect == Spec => []Backed
<1>1. Init => Backed
  BY DEF Init, Backed
<1>2. TypeOK /\ SpansStayMaximal /\ Ledger /\ Backed /\ [Next]_vars => Backed'
  BY BackedStep
<1> QED BY <1>1, <1>2, TypeCorrect, LedgerCorrect, PTL DEF Spec

-----------------------------------------------------------------------------
(* No phantom.                                                             *)

\* NoPhantom in every phase: it is the inductive form.
Sound ==
    \A t \in Instants : \A S \in SUBSET Nodes :
        Closed(S, graph, t) => ReachedAt(t) \subseteq S

\* Entering a node that every closed set contains at the instants of the
\* span keeps what is reached inside every closed set.
LEMMA EnterKeepsSound ==
    ASSUME TypeOK, SpansStayMaximal, Sound,
           NEW n \in Nodes, NEW i \in Span, Enter(n, i),
           UNCHANGED <<graph, sources, blocked>>,
           \A t \in Instants : \A S \in SUBSET Nodes :
               Closed(S, graph, t) /\ Contains(i, t) => n \in S
    PROVE  Sound'
<1>1. \A m \in Nodes : \A t \in Int :
         Holds(reached'[m], t) <=>
             Holds(reached[m], t) \/ (m = n /\ Contains(i, t))
  BY EnterEffect DEF TypeOK
<1>2. Instants \subseteq Int
  BY OpenIntervalAssumption DEF Instants
<1> SUFFICES ASSUME NEW t \in Instants, NEW S \in SUBSET Nodes,
                    Closed(S, graph, t)', NEW m \in ReachedAt(t)'
             PROVE  m \in S
  BY DEF Sound
<1>3. Closed(S, graph, t)
  BY DEF Closed
<1>4. m \in Nodes /\ Holds(reached'[m], t)
  BY DEF ReachedAt, NodesAt
<1>5. CASE Holds(reached[m], t)
  BY <1>3, <1>4, <1>5 DEF Sound, ReachedAt, NodesAt
<1>6. CASE m = n /\ Contains(i, t)
  BY <1>3, <1>6
<1> QED BY <1>1, <1>2, <1>4, <1>5, <1>6

LEMMA SoundStep ==
    ASSUME TypeOK, SpansStayMaximal, Ledger, Backed, Sound, [Next]_vars
    PROVE  Sound'
<1> USE DEF inputs, unionVars, replayVars
<1>1. ASSUME UNCHANGED <<graph, sources, blocked, reached>> PROVE Sound'
  BY <1>1 DEF Sound, Closed, ReachedAt, NodesAt
<1>2. CASE ExpandUnion
  BY <1>1, <1>2 DEF ExpandUnion
<1>3. CASE ExpandFails
  BY <1>1, <1>3 DEF ExpandFails
<1>4. CASE EndUnion
  BY <1>1, <1>4 DEF EndUnion
<1>5. ASSUME NEW s \in seeds, Seed(s) PROVE Sound'
  <2>1. CASE s.urn \in blocked
    BY <1>1, <1>5, <2>1 DEF Seed
  <2>2. CASE s.urn \notin blocked
    <3> DEFINE i == Intersect(s.valid, Horizon)
    <3>1. s.urn \in Nodes /\ i \in Span /\ s \in sources /\ s.valid \in Span
      BY EnteredSpans DEF TypeOK, Ledger, Entry
    <3>2. \A t \in Instants :
             Contains(i, t) => Contains(s.valid, t) /\ Contains(Horizon, t)
      BY <3>1, IntersectPointwise, HorizonType, OpenIntervalAssumption DEF Instants
    <3>3. \A t \in Instants : \A S \in SUBSET Nodes :
             Closed(S, graph, t) /\ Contains(i, t) => s.urn \in S
      BY <2>2, <3>1, <3>2 DEF Closed
    <3>4. Enter(s.urn, i) /\ UNCHANGED <<graph, sources, blocked>>
      BY <1>5, <2>2 DEF Seed
    <3> HIDE DEF i
    <3> QED BY <3>1, <3>3, <3>4, EnterKeepsSound
  <2> QED BY <2>1, <2>2
<1>6. ASSUME NEW p \in todo, Follow(p) PROVE Sound'
  <2>1. CASE p.edge.to \in blocked
    BY <1>1, <1>6, <2>1 DEF Follow
  <2>2. CASE p.edge.to \notin blocked
    <3> DEFINE i == Intersect(p.entry.valid, p.edge.valid)
    <3>1. /\ p.edge.to \in Nodes /\ i \in Span
          /\ p.edge \in graph /\ p.edge.from = p.entry.urn
          /\ p.entry.urn \in Nodes
          /\ p.entry.valid \in Span /\ p.edge.valid \in Span
      BY EnteredSpans DEF TypeOK, Ledger, Entry, Edge
    <3>2. \A t \in Instants :
             Contains(i, t) => Contains(p.entry.valid, t) /\ Contains(p.edge.valid, t)
      BY <3>1, IntersectPointwise, OpenIntervalAssumption DEF Instants
    <3>3. ASSUME NEW t \in Instants, NEW S \in SUBSET Nodes,
                 Closed(S, graph, t), Contains(i, t)
          PROVE  p.edge.to \in S
      <4>1. p.entry.urn \in ReachedAt(t)
        BY <3>1, <3>2, <3>3 DEF Backed, ReachedAt, NodesAt
      <4>2. p.edge.from \in S
        BY <3>1, <3>3, <4>1 DEF Sound
      <4> QED BY <2>2, <3>1, <3>2, <3>3, <4>2 DEF Closed
    <3>4. Enter(p.edge.to, i) /\ UNCHANGED <<graph, sources, blocked>>
      BY <1>6, <2>2 DEF Follow
    <3> HIDE DEF i
    <3> QED BY <3>1, <3>3, <3>4, EnterKeepsSound
  <2> QED BY <2>1, <2>2
<1>7. CASE ExpandLevel
  BY <1>1, <1>7 DEF ExpandLevel
<1>8. CASE EndReplay
  BY <1>1, <1>8 DEF EndReplay
<1>9. ASSUME NEW b \in Removals, Cut(b) PROVE Sound'
  BY <1>9 DEF Cut, Nowhere, Sound, ReachedAt, NodesAt, Holds
<1>10. CASE UNCHANGED vars
  BY <1>1, <1>10 DEF vars
<1> QED
  BY <1>2, <1>3, <1>4, <1>5, <1>6, <1>7, <1>8, <1>9, <1>10 DEF Next

\* No phantom reach, for every graph and every depth bound: at each step,
\* every node reached at an instant is in every set that has the sources
\* live at that instant and is closed under the edges live at it, so some
\* path to it had all its edges at once.
THEOREM NoPhantomReach == Spec => []NoPhantom
<1>1. Init => Sound
  BY DEF Init, Nowhere, Sound, ReachedAt, NodesAt, Holds
<1>2. /\ TypeOK /\ SpansStayMaximal /\ Ledger /\ Backed
      /\ Sound /\ [Next]_vars
      => Sound'
  BY SoundStep
<1>3. Sound => NoPhantom
  BY DEF Sound, NoPhantom
<1> QED
  BY <1>1, <1>2, <1>3, TypeCorrect, LedgerCorrect, BackedCorrect, PTL DEF Spec

-----------------------------------------------------------------------------
(* Nothing missed.                                                         *)

\* Every source live at t has been entered, or is still to be looked at.
SeedPending(s, t) ==
    (/\ s.urn \notin blocked
     /\ Contains(s.valid, t)
     /\ Contains(Horizon, t)) => s.urn \in ReachedAt(t) \/ s \in seeds

\* Every edge live at t out of a node reached at t has been followed, or an
\* entry or a pair that will follow it at t is pending.
EdgePending(e, t) ==
    (/\ e.from \in ReachedAt(t)
     /\ e.to \notin blocked
     /\ Contains(e.valid, t)) =>
        \/ e.to \in ReachedAt(t)
        \/ \E f \in frontier : f.urn = e.from /\ Contains(f.valid, t)
        \/ \E p \in todo : p.edge = e /\ Contains(p.entry.valid, t)

Pending ==
    Replaying \/ Finished =>
        /\ \A s \in sources : \A t \in Instants : SeedPending(s, t)
        /\ \A e \in graph : \A t \in Instants : EdgePending(e, t)

\* Entering a node settles the seed or the pair it was entered for, and
\* makes pending what the new instants lead to.
LEMMA EnterKeepsPending ==
    ASSUME TypeOK, SpansStayMaximal, Pending, Replaying,
           NEW n \in Nodes, NEW i \in Span, Enter(n, i),
           UNCHANGED <<graph, sources, blocked>>,
           \A s \in seeds : \A t \in Instants :
               \/ s \in seeds'
               \/ Contains(s.valid, t) /\ Contains(Horizon, t)
                     => s.urn = n /\ Contains(i, t),
           \A p \in todo : \A t \in Instants :
               \/ p \in todo'
               \/ Contains(p.entry.valid, t) /\ Contains(p.edge.valid, t)
                     => p.edge.to = n /\ Contains(i, t)
    PROVE  Pending'
<1>1. \A m \in Nodes : \A t \in Instants :
         m \in ReachedAt(t)' <=> m \in ReachedAt(t) \/ (m = n /\ Contains(i, t))
  <2>1. \A m \in Nodes : \A t \in Int :
           Holds(reached'[m], t) <=>
               Holds(reached[m], t) \/ (m = n /\ Contains(i, t))
    BY EnterEffect DEF TypeOK
  <2> QED BY <2>1, OpenIntervalAssumption DEF Instants, ReachedAt, NodesAt
<1>2. \A t \in Instants :
         \/ n \in ReachedAt(t)
         \/ ~ Contains(i, t)
         \/ [urn |-> n, valid |-> i] \in frontier'
  <2>1. \A t \in Int :
           \/ Holds(reached[n], t)
           \/ ~ Contains(i, t)
           \/ [urn |-> n, valid |-> i] \in frontier'
    BY EnterEffect DEF TypeOK
  <2> QED BY <2>1, OpenIntervalAssumption DEF Instants, ReachedAt, NodesAt
<1>3. frontier \subseteq frontier'
  BY EnterEffect DEF TypeOK
<1>4. (\A s \in sources : s.urn \in Nodes)
      /\ (\A e \in graph : e.from \in Nodes /\ e.to \in Nodes)
  BY DEF TypeOK, Entry, Edge
<1>5. ASSUME NEW s \in sources, NEW t \in Instants PROVE SeedPending(s, t)'
  <2>1. SeedPending(s, t)
    BY DEF Pending
  <2> QED BY <1>1, <1>4, <2>1 DEF SeedPending
<1>6. ASSUME NEW e \in graph, NEW t \in Instants PROVE EdgePending(e, t)'
  <2>1. EdgePending(e, t)
    BY DEF Pending
  <2> SUFFICES ASSUME e.from \in ReachedAt(t)', e.to \notin blocked,
                      Contains(e.valid, t)
               PROVE  \/ e.to \in ReachedAt(t)'
                      \/ \E f \in frontier' : f.urn = e.from /\ Contains(f.valid, t)
                      \/ \E p \in todo' : p.edge = e /\ Contains(p.entry.valid, t)
    BY DEF EdgePending
  <2>2. CASE e.from \in ReachedAt(t)
    BY <1>1, <1>3, <1>4, <2>1, <2>2 DEF EdgePending
  <2>3. CASE e.from \notin ReachedAt(t)
    <3>1. e.from = n /\ Contains(i, t)
      BY <1>1, <1>4, <2>3
    <3>2. [urn |-> n, valid |-> i] \in frontier'
      BY <1>2, <2>3, <3>1
    <3> QED BY <3>1, <3>2
  <2> QED BY <2>2, <2>3
<1> QED BY <1>5, <1>6 DEF Pending

LEMMA PendingStep ==
    ASSUME TypeOK, SpansStayMaximal, Ledger, CacheServesReplay, Pending, [Next]_vars
    PROVE  Pending'
<1> USE DEF inputs, unionVars, replayVars
<1>1. ASSUME UNCHANGED <<sources, blocked, reached, graph, seeds>>,
             Replaying \/ Finished,
             \A f \in frontier : \A e \in graph :
                 f.urn = e.from => f \in frontier' \/ Pair(f, e) \in todo',
             todo \subseteq todo'
      PROVE  Pending'
  <2>1. ASSUME NEW s \in sources, NEW t \in Instants PROVE SeedPending(s, t)'
    BY <1>1 DEF Pending, SeedPending, ReachedAt, NodesAt
  <2>2. ASSUME NEW e \in graph, NEW t \in Instants PROVE EdgePending(e, t)'
    <3>1. EdgePending(e, t)
      BY <1>1 DEF Pending
    <3>2. \A f \in frontier :
             Pair(f, e) \in todo' =>
                 Pair(f, e).edge = e /\ Pair(f, e).entry = f
      BY DEF Pair
    <3> QED BY <1>1, <3>1, <3>2 DEF EdgePending, ReachedAt, NodesAt
  <2> QED BY <1>1, <2>1, <2>2 DEF Pending
<1>2. CASE ExpandUnion
  BY <1>2 DEF ExpandUnion, Pending, Replaying, Finished
<1>3. CASE ExpandFails
  BY <1>3 DEF ExpandFails, Pending, Replaying, Finished
<1>4. CASE EndUnion
  BY <1>4 DEF EndUnion, Pending, SeedPending, EdgePending, Ledger, Nowhere,
              ReachedAt, NodesAt, Holds
<1>5. ASSUME NEW s \in seeds, Seed(s) PROVE Pending'
  <2>1. CASE s.urn \in blocked
    BY <1>5, <2>1 DEF Seed, Pending, SeedPending, EdgePending, ReachedAt,
                      NodesAt, Replaying, Finished
  <2>2. CASE s.urn \notin blocked
    <3> DEFINE i == Intersect(s.valid, Horizon)
    <3>1. s.urn \in Nodes /\ i \in Span /\ s.valid \in Span
      BY EnteredSpans DEF TypeOK, Entry
    <3>2. \A t \in Instants :
             Contains(s.valid, t) /\ Contains(Horizon, t) => Contains(i, t)
      BY <3>1, IntersectPointwise, HorizonType, OpenIntervalAssumption DEF Instants
    <3>3. /\ Enter(s.urn, i) /\ Replaying
          /\ UNCHANGED <<graph, sources, blocked, todo>>
          /\ seeds' = seeds \ {s}
      BY <1>5, <2>2 DEF Seed
    <3> HIDE DEF i
    <3> QED BY <3>1, <3>2, <3>3, EnterKeepsPending
  <2> QED BY <2>1, <2>2
<1>6. ASSUME NEW p \in todo, Follow(p) PROVE Pending'
  <2>1. CASE p.edge.to \in blocked
    BY <1>6, <2>1 DEF Follow, Pending, SeedPending, EdgePending, ReachedAt,
                      NodesAt, Replaying, Finished
  <2>2. CASE p.edge.to \notin blocked
    <3> DEFINE i == Intersect(p.entry.valid, p.edge.valid)
    <3>1. /\ p.edge.to \in Nodes /\ i \in Span
          /\ p.entry.valid \in Span /\ p.edge.valid \in Span
      BY EnteredSpans DEF TypeOK, Entry, Edge
    <3>2. \A t \in Instants :
             Contains(p.entry.valid, t) /\ Contains(p.edge.valid, t) => Contains(i, t)
      BY <3>1, IntersectPointwise, OpenIntervalAssumption DEF Instants
    <3>3. /\ Enter(p.edge.to, i) /\ Replaying
          /\ UNCHANGED <<graph, sources, blocked, seeds>>
          /\ todo' = todo \ {p}
      BY <1>6, <2>2 DEF Follow
    <3> HIDE DEF i
    <3> QED BY <3>1, <3>2, <3>3, EnterKeepsPending
  <2> QED BY <2>1, <2>2
<1>7. CASE ExpandLevel
  <2>1. \A f \in frontier : \A e \in graph :
           f.urn = e.from => Pair(f, e) \in todo'
    BY <1>7 DEF ExpandLevel, Pair, LevelDone, CacheServesReplay, OutOf
  <2> QED BY <1>1, <1>7, <2>1 DEF ExpandLevel, LevelDone
<1>8. CASE EndReplay
  BY <1>1, <1>8 DEF EndReplay, LevelDone
<1>9. ASSUME NEW b \in Removals, Cut(b) PROVE Pending'
  BY <1>9 DEF Cut, Pending, SeedPending, EdgePending, Nowhere, ReachedAt,
              NodesAt, Holds
<1>10. CASE UNCHANGED vars
  BY <1>10 DEF vars, Pending, SeedPending, EdgePending, ReachedAt, NodesAt,
               Replaying, Finished
<1> QED
  BY <1>2, <1>3, <1>4, <1>5, <1>6, <1>7, <1>8, <1>9, <1>10 DEF Next

\* When nothing is pending, what is reached is closed.
LEMMA NothingPendingNothingMissed ==
    ASSUME Ledger, Pending
    PROVE  NothingMissed
<1> SUFFICES ASSUME Finished, frontier = {}, NEW t \in Instants
             PROVE  Closed(ReachedAt(t), graph, t)
  BY DEF NothingMissed
<1>1. seeds = {} /\ todo = {}
  BY DEF Ledger
<1>2. ASSUME NEW s \in sources PROVE SeedPending(s, t)
  BY DEF Pending
<1>3. ASSUME NEW e \in graph PROVE EdgePending(e, t)
  BY DEF Pending
<1> QED BY <1>1, <1>2, <1>3 DEF Closed, SeedPending, EdgePending

\* Every pending seed and edge is followed in the end.
THEOREM PendingCorrect == Spec => []Pending
<1>1. Init => Pending
  BY DEF Init, Pending, Replaying, Finished
<1>2. /\ TypeOK /\ SpansStayMaximal /\ Ledger /\ CacheServesReplay
      /\ Pending /\ [Next]_vars
      => Pending'
  BY PendingStep
<1> QED
  BY <1>1, <1>2, TypeCorrect, LedgerCorrect, CacheServes, PTL DEF Spec

\* Pruning never loses a node, for every graph and every order in which the
\* edges are taken: a search that ran out of frontier has reached a closed
\* set at every instant, whether or not the union pass was cut short.  With
\* NoPhantomReach, that is the least one: the exact answer.
THEOREM NothingIsMissed == Spec => []NothingMissed
<1>1. Ledger /\ Pending => NothingMissed
  BY NothingPendingNothingMissed
<1> QED
  BY <1>1, LedgerCorrect, PendingCorrect, PTL

-----------------------------------------------------------------------------
(* The stream.                                                             *)

OnFrontier(n, t) == \E f \in frontier : f.urn = n /\ Contains(f.valid, t)

Streaming ==
    /\ phase = "union" => streamed = << >>
    /\ phase = "replay" =>
          \A n \in Nodes : \A t \in Instants :
              Holds(reached[n], t) <=> Told(n, t) \/ OnFrontier(n, t)
    /\ phase \in {"answered", "cut", "cut_done"} =>
          \A n \in Nodes : \A t \in Instants : Holds(full[n], t) <=> Told(n, t)

\* After a report the stream tells what it told before and the frontier.
LEMMA ReportTells ==
    ASSUME TypeOK, Report, phase = "replay"
    PROVE  \A n \in Nodes : \A t \in Instants :
               Told(n, t)' <=> Told(n, t) \/ OnFrontier(n, t)
<1> DEFINE x == [depth |-> level, entries |-> frontier]
<1>1. CASE frontier = {}
  BY <1>1 DEF Report, Told, OnFrontier
<1>2. CASE frontier # {}
  <2>1. streamed' = Append(streamed, x)
    BY <1>2 DEF Report
  <2>2. /\ Len(streamed) \in Nat
        /\ Len(streamed') = Len(streamed) + 1
        /\ streamed'[Len(streamed) + 1] = x
        /\ \A k \in 1 .. Len(streamed) : streamed'[k] = streamed[k]
    <3> DEFINE T == [depth : 0 .. Bound, entries : SUBSET Entry]
    <3>1. streamed \in Seq(T)
      BY DEF TypeOK
    <3> HIDE DEF T, x
    <3> QED BY <2>1, <3>1
  <2>3. 1 .. Len(streamed') = (1 .. Len(streamed)) \cup {Len(streamed) + 1}
    BY <2>2
  <2>4. x.entries = frontier
    OBVIOUS
  <2> HIDE DEF x
  <2>5. ASSUME NEW n \in Nodes, NEW t \in Instants, Told(n, t)'
        PROVE  Told(n, t) \/ OnFrontier(n, t)
    BY <2>2, <2>3, <2>4, <2>5 DEF Told, OnFrontier
  <2>6. ASSUME NEW n \in Nodes, NEW t \in Instants, Told(n, t) \/ OnFrontier(n, t)
        PROVE  Told(n, t)'
    BY <2>2, <2>3, <2>4, <2>6 DEF Told, OnFrontier
  <2> QED BY <2>5, <2>6
<1> QED BY <1>1, <1>2

\* Entering a node reaches exactly the instants its new entry stands for.
LEMMA EnterKeepsStreaming ==
    ASSUME TypeOK, SpansStayMaximal, Streaming, Replaying,
           NEW n \in Nodes, NEW i \in Span, Enter(n, i),
           UNCHANGED <<phase, streamed, full>>
    PROVE  Streaming'
<1>1. CASE phase = "cut"
  BY <1>1 DEF Streaming, Told
<1>2. CASE phase = "replay"
  <2>1. Instants \subseteq Int
    BY OpenIntervalAssumption DEF Instants
  <2>2. CASE ~ Adds(reached[n], i)
    BY <1>2, <2>2 DEF Enter, Streaming, Told, OnFrontier
  <2>3. CASE Adds(reached[n], i)
    <3>1. frontier' = frontier \cup {[urn |-> n, valid |-> i]}
      BY <2>3 DEF Enter
    <3>2. \A m \in Nodes : \A t \in Int :
             Holds(reached'[m], t) <=>
                 Holds(reached[m], t) \/ (m = n /\ Contains(i, t))
      BY EnterEffect DEF TypeOK
    <3>3. \A m \in Nodes : \A t \in Instants :
             OnFrontier(m, t)' <=> OnFrontier(m, t) \/ (m = n /\ Contains(i, t))
      <4> DEFINE x == [urn |-> n, valid |-> i]
      <4>1. x.urn = n /\ x.valid = i /\ frontier' = frontier \cup {x}
        BY <3>1
      <4> HIDE DEF x
      <4>2. ASSUME NEW m \in Nodes, NEW t \in Instants, OnFrontier(m, t)'
            PROVE  OnFrontier(m, t) \/ (m = n /\ Contains(i, t))
        BY <4>1, <4>2 DEF OnFrontier
      <4>3. ASSUME NEW m \in Nodes, NEW t \in Instants,
                   OnFrontier(m, t) \/ (m = n /\ Contains(i, t))
            PROVE  OnFrontier(m, t)'
        BY <4>1, <4>3 DEF OnFrontier
      <4> QED BY <4>2, <4>3
    <3>4. \A m \in Nodes : \A t \in Instants : Told(m, t)' <=> Told(m, t)
      BY DEF Told
    <3> QED BY <1>2, <2>1, <3>2, <3>3, <3>4 DEF Streaming
  <2> QED BY <2>2, <2>3
<1> QED BY <1>1, <1>2 DEF Replaying

LEMMA StreamingStep ==
    ASSUME TypeOK, SpansStayMaximal, Ledger, Streaming, [Next]_vars
    PROVE  Streaming'
<1> USE DEF inputs, unionVars, replayVars
<1>1. ASSUME UNCHANGED <<phase, streamed, full, reached, frontier>>
      PROVE  Streaming'
  BY <1>1 DEF Streaming, Told, OnFrontier
<1>2. CASE ExpandUnion
  BY <1>1, <1>2 DEF ExpandUnion
<1>3. CASE ExpandFails
  BY <1>3 DEF ExpandFails, Streaming
<1>4. CASE EndUnion
  BY <1>4 DEF EndUnion, Streaming, Told, OnFrontier, Ledger, Nowhere, Holds
<1>5. ASSUME NEW s \in seeds, Seed(s) PROVE Streaming'
  <2>1. CASE s.urn \in blocked
    BY <1>1, <1>5, <2>1 DEF Seed
  <2>2. CASE s.urn \notin blocked
    <3>1. s.urn \in Nodes /\ Intersect(s.valid, Horizon) \in Span
      BY EnteredSpans DEF TypeOK
    <3>2. /\ Enter(s.urn, Intersect(s.valid, Horizon)) /\ Replaying
          /\ UNCHANGED <<phase, streamed, full>>
      BY <1>5, <2>2 DEF Seed
    <3> QED BY <3>1, <3>2, EnterKeepsStreaming
  <2> QED BY <2>1, <2>2
<1>6. ASSUME NEW p \in todo, Follow(p) PROVE Streaming'
  <2>1. CASE p.edge.to \in blocked
    BY <1>1, <1>6, <2>1 DEF Follow
  <2>2. CASE p.edge.to \notin blocked
    <3>1. p.edge.to \in Nodes /\ Intersect(p.entry.valid, p.edge.valid) \in Span
      BY EnteredSpans DEF TypeOK
    <3>2. /\ Enter(p.edge.to, Intersect(p.entry.valid, p.edge.valid)) /\ Replaying
          /\ UNCHANGED <<phase, streamed, full>>
      BY <1>6, <2>2 DEF Follow
    <3> QED BY <3>1, <3>2, EnterKeepsStreaming
  <2> QED BY <2>1, <2>2
<1>7. CASE ExpandLevel
  <2>1. CASE phase = "replay"
    <3>1. \A n \in Nodes : \A t \in Instants :
             Told(n, t)' <=> Told(n, t) \/ OnFrontier(n, t)
      BY <1>7, <2>1, ReportTells DEF ExpandLevel
    <3>2. \A n \in Nodes : \A t \in Instants : ~ OnFrontier(n, t)'
      BY <1>7 DEF ExpandLevel, OnFrontier
    <3> QED BY <1>7, <2>1, <3>1, <3>2 DEF ExpandLevel, Streaming
  <2>2. CASE phase = "cut"
    BY <1>7, <2>2 DEF ExpandLevel, Report, Streaming, Told
  <2> QED BY <1>7, <2>1, <2>2 DEF ExpandLevel, LevelDone, Replaying
<1>8. CASE EndReplay
  <2>1. CASE phase = "replay"
    <3>1. \A n \in Nodes : \A t \in Instants :
             Told(n, t)' <=> Told(n, t) \/ OnFrontier(n, t)
      BY <1>8, <2>1, ReportTells DEF EndReplay
    <3> QED BY <1>8, <2>1, <3>1 DEF EndReplay, Streaming
  <2>2. CASE phase = "cut"
    BY <1>8, <2>2 DEF EndReplay, Report, Streaming, Told
  <2> QED BY <1>8, <2>1, <2>2 DEF EndReplay, LevelDone, Replaying
<1>9. ASSUME NEW b \in Removals, Cut(b) PROVE Streaming'
  BY <1>9 DEF Cut, Finished, Streaming, Told
<1>10. CASE UNCHANGED vars
  BY <1>1, <1>10 DEF vars
<1> QED
  BY <1>2, <1>3, <1>4, <1>5, <1>6, <1>7, <1>8, <1>9, <1>10 DEF Next

\* The frontiers streamed to the observer say, between them, exactly what
\* the finished answer says: a reader of the stream needs nothing else.
THEOREM StreamTellsTheAnswer == Spec => []StreamIsTheAnswer
<1>1. Init => Streaming
  BY DEF Init, Streaming
<1>2. /\ TypeOK /\ SpansStayMaximal /\ Ledger /\ Streaming /\ [Next]_vars
      => Streaming'
  BY StreamingStep
<1>3. Streaming => StreamIsTheAnswer
  BY DEF Streaming, StreamIsTheAnswer, Finished
<1> QED
  BY <1>1, <1>2, <1>3, TypeCorrect, LedgerCorrect, PTL DEF Spec

-----------------------------------------------------------------------------
(* The search answers the question.  Module Reachability defines the answer *)
(* by Ball, a recursive function of the number of edges; the replay's level *)
(* is that number.  At the end of each level the nodes reached at an        *)
(* instant are exactly the ball of that radius (Levels), and a search that  *)
(* ends below the bound has reached a closed set, which no larger ball      *)
(* leaves.                                                                  *)

\* Ball satisfies the equation it is defined by: the function exists, by
\* induction on the radius.
LEMMA BallEquation ==
    ASSUME NEW t
    PROVE  /\ Abstract!Ball(t)[0] = Abstract!SeedsAt(t)
           /\ \A d \in 1 .. Bound :
                 Abstract!Ball(t)[d] =
                     Abstract!Ball(t)[d - 1]
                         \cup Abstract!StepAt(Abstract!Ball(t)[d - 1], t)
<1> DEFINE F == Abstract!SeedsAt(t)
           G(N) == Abstract!StepAt(N, t)
           IsBall(f, n) ==
               f = [d \in 0 .. n |->
                       IF d = 0 THEN F ELSE f[d - 1] \cup G(f[d - 1])]
           Upto == {n \in Nat : \E f : IsBall(f, n)}
<1>b. Bound \in Nat
  BY ReachAssumption DEF Bound
<1>1. Bound \in Upto
  <2> HIDE DEF F, G
  <2>1. 0 \in Upto
    <3>1. IsBall([d \in 0 .. 0 |-> F], 0)
      OBVIOUS
    <3> QED BY <3>1
  <2>2. ASSUME NEW n \in Nat, n \in Upto PROVE n + 1 \in Upto
    <3>1. PICK f : IsBall(f, n)
      BY <2>2
    <3> DEFINE g == [d \in 0 .. n + 1 |->
                        IF d <= n THEN f[d] ELSE f[n] \cup G(f[n])]
    <3>2. /\ \A d \in 0 .. n : g[d] = f[d]
          /\ g[n + 1] = f[n] \cup G(f[n])
      OBVIOUS
    <3>3. \A d \in 0 .. n :
             f[d] = IF d = 0 THEN F ELSE f[d - 1] \cup G(f[d - 1])
      BY <3>1
    <3>4. ASSUME NEW d \in 0 .. n + 1
          PROVE  g[d] = IF d = 0 THEN F ELSE g[d - 1] \cup G(g[d - 1])
      <4>1. CASE d = n + 1
        <5>1. d # 0 /\ d - 1 = n /\ n \in 0 .. n
          BY <4>1
        <5> QED BY <3>2, <4>1, <5>1
      <4>2. CASE d \in 0 .. n
        <5>1. d = 0 \/ d - 1 \in 0 .. n
          BY <4>2
        <5>2. g[d] = f[d] /\ (d = 0 \/ g[d - 1] = f[d - 1])
          BY <3>2, <4>2, <5>1
        <5> QED BY <3>3, <4>2, <5>2
      <4> QED BY <4>1, <4>2
    <3>5. IsBall(g, n + 1)
      <4>1. g = [d \in 0 .. n + 1 |-> g[d]]
        OBVIOUS
      <4> HIDE DEF g
      <4> QED BY <3>4, <4>1
    <3> HIDE DEF IsBall, g
    <3> QED BY <3>5
  <2> HIDE DEF Upto
  <2>3. Nat \subseteq Upto
    BY <2>1, <2>2, NatInductive
  <2> QED BY <2>3, <1>b
<1>2. IsBall(Abstract!Ball(t), Bound)
  BY <1>1 DEF Abstract!Ball
<1> DEFINE b == Abstract!Ball(t)
<1> HIDE DEF F, G, b
<1>3. b = [d \in 0 .. Bound |-> IF d = 0 THEN F ELSE b[d - 1] \cup G(b[d - 1])]
  BY <1>2 DEF b
<1>4. b[0] = F
  BY <1>3, <1>b
<1>5. ASSUME NEW d \in 1 .. Bound
      PROVE  b[d] = b[d - 1] \cup G(b[d - 1])
  <2>1. d \in 0 .. Bound /\ d # 0
    BY <1>b
  <2>2. b[d] = IF d = 0 THEN F ELSE b[d - 1] \cup G(b[d - 1])
    <3> DEFINE H(e) == IF e = 0 THEN F ELSE b[e - 1] \cup G(b[e - 1])
    <3>1. b = [e \in 0 .. Bound |-> H(e)]
      BY <1>3
    <3> HIDE DEF H
    <3>2. b[d] = H(d)
      BY <2>1, <3>1
    <3> QED BY <3>2 DEF H
  <2> QED BY <2>1, <2>2
<1> QED BY <1>4, <1>5 DEF F, G, b

\* A larger radius gives a larger ball.
LEMMA BallGrows ==
    ASSUME NEW t, NEW d \in 0 .. Bound, NEW e \in 0 .. Bound, d <= e
    PROVE  Abstract!Ball(t)[d] \subseteq Abstract!Ball(t)[e]
<1> DEFINE b == Abstract!Ball(t)
           Good == {n \in Nat : \A m \in Nat :
                        m <= n /\ n <= Bound => b[m] \subseteq b[n]}
<1>1. Bound \in Nat
  BY BoundType
<1>2. \A k \in 1 .. Bound : b[k - 1] \subseteq b[k]
  BY BallEquation
<1> HIDE DEF b
<1>3. 0 \in Good
  OBVIOUS
<1>4. ASSUME NEW n \in Nat, n \in Good PROVE n + 1 \in Good
  <2> SUFFICES ASSUME NEW m \in Nat, m <= n + 1, n + 1 <= Bound
               PROVE  b[m] \subseteq b[n + 1]
    OBVIOUS
  <2>1. b[n] \subseteq b[n + 1]
    <3>1. n + 1 \in 1 .. Bound /\ (n + 1) - 1 = n
      BY <1>1
    <3> QED BY <1>2, <3>1
  <2>2. CASE m = n + 1
    BY <2>2
  <2>3. CASE m <= n
    BY <1>1, <1>4, <2>1, <2>3
  <2> QED BY <2>2, <2>3
<1>5. e \in Good
  <2> HIDE DEF Good
  <2> QED BY <1>1, <1>3, <1>4, NatInductive
<1> QED BY <1>1, <1>5 DEF b

\* A closed set contains every ball: it has the live sources, and whatever
\* a live edge leads to from a node it has.
LEMMA BallInClosed ==
    ASSUME NEW t, NEW S, Closed(S, graph, t), NEW d \in 0 .. Bound
    PROVE  Abstract!Ball(t)[d] \subseteq S
<1> DEFINE b == Abstract!Ball(t)
           Good == {n \in Nat : n <= Bound => b[n] \subseteq S}
<1>1. Bound \in Nat
  BY BoundType
<1>2. Abstract!SeedsAt(t) \subseteq S
  BY DEF Abstract!SeedsAt, Abstract!Contains, Contains, Closed
<1>3. ASSUME NEW N, N \subseteq S PROVE Abstract!StepAt(N, t) \subseteq S
  BY <1>3 DEF Abstract!StepAt, Abstract!Contains, Contains, Closed
<1>4. b[0] \subseteq S
  BY <1>2, BallEquation
<1>5. ASSUME NEW n \in Nat, n \in Good PROVE n + 1 \in Good
  <2> SUFFICES ASSUME n + 1 <= Bound PROVE b[n + 1] \subseteq S
    OBVIOUS
  <2>1. n + 1 \in 1 .. Bound /\ (n + 1) - 1 = n /\ n <= Bound
    BY <1>1
  <2>2. b[n + 1] = b[n] \cup Abstract!StepAt(b[n], t)
    BY <2>1, BallEquation
  <2> HIDE DEF b
  <2>3. b[n] \subseteq S
    BY <1>5, <2>1
  <2> QED BY <1>3, <2>2, <2>3
<1> HIDE DEF b
<1>6. 0 \in Good
  BY <1>4
<1>7. d \in Good
  <2> HIDE DEF Good
  <2> QED BY <1>1, <1>5, <1>6, NatInductive
<1> QED BY <1>1, <1>7 DEF b

\* The balls depend on the question only.
LEMMA BallUnchanged ==
    ASSUME NEW t, UNCHANGED <<graph, sources, blocked>>
    PROVE  Abstract!Ball(t)' = Abstract!Ball(t)
BY DEF Abstract!Ball, Abstract!SeedsAt, Abstract!StepAt

\* Node n will be found at instant t before the level is done.
Awaited(n, t) ==
    /\ n \notin blocked
    /\ \/ \E s \in seeds :
             s.urn = n /\ Contains(s.valid, t) /\ Contains(Horizon, t)
       \/ \E p \in todo :
             /\ p.edge.to = n
             /\ Contains(p.entry.valid, t) /\ Contains(p.edge.valid, t)

\* What has been reached is inside the ball of the level, the pairs come from
\* the ball below it, and what is missing of the ball is still awaited.
LevelAt(t) ==
    /\ ReachedAt(t) \subseteq Abstract!Ball(t)[level]
    /\ \A p \in todo : Contains(p.entry.valid, t) =>
          level > 0 /\ p.entry.urn \in Abstract!Ball(t)[level - 1]
    /\ \A n \in Abstract!Ball(t)[level] : n \in ReachedAt(t) \/ Awaited(n, t)

Levels == Replaying \/ Finished => \A t \in Instants : LevelAt(t)

\* Entering a node of the ball keeps the level, provided the seed or the
\* pair that is settled is the one the node was entered for.
LEMMA EnterKeepsLevel ==
    ASSUME TypeOK, SpansStayMaximal,
           NEW n \in Nodes, NEW i \in Span, Enter(n, i),
           UNCHANGED <<graph, sources, blocked, level>>,
           todo' \subseteq todo,
           NEW t \in Instants, LevelAt(t),
           Contains(i, t) => n \in Abstract!Ball(t)[level],
           \A s \in seeds :
               \/ s \in seeds'
               \/ Contains(s.valid, t) /\ Contains(Horizon, t)
                     => s.urn = n /\ Contains(i, t),
           \A p \in todo :
               \/ p \in todo'
               \/ Contains(p.entry.valid, t) /\ Contains(p.edge.valid, t)
                     => p.edge.to = n /\ Contains(i, t)
    PROVE  LevelAt(t)'
<1>1. \A m \in Nodes :
         m \in ReachedAt(t)' <=> m \in ReachedAt(t) \/ (m = n /\ Contains(i, t))
  <2>1. \A m \in Nodes : \A u \in Int :
           Holds(reached'[m], u) <=>
               Holds(reached[m], u) \/ (m = n /\ Contains(i, u))
    BY EnterEffect DEF TypeOK
  <2> QED BY <2>1, OpenIntervalAssumption DEF Instants, ReachedAt, NodesAt
<1>2. ReachedAt(t) \subseteq Nodes /\ ReachedAt(t)' \subseteq Nodes
  BY DEF ReachedAt, NodesAt
<1>3. Abstract!Ball(t)' = Abstract!Ball(t)
  BY BallUnchanged
<1> DEFINE b == Abstract!Ball(t)
<1>4. /\ ReachedAt(t) \subseteq b[level]
      /\ \A p \in todo : Contains(p.entry.valid, t) =>
            level > 0 /\ p.entry.urn \in b[level - 1]
      /\ \A m \in b[level] : m \in ReachedAt(t) \/ Awaited(m, t)
  BY DEF LevelAt
<1>5. \A m : Awaited(m, t) => Awaited(m, t)' \/ (m = n /\ Contains(i, t))
  BY DEF Awaited
<1>6. /\ ReachedAt(t)' \subseteq b[level]
      /\ \A m \in b[level] : m \in ReachedAt(t)' \/ Awaited(m, t)'
  BY <1>1, <1>2, <1>4, <1>5
<1> QED BY <1>3, <1>4, <1>6 DEF LevelAt

\* A step that leaves the search's state alone but for nodes that are
\* removed keeps the level.
LEMMA SkipKeepsLevel ==
    ASSUME UNCHANGED <<graph, sources, blocked, level, reached>>,
           NEW t \in Instants, LevelAt(t),
           todo' \subseteq todo,
           \A s \in seeds : s \in seeds' \/ s.urn \in blocked,
           \A p \in todo : p \in todo' \/ p.edge.to \in blocked
    PROVE  LevelAt(t)'
<1>1. Abstract!Ball(t)' = Abstract!Ball(t)
  BY BallUnchanged
<1>2. ReachedAt(t)' = ReachedAt(t)
  BY DEF ReachedAt, NodesAt
<1>3. \A m : Awaited(m, t) => Awaited(m, t)'
  BY DEF Awaited
<1> QED BY <1>1, <1>2, <1>3 DEF LevelAt

\* A replay starts with the sources, the ball of radius 0.
LEMMA StartsLevel ==
    ASSUME NEW t \in Instants,
           level' = 0, todo' = {}, seeds' = sources', reached' = Nowhere
    PROVE  LevelAt(t)'
<1>1. (Abstract!Ball(t)[0] = Abstract!SeedsAt(t))'
  BY BallEquation, PTL
<1>2. ReachedAt(t)' = {}
  BY DEF ReachedAt, NodesAt, Nowhere, Holds
<1>3. \A n \in Abstract!SeedsAt(t)' : Awaited(n, t)'
  BY DEF Abstract!SeedsAt, Abstract!Contains, Contains, Awaited
<1> QED BY <1>1, <1>2, <1>3 DEF LevelAt

\* Expanding the frontier of a level that is done awaits the rest of the next
\* ball: every live edge out of a node that was reached leads to a node that
\* was reached too, or starts at an entry of the frontier.
LEMMA NextLevel ==
    ASSUME TypeOK, Ledger, Backed, CacheServesReplay, Pending, ExpandLevel,
           NEW t \in Instants, LevelAt(t)
    PROVE  LevelAt(t)'
<1> USE DEF inputs, unionVars
<1> DEFINE b == Abstract!Ball(t)
<1>1. b' = b
  BY BallUnchanged DEF ExpandLevel
<1>2. /\ LevelDone /\ level < Bound /\ level' = level + 1 /\ seeds' = {}
      /\ UNCHANGED <<blocked, reached>>
  BY DEF ExpandLevel, LevelDone
<1>3. level \in 0 .. Bound /\ level + 1 \in 1 .. Bound /\ (level + 1) - 1 = level
  BY <1>2, BoundType DEF TypeOK
<1>4. b[level + 1] = b[level] \cup Abstract!StepAt(b[level], t)
  BY <1>3, BallEquation
<1>5. b[level] = ReachedAt(t)
  <2>1. \A n : ~ Awaited(n, t)
    BY <1>2 DEF LevelDone, Awaited
  <2> QED BY <2>1 DEF LevelAt
<1>6. ReachedAt(t)' = ReachedAt(t)
  BY <1>2 DEF ReachedAt, NodesAt
<1>7. ASSUME NEW p \in todo', Contains(p.entry.valid, t)
      PROVE  p.entry.urn \in b[level]
  <2>1. p.entry \in frontier
    BY DEF ExpandLevel, Pair
  <2>2. Holds(reached[p.entry.urn], t) /\ p.entry.urn \in Nodes
    BY <1>7, <2>1 DEF Backed, TypeOK, Entry
  <2> QED BY <1>5, <2>2 DEF ReachedAt, NodesAt
<1>8. ASSUME NEW n \in Abstract!StepAt(b[level], t), n \notin ReachedAt(t)
      PROVE  Awaited(n, t)'
  <2>1. PICK e \in graph : /\ e.from \in ReachedAt(t) /\ Contains(e.valid, t)
                           /\ e.to \notin blocked /\ n = e.to
    BY <1>5 DEF Abstract!StepAt, Abstract!Contains, Contains
  <2>2. EdgePending(e, t)
    BY <1>2 DEF Pending, LevelDone
  <2>3. PICK f \in frontier : f.urn = e.from /\ Contains(f.valid, t)
    BY <1>2, <1>8, <2>1, <2>2 DEF EdgePending, LevelDone
  <2>4. e \in cache
    BY <1>2, <2>3 DEF LevelDone, CacheServesReplay, OutOf
  <2>5. Pair(f, e) \in todo'
    BY <2>3, <2>4 DEF ExpandLevel, Pair
  <2>6. Pair(f, e).edge = e /\ Pair(f, e).entry = f
    BY DEF Pair
  <2> QED BY <1>2, <2>1, <2>3, <2>5, <2>6 DEF Awaited
<1> HIDE DEF b
<1>9. /\ ReachedAt(t)' \subseteq b[level + 1]
      /\ \A n \in b[level + 1] : n \in ReachedAt(t)' \/ Awaited(n, t)'
  BY <1>4, <1>5, <1>6, <1>8 DEF b
<1>10. \A p \in todo' : Contains(p.entry.valid, t) =>
          level + 1 > 0 /\ p.entry.urn \in b[(level + 1) - 1]
  BY <1>3, <1>7
<1> QED BY <1>1, <1>2, <1>9, <1>10 DEF LevelAt, b

LEMMA LevelsStep ==
    ASSUME TypeOK, SpansStayMaximal, Ledger, Backed, CacheServesReplay,
           Pending, Levels, [Next]_vars
    PROVE  Levels'
<1> USE DEF inputs, unionVars, replayVars
<1>1. CASE ExpandUnion
  BY <1>1 DEF ExpandUnion, Levels, Replaying, Finished
<1>2. CASE ExpandFails
  BY <1>2 DEF ExpandFails, Levels, Replaying, Finished
<1>3. CASE EndUnion
  <2>1. /\ todo' = {} /\ seeds' = sources' /\ reached' = Nowhere
        /\ level' = level
    BY <1>3 DEF EndUnion, Ledger
  <2>2. level = 0
    BY <1>3 DEF EndUnion, Ledger
  <2> QED BY <2>1, <2>2, StartsLevel DEF Levels
<1>4. ASSUME NEW s \in seeds, Seed(s), NEW t \in Instants PROVE LevelAt(t)'
  <2>1. LevelAt(t)
    BY <1>4 DEF Levels, Seed
  <2>2. CASE s.urn \in blocked
    <3>1. /\ UNCHANGED <<graph, sources, blocked, level, reached, todo>>
          /\ seeds' = seeds \ {s}
      BY <1>4, <2>2 DEF Seed
    <3> QED BY <2>1, <2>2, <3>1, SkipKeepsLevel
  <2>3. CASE s.urn \notin blocked
    <3> DEFINE i == Intersect(s.valid, Horizon)
    <3>1. s.urn \in Nodes /\ i \in Span /\ s \in sources /\ s.valid \in Span
      BY EnteredSpans DEF TypeOK, Ledger, Entry
    <3>2. Contains(i, t) <=> Contains(s.valid, t) /\ Contains(Horizon, t)
      BY <3>1, IntersectPointwise, HorizonType, OpenIntervalAssumption DEF Instants
    <3>3. /\ Enter(s.urn, i) /\ seeds' = seeds \ {s}
          /\ UNCHANGED <<graph, sources, blocked, level, todo>>
      BY <1>4, <2>3 DEF Seed
    <3>4. Contains(i, t) => s.urn \in Abstract!Ball(t)[level]
      <4>1. Contains(i, t) => s.urn \in Abstract!SeedsAt(t)
        BY <2>3, <3>1, <3>2 DEF Abstract!SeedsAt, Abstract!Contains, Contains
      <4>2. 0 \in 0 .. Bound /\ level \in 0 .. Bound /\ 0 <= level
        BY BoundType DEF TypeOK
      <4>3. Abstract!Ball(t)[0] \subseteq Abstract!Ball(t)[level]
        BY <4>2, BallGrows
      <4> QED BY <4>1, <4>3, BallEquation
    <3> HIDE DEF i
    <3> QED BY <2>1, <3>1, <3>2, <3>3, <3>4, EnterKeepsLevel
  <2> QED BY <2>2, <2>3
<1>5. ASSUME NEW p \in todo, Follow(p), NEW t \in Instants PROVE LevelAt(t)'
  <2>1. LevelAt(t)
    BY <1>5 DEF Levels, Follow
  <2>2. CASE p.edge.to \in blocked
    <3>1. /\ UNCHANGED <<graph, sources, blocked, level, reached, seeds>>
          /\ todo' = todo \ {p}
      BY <1>5, <2>2 DEF Follow
    <3> QED BY <2>1, <2>2, <3>1, SkipKeepsLevel
  <2>3. CASE p.edge.to \notin blocked
    <3> DEFINE i == Intersect(p.entry.valid, p.edge.valid)
    <3>1. /\ p.edge.to \in Nodes /\ i \in Span
          /\ p.edge \in graph /\ p.edge.from = p.entry.urn
          /\ p.entry.valid \in Span /\ p.edge.valid \in Span
      BY EnteredSpans DEF TypeOK, Ledger, Entry, Edge
    <3>2. Contains(i, t) <=> Contains(p.entry.valid, t) /\ Contains(p.edge.valid, t)
      BY <3>1, IntersectPointwise, OpenIntervalAssumption DEF Instants
    <3>3. /\ Enter(p.edge.to, i) /\ todo' = todo \ {p}
          /\ UNCHANGED <<graph, sources, blocked, level, seeds>>
      BY <1>5, <2>3 DEF Follow
    <3>4. ASSUME Contains(i, t) PROVE p.edge.to \in Abstract!Ball(t)[level]
      <4>1. level > 0 /\ p.entry.urn \in Abstract!Ball(t)[level - 1]
        BY <2>1, <3>2, <3>4 DEF LevelAt
      <4>2. level \in 1 .. Bound
        BY <4>1, BoundType DEF TypeOK
      <4>3. p.edge.to \in Abstract!StepAt(Abstract!Ball(t)[level - 1], t)
        BY <2>3, <3>1, <3>2, <3>4, <4>1
        DEF Abstract!StepAt, Abstract!Contains, Contains
      <4> QED BY <4>2, <4>3, BallEquation
    <3> HIDE DEF i
    <3> QED BY <2>1, <3>1, <3>2, <3>3, <3>4, EnterKeepsLevel
  <2> QED BY <2>2, <2>3
<1>6. CASE ExpandLevel
  <2>1. Replaying
    BY <1>6 DEF ExpandLevel, LevelDone
  <2> QED BY <1>6, <2>1, NextLevel DEF Levels
<1>7. CASE EndReplay
  <2>1. /\ UNCHANGED <<graph, sources, blocked, level, reached, todo, seeds>>
        /\ Replaying
    BY <1>7 DEF EndReplay, LevelDone
  <2> QED BY <2>1, SkipKeepsLevel DEF Levels
<1>8. ASSUME NEW b \in Removals, Cut(b) PROVE Levels'
  <2>1. level' = 0 /\ todo' = {} /\ seeds' = sources' /\ reached' = Nowhere
    BY <1>8 DEF Cut, Ledger
  <2> QED BY <2>1, StartsLevel DEF Levels
<1>9. CASE UNCHANGED vars
  <2>1. /\ UNCHANGED <<graph, sources, blocked, level, reached, todo, seeds, phase>>
    BY <1>9 DEF vars
  <2> QED BY <2>1, SkipKeepsLevel DEF Levels, Replaying, Finished
<1> QED
  BY <1>1, <1>2, <1>3, <1>4, <1>5, <1>6, <1>7, <1>8, <1>9 DEF Next, Levels

\* Level by level the replay has the ball of the level's radius, at every
\* instant at once: what it keeps as spans per node, pruned and merged, is
\* the pointwise search of every instant (reach.go, replay).
THEOREM LevelsCorrect == Spec => []Levels
<1>1. Init => Levels
  BY DEF Init, Levels, Replaying, Finished
<1>2. /\ TypeOK /\ SpansStayMaximal /\ Ledger /\ Backed /\ CacheServesReplay
      /\ Pending /\ Levels /\ [Next]_vars
      => Levels'
  BY LevelsStep
<1> QED
  BY <1>1, <1>2, TypeCorrect, LedgerCorrect, BackedCorrect, CacheServes,
     PendingCorrect, PTL
  DEF Spec

\* What the replay has when it ends is the whole answer: at the depth bound
\* it is the largest ball, and below the bound it is closed, so that the
\* balls of larger radius are the same.
LEMMA EndIsExact ==
    ASSUME TypeOK, Pending, Levels, LevelDone,
           frontier = {} \/ level = Bound, NEW t \in Instants
    PROVE  ReachedAt(t) = Abstract!Ball(t)[Bound]
<1> DEFINE b == Abstract!Ball(t)
<1>1. b[level] = ReachedAt(t)
  <2>1. \A n : ~ Awaited(n, t)
    BY DEF LevelDone, Awaited
  <2> QED BY <2>1 DEF Levels, LevelAt, LevelDone
<1>2. CASE level = Bound
  BY <1>1, <1>2
<1>3. CASE frontier = {}
  <2>1. level \in 0 .. Bound /\ Bound \in 0 .. Bound /\ level <= Bound
    BY BoundType DEF TypeOK
  <2>2. b[level] \subseteq b[Bound]
    BY <2>1, BallGrows
  <2>3. Closed(ReachedAt(t), graph, t)
    <3>1. \A s \in sources : SeedPending(s, t)
      BY DEF Pending, LevelDone
    <3>2. \A e \in graph : EdgePending(e, t)
      BY DEF Pending, LevelDone
    <3> QED BY <1>3, <3>1, <3>2 DEF Closed, SeedPending, EdgePending, LevelDone
  <2>4. b[Bound] \subseteq ReachedAt(t)
    BY <2>1, <2>3, BallInClosed
  <2> QED BY <1>1, <2>2, <2>4
<1> QED BY <1>2, <1>3

\* Every step of the search is a step of the question and answer of module
\* Reachability, or none: only the end of a replay answers, only a failing
\* expander fails, and only a cut asks again.
LEMMA StepAnswers ==
    ASSUME TypeOK, Ledger, Pending, Levels, [Next]_vars
    PROVE  [Abstract!Next]_(Abstract!vars)
<1> USE DEF inputs, unionVars, replayVars
<1> DEFINE status == IF phase = "failed" THEN "failed"
                     ELSE IF Finished THEN "answered" ELSE "open"
           answer == [t \in Instants |-> IF Finished THEN ReachedAt(t) ELSE {}]
<1>1. ASSUME UNCHANGED <<graph, sources, blocked>>,
             phase # "failed", phase' # "failed", ~ Finished, ~ Finished'
      PROVE  UNCHANGED Abstract!vars
  BY <1>1 DEF Abstract!vars
<1>2. CASE ExpandUnion
  BY <1>1, <1>2 DEF ExpandUnion, Finished
<1>3. CASE ExpandFails
  <2>1. /\ blocked = {} /\ phase = "union" /\ phase' = "failed"
        /\ UNCHANGED <<graph, sources, blocked>>
        /\ ~ Finished /\ ~ Finished'
    BY <1>3 DEF ExpandFails, Ledger, Finished
  <2>2. Abstract!Fail
    BY <2>1 DEF Abstract!Fail
  <2> QED BY <2>2 DEF Abstract!Next
<1>4. CASE EndUnion
  BY <1>1, <1>4 DEF EndUnion, Finished
<1>5. ASSUME NEW s \in seeds, Seed(s) PROVE UNCHANGED Abstract!vars
  BY <1>1, <1>5 DEF Seed, Replaying, Finished
<1>6. ASSUME NEW p \in todo, Follow(p) PROVE UNCHANGED Abstract!vars
  BY <1>1, <1>6 DEF Follow, Replaying, Finished
<1>7. CASE ExpandLevel
  BY <1>1, <1>7 DEF ExpandLevel, LevelDone, Replaying, Finished
<1>8. CASE EndReplay
  <2>1. /\ LevelDone /\ (frontier = {} \/ level = Bound)
        /\ UNCHANGED <<graph, sources, blocked, reached>>
        /\ phase # "failed" /\ ~ Finished /\ phase' # "failed" /\ Finished'
    BY <1>8 DEF EndReplay, LevelDone, Replaying, Finished
  <2>2. \A t \in Instants : ReachedAt(t)' = Abstract!Ball(t)[Bound]
    <3>1. \A t \in Instants : ReachedAt(t) = Abstract!Ball(t)[Bound]
      BY <2>1, EndIsExact
    <3> QED BY <2>1, <3>1 DEF ReachedAt, NodesAt
  <2>3. answer' = Abstract!Truth
    <3>1. answer' = [t \in Instants |-> ReachedAt(t)']
      BY <2>1
    <3>2. Abstract!Truth = [t \in Instants |-> Abstract!Ball(t)[Bound]]
      BY DEF Abstract!Truth, Abstract!Instants, Instants
    <3> QED BY <2>2, <3>1, <3>2
  <2>4. Abstract!Answer
    BY <2>1, <2>3 DEF Abstract!Answer
  <2> QED BY <2>4 DEF Abstract!Next
<1>9. ASSUME NEW b \in Removals, Cut(b) PROVE Abstract!Next
  <2>1. /\ Finished /\ phase # "failed" /\ phase' # "failed" /\ ~ Finished'
        /\ blocked' = b /\ UNCHANGED <<graph, sources>>
    BY <1>9 DEF Cut, Finished
  <2>2. answer' = Abstract!Nothing
    BY <2>1 DEF Abstract!Nothing, Abstract!Instants, Instants
  <2>3. Abstract!AskWithout(b)
    BY <2>1, <2>2 DEF Abstract!AskWithout
  <2> QED BY <2>3 DEF Abstract!Next
<1>10. CASE UNCHANGED vars
  BY <1>10 DEF vars, Abstract!vars, Finished, ReachedAt, NodesAt
<1> QED
  BY <1>2, <1>3, <1>4, <1>5, <1>6, <1>7, <1>8, <1>9, <1>10 DEF Next

\* The search gives the exact answer, removal analysis included: whatever
\* the graph, the horizon and the depth bound, each answer is, for every
\* instant, the set of nodes at most Bound live edges from a live source
\* (reach.go, Reach; cut.go, Cuts).
THEOREM SearchIsReachability == Spec => ImplementsReachability
<1>1. Init => Abstract!Init
  <2> SUFFICES ASSUME Init PROVE Abstract!Init
    OBVIOUS
  <2>1. ~ Finished /\ phase # "failed"
    BY DEF Init, Finished
  <2> QED BY <2>1 DEF Init, Abstract!Init, Abstract!Nothing,
                      Abstract!Instants, Instants
<1>2. TypeOK /\ Ledger /\ Pending /\ Levels /\ [Next]_vars
      => [Abstract!Next]_(Abstract!vars)
  BY StepAnswers
<1> QED
  BY <1>1, <1>2, TypeCorrect, LedgerCorrect, PendingCorrect, LevelsCorrect, PTL
  DEF Spec, ImplementsReachability, Abstract!Spec

-----------------------------------------------------------------------------
(* One hop of a search (module Expander).                                   *)

\* No URN twice.
Once(list) ==
    list \in Seq(Urns) /\ \A j, k \in 1 .. Len(list) : list[j] = list[k] => j = k

\* The loop of expand that leaves out what the pattern does not match.
LEMMA ValidIs ==
    ASSUME NEW list, Once(list)
    PROVE  /\ Once(Valid(list)) /\ Len(Valid(list)) <= Len(list)
           /\ Listed(Valid(list)) = Listed(list) \cap Matched
<1> DEFINE n == Len(list)
           D == Seq(Urns)
           Next_(k, s) == IF list[k] \in Matched THEN Append(s, list[k]) ELSE s
           F == [x \in Int \X D |-> IF x[1] \in 1 .. n THEN Next_(x[1], x[2]) ELSE x[2]]
<1>1. n \in Nat /\ \A k \in 1 .. n : list[k] \in Urns
  BY DEF Once
<1>2. \A k \in 1 .. n : \A s \in D : Next_(k, s) \in D
  BY <1>1
<1> HIDE DEF Next_
<1>3. F \in [Int \X D -> D] /\ \A k \in 1 .. n : \A s \in D : F[<<k, s>>] = Next_(k, s)
  BY <1>1, <1>2
<1> HIDE DEF F, n
<1>4. PICK f : IterationOf(f, 0, n, D, << >>, F)
  <2>1. Iterating(0, n, D, << >>, F)
    BY <1>1, <1>3 DEF Iterating
  <2> HIDE DEF D
  <2> QED BY <2>1, IterationExists
<1> DEFINE IsPass(v) == v = [k \in 0 .. n |->
                               IF k = 0 THEN << >>
                               ELSE IF list[k] \in Matched THEN Append(v[k - 1], list[k])
                                    ELSE v[k - 1]]
<1>5. IsPass(f)
  <2>1. f \in [0 .. n -> D] /\ f[0] = << >> /\ \A k \in 0 + 1 .. n : f[k] = F[<<k, f[k - 1]>>]
    BY <1>4 DEF IterationOf
  <2>2. \A k \in 0 .. n : k # 0 => k \in 0 + 1 .. n /\ k \in 1 .. n /\ k - 1 \in 0 .. n
    BY <1>1
  <2>3. \A k \in 0 .. n : k # 0 => f[k] = Next_(k, f[k - 1])
    <3> HIDE DEF D
    <3> QED BY <1>3, <2>1, <2>2
  <2>4. f = [k \in 0 .. n |-> f[k]]
    BY <2>1
  <2> QED BY <2>1, <2>3, <2>4 DEF Next_
<1>6. Valid(list) = (CHOOSE v : IsPass(v))[n]
  BY DEF Valid, n
<1> DEFINE v == CHOOSE w : IsPass(w)
<1>7. IsPass(v)
  BY <1>5
<1> HIDE DEF v
<1>8. v[0] = << >> /\ \A k \in 0 .. n : k # 0 => v[k] = Next_(k, v[k - 1])
  <2>1. 0 \in 0 .. n
    BY <1>1
  <2>2. \A k \in 0 .. n : v[k] = IF k = 0 THEN << >>
                                ELSE IF list[k] \in Matched THEN Append(v[k - 1], list[k])
                                     ELSE v[k - 1]
    BY <1>7
  <2> QED BY <2>1, <2>2 DEF Next_
<1> HIDE DEF IsPass
<1> DEFINE Seen_(k) == {list[j] : j \in 1 .. k}
           Good(k) == Once(v[k]) /\ Len(v[k]) <= k /\ Listed(v[k]) = Seen_(k) \cap Matched
           Upto == {k \in Nat : k <= n => Good(k)}
<1>9. 0 \in Upto
  <2>1. Once(<< >>) /\ Len(<< >>) = 0 /\ Listed(<< >>) = {} /\ Seen_(0) = {}
    BY DEF Once, Listed
  <2> QED BY <1>8, <2>1
<1>10. ASSUME NEW k \in Nat, k \in Upto PROVE k + 1 \in Upto
  <2> SUFFICES ASSUME k + 1 <= n PROVE Good(k + 1)
    OBVIOUS
  <2>1. Good(k)
    BY <1>1, <1>10
  <2>2. k + 1 \in 0 .. n /\ k + 1 \in 1 .. n /\ k + 1 # 0 /\ (k + 1) - 1 = k
    BY <1>1
  <2>3. v[k + 1] = Next_(k + 1, v[k])
    BY <1>8, <2>2
  <2>4. Seen_(k + 1) = Seen_(k) \cup {list[k + 1]}
    <3>1. \A j : j \in 1 .. k + 1 <=> j \in 1 .. k \/ j = k + 1
      OBVIOUS
    <3> QED BY <3>1
  <2>5. list[k + 1] \notin Seen_(k)
    <3>1. \A j \in 1 .. k : j \in 1 .. n /\ j # k + 1
      BY <1>1, <2>2
    <3> QED BY <2>2, <3>1 DEF Once, n
  <2>6. CASE list[k + 1] \notin Matched
    <3>1. v[k + 1] = v[k]
      BY <2>3, <2>6 DEF Next_
    <3>2. Len(v[k]) \in Nat /\ Len(v[k]) <= k + 1
      BY <2>1 DEF Once
    <3> HIDE DEF Seen_
    <3> QED BY <2>1, <2>4, <2>6, <3>1, <3>2
  <2>7. CASE list[k + 1] \in Matched
    <3> DEFINE s == v[k]
               u == list[k + 1]
    <3>1. v[k + 1] = Append(s, u)
      BY <2>3, <2>7 DEF Next_
    <3>2. s \in Seq(Urns) /\ Len(s) \in Nat /\ Len(s) <= k
          /\ \A i, j \in 1 .. Len(s) : s[i] = s[j] => i = j
      BY <2>1 DEF Once
    <3>3. u \in Urns
      BY <1>1, <2>2
    <3>4. Listed(s) = Seen_(k) \cap Matched
      BY <2>1
    <3> HIDE DEF s, u, Seen_
    <3>5. /\ Append(s, u) \in Seq(Urns) /\ Len(Append(s, u)) = Len(s) + 1
          /\ \A i \in 1 .. Len(s) : Append(s, u)[i] = s[i]
          /\ Append(s, u)[Len(s) + 1] = u
      BY <3>2, <3>3
    <3>6. u \notin Listed(s)
      BY <2>5, <3>4 DEF u
    <3>7. \A i : i \in 1 .. Len(s) + 1 <=> i \in 1 .. Len(s) \/ i = Len(s) + 1
      BY <3>2
    <3>8. Once(Append(s, u))
      BY <3>2, <3>5, <3>6, <3>7 DEF Once, Listed
    <3>9. Listed(Append(s, u)) = Listed(s) \cup {u}
      BY <3>5, <3>7 DEF Listed
    <3> QED BY <2>4, <2>7, <3>1, <3>2, <3>4, <3>5, <3>8, <3>9 DEF u
  <2> QED BY <2>6, <2>7
<1> HIDE DEF Upto
<1>11. Nat \subseteq Upto
  BY <1>9, <1>10, NatInductive
<1>12. Good(n)
  BY <1>1, <1>11 DEF Upto
<1>13. Seen_(n) = Listed(list)
  BY DEF Listed, n
<1> QED BY <1>6, <1>12, <1>13 DEF v, n

\* A list cut in two has its members in the two parts.
LEMMA CutIs ==
    ASSUME NEW list, Once(list), NEW h \in 1 .. Len(list)
    PROVE  LET l == SubSeq(list, 1, h)
               r == SubSeq(list, h + 1, Len(list))
           IN  /\ Once(l) /\ l # << >> /\ Once(r) /\ Len(r) = Len(list) - h
               /\ Listed(l) \cup Listed(r) = Listed(list)
               /\ Listed(l) \cap Listed(r) = {}
<1> DEFINE n == Len(list)
           l == SubSeq(list, 1, h)
           r == SubSeq(list, h + 1, n)
<1>1. /\ n \in Nat /\ h \in 1 .. n /\ list \in Seq(Urns)
      /\ \A k \in 1 .. n : list[k] \in Urns
      /\ \A j, k \in 1 .. n : list[j] = list[k] => j = k
  BY DEF Once
<1> HIDE DEF n
<1>3. l \in Seq(Urns) /\ Len(l) = h /\ \A k \in 1 .. h : l[k] = list[k]
  <2>1. \A k \in 1 .. h : list[k] \in Urns
    BY <1>1
  <2>2. /\ l \in Seq(Urns) /\ Len(l) = IF 1 <= h THEN h - 1 + 1 ELSE 0
        /\ \A k \in 1 .. h - 1 + 1 : l[k] = list[1 + k - 1]
    BY <1>1, <2>1, SubSeqProperties
  <2>3. h - 1 + 1 = h /\ 1 <= h /\ \A k \in 1 .. h : 1 + k - 1 = k
    BY <1>1
  <2> QED BY <2>2, <2>3
<1>4. r \in Seq(Urns) /\ Len(r) = n - h /\ \A k \in 1 .. n - h : r[k] = list[h + k]
  <2>1. \A k \in h + 1 .. n : list[k] \in Urns
    BY <1>1
  <2>2. /\ r \in Seq(Urns) /\ Len(r) = IF h + 1 <= n THEN n - (h + 1) + 1 ELSE 0
        /\ \A k \in 1 .. n - (h + 1) + 1 : r[k] = list[(h + 1) + k - 1]
    BY <1>1, <2>1, SubSeqProperties
  <2>3. /\ n - (h + 1) + 1 = n - h /\ (~ (h + 1 <= n) => n - h = 0)
        /\ \A k \in 1 .. n - h : (h + 1) + k - 1 = h + k
    BY <1>1
  <2> QED BY <2>2, <2>3
<1> HIDE DEF l, r
<1>5. Once(l) /\ l # << >>
  BY <1>1, <1>3 DEF Once
<1>6. Once(r)
  <2>1. \A k \in 1 .. n - h : h + k \in 1 .. n
    BY <1>1
  <2>2. \A j, k \in 1 .. n - h : r[j] = r[k] => j = k
    BY <1>1, <1>4, <2>1
  <2> QED BY <1>4, <2>2 DEF Once
<1>7. Listed(l) = {list[k] : k \in 1 .. h} /\ Listed(r) = {list[k] : k \in h + 1 .. n}
  <2>1. \A k \in 1 .. n - h : h + k \in h + 1 .. n
    BY <1>1
  <2>2. \A k \in h + 1 .. n : k - h \in 1 .. n - h /\ h + (k - h) = k
    BY <1>1
  <2>3. Listed(l) = {l[k] : k \in 1 .. h} /\ Listed(r) = {r[k] : k \in 1 .. n - h}
    BY <1>3, <1>4, Zenon DEF Listed
  <2>4. {l[k] : k \in 1 .. h} = {list[k] : k \in 1 .. h}
    BY <1>3
  <2>5. {r[k] : k \in 1 .. n - h} = {list[k] : k \in h + 1 .. n}
    BY <1>4, <2>1, <2>2
  <2> QED BY <2>3, <2>4, <2>5
<1>8. \A k : k \in 1 .. n <=> k \in 1 .. h \/ k \in h + 1 .. n
  BY <1>1
<1>9. Listed(l) \cup Listed(r) = Listed(list)
  BY <1>7, <1>8 DEF Listed, n
<1>10. Listed(l) \cap Listed(r) = {}
  <2>1. \A j \in 1 .. h : \A k \in h + 1 .. n : j \in 1 .. n /\ k \in 1 .. n /\ j # k
    BY <1>1
  <2> QED BY <1>1, <1>7, <2>1
<1> QED BY <1>4, <1>5, <1>6, <1>9, <1>10 DEF l, r, n

\* The halves of a list have its members between them.
LEMMA HalvesAre ==
    ASSUME NEW list, Once(list), Len(list) > 1
    PROVE  LET l == LeftHalf(list)
               r == RightHalf(list)
           IN  /\ Once(l) /\ l # << >> /\ Once(r) /\ r # << >>
               /\ Listed(l) \cup Listed(r) = Listed(list)
               /\ Listed(l) \cap Listed(r) = {}
<1> DEFINE h == Len(list) \div 2
<1>1. Len(list) \in Nat /\ h \in 1 .. Len(list) /\ Len(list) - h # 0
  BY DEF Once
<1>2. LeftHalf(list) = SubSeq(list, 1, h)
      /\ RightHalf(list) = SubSeq(list, h + 1, Len(list))
  BY DEF LeftHalf, RightHalf
<1> HIDE DEF h
<1>3. RightHalf(list) # << >>
  <2>1. Len(RightHalf(list)) = Len(list) - h
    BY <1>1, <1>2, CutIs
  <2> QED BY <1>1, <2>1
<1>4. LET l == SubSeq(list, 1, h)
          r == SubSeq(list, h + 1, Len(list))
      IN  /\ Once(l) /\ l # << >> /\ Once(r) /\ Len(r) = Len(list) - h
          /\ Listed(l) \cup Listed(r) = Listed(list)
          /\ Listed(l) \cap Listed(r) = {}
  BY <1>1, CutIs, Zenon
<1> QED BY <1>2, <1>3, <1>4, Zenon

\* What the lists of p hold between them, and r.
Waiting(p, r) == (UNION {Listed(p[k]) : k \in 1 .. Len(p)}) \cup Listed(r)

\* No URN is in two places of the lists of p and of r, and no list is empty.
Apart(p, r) ==
    /\ p \in Seq(Seq(Urns)) /\ Once(r)
    /\ \A k \in 1 .. Len(p) :
          Once(p[k]) /\ p[k] # << >> /\ Listed(p[k]) \cap Listed(r) = {}
    /\ \A j, k \in 1 .. Len(p) : j # k => Listed(p[j]) \cap Listed(p[k]) = {}

\* The next list, and the others.
LEMMA NextList ==
    ASSUME NEW p, NEW r, Apart(p, r), p # << >>
    PROVE  /\ Once(Head(p)) /\ Head(p) # << >>
           /\ Apart(Tail(p), r) /\ Len(Tail(p)) = Len(p) - 1
           /\ Waiting(p, r) = Listed(Head(p)) \cup Waiting(Tail(p), r)
           /\ Listed(Head(p)) \cap Waiting(Tail(p), r) = {}
<1> DEFINE t == Tail(p)
           n == Len(p)
<1>1. p \in Seq(Seq(Urns)) /\ n \in Nat /\ n >= 1
  BY DEF Apart
<1>2. Head(p) = p[1] /\ t \in Seq(Seq(Urns)) /\ Len(t) = n - 1
      /\ \A k \in 1 .. n - 1 : t[k] = p[k + 1]
  BY <1>1
<1> HIDE DEF t, n
<1>3. \A k \in 1 .. n - 1 : k + 1 \in 1 .. n /\ k + 1 # 1
  BY <1>1
<1>4. \A k \in 1 .. n : k = 1 \/ (k - 1 \in 1 .. n - 1 /\ (k - 1) + 1 = k)
  BY <1>1
<1>5. 1 \in 1 .. n
  BY <1>1
<1>6. /\ Once(r)
      /\ \A k \in 1 .. n : Once(p[k]) /\ p[k] # << >> /\ Listed(p[k]) \cap Listed(r) = {}
      /\ \A j, k \in 1 .. n : j # k => Listed(p[j]) \cap Listed(p[k]) = {}
  BY DEF Apart, n
<1>7. \A k \in 1 .. n - 1 : /\ Once(t[k]) /\ t[k] # << >> /\ Listed(t[k]) \cap Listed(r) = {}
                            /\ Listed(p[1]) \cap Listed(t[k]) = {}
  BY <1>2, <1>3, <1>5, <1>6
<1>8. \A j, k \in 1 .. n - 1 : j # k => Listed(t[j]) \cap Listed(t[k]) = {}
  <2>1. \A j, k \in 1 .. n - 1 : j # k => j + 1 # k + 1
    BY <1>1
  <2> QED BY <1>2, <1>3, <1>6, <2>1
<1>9. Apart(t, r)
  BY <1>2, <1>6, <1>7, <1>8 DEF Apart
<1>10. UNION {Listed(p[k]) : k \in 1 .. n} =
          Listed(p[1]) \cup UNION {Listed(t[k]) : k \in 1 .. n - 1}
  BY <1>2, <1>3, <1>4, <1>5
<1>11. Waiting(p, r) = Listed(p[1]) \cup Waiting(t, r)
  BY <1>2, <1>10 DEF Waiting, n
<1>12. Listed(p[1]) \cap Waiting(t, r) = {}
  <2> DEFINE L(k) == Listed(t[k])
  <2>1. Waiting(t, r) = (UNION {L(k) : k \in 1 .. n - 1}) \cup Listed(r)
    BY <1>2 DEF Waiting
  <2>2. \A k \in 1 .. n - 1 : Listed(p[1]) \cap L(k) = {}
    BY <1>7
  <2>3. Listed(p[1]) \cap Listed(r) = {}
    BY <1>5, <1>6
  <2> HIDE DEF L
  <2> QED BY <2>1, <2>2, <2>3
<1> QED BY <1>2, <1>5, <1>6, <1>9, <1>11, <1>12 DEF t, n

\* Two lists put in front.
LEMMA TwoLists ==
    ASSUME NEW p, NEW r, Apart(p, r), NEW a, NEW b, Once(a), a # << >>, Once(b), b # << >>,
           Listed(a) \cap Listed(b) = {}, Listed(a) \cap Waiting(p, r) = {},
           Listed(b) \cap Waiting(p, r) = {}
    PROVE  /\ Apart(<<a, b>> \o p, r) /\ Len(<<a, b>> \o p) = Len(p) + 2
           /\ Waiting(<<a, b>> \o p, r) = Listed(a) \cup Listed(b) \cup Waiting(p, r)
<1> DEFINE two == <<a, b>>
           q == two \o p
           n == Len(p)
<1>1. a \in Seq(Urns) /\ b \in Seq(Urns) /\ p \in Seq(Seq(Urns)) /\ n \in Nat
  BY DEF Once, Apart
<1>2. two \in Seq(Seq(Urns)) /\ Len(two) = 2 /\ two[1] = a /\ two[2] = b
  BY <1>1
<1> HIDE DEF two, n
<1>3. q \in Seq(Seq(Urns)) /\ Len(q) = 2 + n
      /\ \A k \in 1 .. 2 + n : q[k] = IF k <= 2 THEN two[k] ELSE p[k - 2]
  <2>1. /\ two \o p \in Seq(Seq(Urns)) /\ Len(two \o p) = Len(two) + Len(p)
        /\ \A k \in 1 .. Len(two) + Len(p) :
              (two \o p)[k] = IF k <= Len(two) THEN two[k] ELSE p[k - Len(two)]
    <3>1. p \in Seq(Seq(Urns))
      BY <1>1
    <3>2. two \in Seq(Seq(Urns))
      BY <1>2
    <3> HIDE DEF q
    <3> QED BY <3>1, <3>2, ConcatProperties, Zenon
  <2> QED BY <1>2, <2>1, Zenon DEF n
<1> HIDE DEF q
<1>4. /\ 1 \in 1 .. 2 + n /\ 2 \in 1 .. 2 + n
      /\ \A k \in 1 .. n : k + 2 \in 1 .. 2 + n /\ ~ (k + 2 <= 2) /\ (k + 2) - 2 = k
      /\ \A k \in 1 .. 2 + n : k = 1 \/ k = 2 \/ (k - 2 \in 1 .. n /\ (k - 2) + 2 = k)
  BY <1>1
<1>5. q[1] = a /\ q[2] = b /\ \A k \in 1 .. n : q[k + 2] = p[k]
  BY <1>2, <1>3, <1>4
<1>6. /\ Once(r)
      /\ \A k \in 1 .. n : Once(p[k]) /\ p[k] # << >> /\ Listed(p[k]) \cap Listed(r) = {}
      /\ \A j, k \in 1 .. n : j # k => Listed(p[j]) \cap Listed(p[k]) = {}
  BY DEF Apart, n
<1>7. /\ Listed(a) \cap Listed(r) = {} /\ Listed(b) \cap Listed(r) = {}
      /\ \A k \in 1 .. n : Listed(a) \cap Listed(p[k]) = {} /\ Listed(b) \cap Listed(p[k]) = {}
  <2> DEFINE L(k) == Listed(p[k])
  <2>1. Waiting(p, r) = (UNION {L(k) : k \in 1 .. n}) \cup Listed(r)
    BY DEF Waiting, n
  <2>2. \A k \in 1 .. n : L(k) \subseteq Waiting(p, r)
    <3> HIDE DEF L
    <3> QED BY <2>1
  <2> QED BY <2>1, <2>2
<1>8. \A k \in 1 .. 2 + n : Once(q[k]) /\ q[k] # << >> /\ Listed(q[k]) \cap Listed(r) = {}
  BY <1>4, <1>5, <1>6, <1>7
<1>9. ASSUME NEW j \in 1 .. 2 + n, NEW k \in 1 .. 2 + n, j # k
      PROVE  Listed(q[j]) \cap Listed(q[k]) = {}
  <2>1. \/ j = 1 \/ j = 2 \/ (j - 2 \in 1 .. n /\ q[j] = p[j - 2])
    BY <1>4, <1>5
  <2>2. \/ k = 1 \/ k = 2 \/ (k - 2 \in 1 .. n /\ q[k] = p[k - 2])
    BY <1>4, <1>5
  <2>3. j - 2 # k - 2
    BY <1>1, <1>9
  <2> QED BY <1>5, <1>6, <1>7, <1>9, <2>1, <2>2, <2>3
<1>10. Apart(q, r)
  BY <1>3, <1>6, <1>8, <1>9 DEF Apart
<1>11. UNION {Listed(q[k]) : k \in 1 .. 2 + n} =
          Listed(a) \cup Listed(b) \cup UNION {Listed(p[k]) : k \in 1 .. n}
  BY <1>4, <1>5
<1>12. Waiting(q, r) = Listed(a) \cup Listed(b) \cup Waiting(p, r)
  BY <1>3, <1>11 DEF Waiting, n
<1> QED BY <1>1, <1>3, <1>10, <1>12 DEF q, two, n

\* A list has finitely many members, no more than its length.
LEMMA ListIsFinite ==
    ASSUME NEW list \in Seq(Urns)
    PROVE  /\ IsFiniteSet(Listed(list)) /\ Cardinality(Listed(list)) \in Nat
           /\ Cardinality(Listed(list)) <= Len(list)
<1> DEFINE f == [k \in 1 .. Len(list) |-> list[k]]
<1>1. f \in Surjection(1 .. Len(list), Listed(list))
  <2>1. f \in [1 .. Len(list) -> Listed(list)]
    BY DEF Listed
  <2>2. \A x \in Listed(list) : \E k \in 1 .. Len(list) : f[k] = x
    BY DEF Listed
  <2> HIDE DEF f
  <2> QED BY <2>1, <2>2 DEF Surjection
<1>2. Len(list) \in Nat
  OBVIOUS
<1>3. IsFiniteSet(1 .. Len(list)) /\ Cardinality(1 .. Len(list)) = Len(list)
  BY <1>2, FS_Interval
<1> HIDE DEF f
<1> QED BY <1>1, <1>3, FS_Surjection, FS_CardinalityType

\* There are no more lists than URNs in them.
LEMMA ListsAreFew ==
    ASSUME NEW p, NEW r, Apart(p, r), NEW A, IsFiniteSet(A), Waiting(p, r) \subseteq A
    PROVE  /\ IsFiniteSet(Waiting(p, r)) /\ Cardinality(Waiting(p, r)) \in Nat
           /\ Cardinality(Waiting(p, r)) <= Cardinality(A) /\ Cardinality(A) \in Nat
           /\ Len(p) \in Nat /\ Len(p) <= Cardinality(Waiting(p, r))
<1> DEFINE W == Waiting(p, r)
           f == [k \in 1 .. Len(p) |-> p[k][1]]
<1>1. IsFiniteSet(W) /\ Cardinality(W) \in Nat /\ Cardinality(A) \in Nat
      /\ Cardinality(W) <= Cardinality(A)
  BY FS_Subset, FS_CardinalityType
<1>2. Len(p) \in Nat
  BY DEF Apart
<1>3. \A k \in 1 .. Len(p) : p[k][1] \in Listed(p[k])
  BY DEF Apart, Once, Listed
<1>4. f \in Injection(1 .. Len(p), W)
  <2>1. \A k \in 1 .. Len(p) : f[k] = p[k][1] /\ f[k] \in W
    <3> DEFINE L(k) == Listed(p[k])
    <3>1. W = (UNION {L(k) : k \in 1 .. Len(p)}) \cup Listed(r)
      BY DEF Waiting
    <3>2. \A k \in 1 .. Len(p) : p[k][1] \in L(k)
      BY <1>3
    <3> HIDE DEF L, W
    <3> QED BY <3>1, <3>2
  <2>2. \A j, k \in 1 .. Len(p) : f[j] = f[k] => j = k
    <3>1. ASSUME NEW j \in 1 .. Len(p), NEW k \in 1 .. Len(p), j # k
          PROVE  p[j][1] # p[k][1]
      <4>1. p[j][1] \in Listed(p[j]) /\ p[k][1] \in Listed(p[k])
        BY <1>3
      <4>2. Listed(p[j]) \cap Listed(p[k]) = {}
        BY <3>1 DEF Apart
      <4> HIDE DEF W, f
      <4> QED BY <4>1, <4>2
    <3> QED BY <2>1, <3>1
  <2>3. f \in [1 .. Len(p) -> W]
    BY <2>1
  <2>4. DOMAIN f = 1 .. Len(p)
    OBVIOUS
  <2> HIDE DEF f, W
  <2>5. IsInjective(f)
    BY <2>2, <2>4 DEF IsInjective
  <2> QED BY <2>3, <2>5 DEF Injection
<1>5. Cardinality(1 .. Len(p)) = Len(p)
  <2>1. 1 \in Int /\ Len(p) \in Int
    BY <1>2
  <2>2. Cardinality(1 .. Len(p)) = IF 1 > Len(p) THEN 0 ELSE Len(p) - 1 + 1
    BY <2>1, FS_Interval, Zenon
  <2> QED BY <1>2, <2>2
<1> HIDE DEF f, W
<1>6. Cardinality(1 .. Len(p)) <= Cardinality(W)
  <2>1. IsFiniteSet(W)
    BY <1>1
  <2> QED BY <1>4, <2>1, FS_Injection, Zenon
<1> QED BY <1>1, <1>2, <1>5, <1>6 DEF W

-----------------------------------------------------------------------------
(* The hop.                                                                *)

HopLists ==
    /\ Once(asked) /\ Apart(pending, rest)
    /\ Waiting(pending, rest) \subseteq Listed(asked)

\* What was read is of lists that are finished, and listed once.
HopGot ==
    /\ got \subseteq EdgesFrom(Listed(asked))
    /\ \A e \in got : e[1] \notin Waiting(pending, rest)
    /\ rows = Cardinality(got)

\* No source is left out that no list still holds.
HopCovers ==
    hop # "failed" =>
       \A u \in (Listed(asked) \cap Matched) \ Waiting(pending, rest) :
          Fits(u) => EdgesFrom({u}) \subseteq got

\* A source that still waits is good for two more queries, a list that is
\* itself one of the queries for one less.
HopReads ==
    /\ reads \in Nat
    /\ hop = "reading" =>
          reads + 2 * Cardinality(Waiting(pending, rest)) <= 2 * Len(asked) + Len(pending)
    /\ hop # "reading" => pending = << >> /\ reads <= 2 * Len(asked)

HopPhase ==
    /\ hop \in {"reading", "done", "failed"}
    /\ hop = "done" => rest = << >>

HopInv == HopLists /\ HopGot /\ HopCovers /\ HopReads /\ HopPhase

\* Any set of edges is finite.
LEMMA EdgesAreFinite ==
    ASSUME NEW E \in SUBSET Edges
    PROVE  IsFiniteSet(E) /\ Cardinality(E) \in Nat
<1>1. IsFiniteSet(Edges)
  <2>1. IsFiniteSet(Urns \X Urns)
    BY ExpanderAssumption, FS_Product
  <2> QED BY <2>1, ExpanderAssumption, FS_Subset
<1> QED BY <1>1, FS_Subset, FS_CardinalityType

\* An answer that is kept has every edge of a source that fits one call.
LEMMA KeptAnswerIsWhole ==
    ASSUME NEW list, Once(list), NEW answer \in Answers(list),
           ~ Splits(list, answer), NEW u \in Listed(list), Fits(u)
    PROVE  EdgesFrom({u}) \subseteq answer
<1> DEFINE all == EdgesFrom(Listed(list))
<1>1. all \subseteq Edges /\ EdgesFrom({u}) \subseteq all
  BY DEF EdgesFrom
<1>2. Cardinality(all) \in Nat
  BY <1>1, EdgesAreFinite
<1>3. answer \subseteq all
      /\ (Cardinality(all) <= ResultLimit => answer = all)
      /\ (answer # all => Cardinality(answer) = ResultLimit)
  <2>1. Answers(list) = IF Cardinality(all) <= ResultLimit THEN {all}
                            ELSE {a \in SUBSET all : Cardinality(a) = ResultLimit}
    BY DEF Answers
  <2> HIDE DEF all
  <2> QED BY <2>1
<1>4. CASE answer = all
  BY <1>1, <1>4
<1>5. CASE answer # all
  <2>1. Cardinality(answer) = ResultLimit
    BY <1>3, <1>5
  <2>2. ~ (Len(list) > 1)
    BY <2>1, ExpanderAssumption DEF Splits
  <2>3. Listed(list) = {u}
    <3>1. Len(list) \in Nat
      BY DEF Once
    <3>2. \A k \in 1 .. Len(list) : k = 1
      BY <2>2, <3>1
    <3> QED BY <3>2 DEF Listed
  <2>4. Cardinality(all) <= ResultLimit
    BY <2>3 DEF Fits
  <2> QED BY <1>3, <1>5, <2>4
<1> QED BY <1>4, <1>5

\* Nothing is read and everything waits.
LEMMA HopStarts ==
    ASSUME HopInit
    PROVE  HopInv
<1>1. PICK n \in 0 .. Cardinality(Urns) : asked \in Injection(1 .. n, Urns)
  BY DEF HopInit
<1>2. n \in Nat
  BY <1>1, ExpanderAssumption, FS_CardinalityType
<1>3. asked \in Seq(Urns) /\ Len(asked) = n /\ \A j, k \in 1 .. n : asked[j] = asked[k] => j = k
  <2>1. asked \in [1 .. n -> Urns]
    BY <1>1 DEF Injection, IsInjective
  <2>2. \A j, k \in 1 .. n : asked[j] = asked[k] => j = k
    BY <1>1 DEF Injection, IsInjective
  <2>3. asked \in Seq(Urns) /\ Len(asked) = n
    BY <1>2, <2>1
  <2> QED BY <2>2, <2>3
<1>4. rest = asked /\ pending = << >> /\ got = {} /\ rows = 0 /\ reads = 0 /\ hop = "reading"
  BY DEF HopInit
<1>5. Once(asked)
  BY <1>3 DEF Once
<1>6. Waiting(pending, rest) = Listed(asked)
  BY <1>4 DEF Waiting
<1>7. HopLists
  <2>1. << >> \in Seq(Seq(Urns)) /\ Len(<< >>) = 0
    OBVIOUS
  <2> QED BY <1>4, <1>5, <1>6, <2>1 DEF HopLists, Apart
<1>8. HopGot
  BY <1>4, FS_EmptySet DEF HopGot
<1>9. HopCovers
  BY <1>6 DEF HopCovers
<1>10. HopReads
  <2>1. Cardinality(Listed(asked)) \in Nat /\ Cardinality(Listed(asked)) <= Len(asked)
    BY <1>3, ListIsFinite
  <2> QED BY <1>2, <1>3, <1>4, <1>6, <2>1 DEF HopReads
<1>11. HopPhase
  BY <1>4 DEF HopPhase
<1> QED BY <1>7, <1>8, <1>9, <1>10, <1>11 DEF HopInv

\* What the invariant says of the lists while the hop reads.
LEMMA HopCountsAre ==
    ASSUME HopInv
    PROVE  /\ Len(asked) \in Nat /\ Len(pending) \in Nat /\ reads \in Nat
           /\ IsFiniteSet(Waiting(pending, rest)) /\ Cardinality(Waiting(pending, rest)) \in Nat
           /\ Len(pending) <= Cardinality(Waiting(pending, rest))
           /\ reads <= 2 * Len(asked)
<1> DEFINE W == Cardinality(Waiting(pending, rest))
<1>1. IsFiniteSet(Listed(asked)) /\ asked \in Seq(Urns)
  BY ListIsFinite DEF HopInv, HopLists, Once
<1>2. /\ IsFiniteSet(Waiting(pending, rest)) /\ W \in Nat
      /\ Len(pending) \in Nat /\ Len(pending) <= W
  BY <1>1, ListsAreFew DEF HopInv, HopLists
<1>3. Len(asked) \in Nat /\ reads \in Nat
  BY <1>1 DEF HopInv, HopReads
<1>4. hop = "reading" => reads + 2 * W <= 2 * Len(asked) + Len(pending)
  BY DEF HopInv, HopReads
<1>5. hop # "reading" => reads <= 2 * Len(asked)
  BY DEF HopInv, HopReads
<1> HIDE DEF W
<1>6. reads <= 2 * Len(asked)
  BY <1>2, <1>3, <1>4, <1>5
<1> QED BY <1>1, <1>2, <1>3, <1>6 DEF W

\* A step after which as much or less waits, and nothing else is read.
LEMMA HopChunk ==
    ASSUME HopInv, TakeChunk
    PROVE  HopInv'
<1> DEFINE n == IF Len(rest) < SourceChunk THEN Len(rest) ELSE SourceChunk
           l == SubSeq(rest, 1, n)
           r == SubSeq(rest, n + 1, Len(rest))
<1>1. /\ hop = "reading" /\ pending = << >> /\ rest # << >>
      /\ pending' = <<l>> /\ rest' = r
      /\ asked' = asked /\ got' = got /\ rows' = rows /\ reads' = reads /\ hop' = hop
  BY DEF TakeChunk
<1>2. Once(rest) /\ n \in 1 .. Len(rest)
  <2>1. Once(rest) /\ rest \in Seq(Urns)
    BY DEF HopInv, HopLists, Apart, Once
  <2>2. Len(rest) \in Nat /\ Len(rest) >= 1
    BY <1>1, <2>1
  <2> QED BY <2>1, <2>2, ExpanderAssumption
<1> HIDE DEF n
<1>3. /\ Once(l) /\ l # << >> /\ Once(r)
      /\ Listed(l) \cup Listed(r) = Listed(rest) /\ Listed(l) \cap Listed(r) = {}
  BY <1>2, CutIs
<1> HIDE DEF l, r
<1>4. /\ <<l>> \in Seq(Seq(Urns)) /\ Len(<<l>>) = 1 /\ <<l>>[1] = l
      /\ \A k : k \in 1 .. 1 <=> k = 1
  BY <1>3 DEF Once
<1>5. Apart(<<l>>, r)
  BY <1>3, <1>4 DEF Apart
<1>6. Waiting(<<l>>, r) = Waiting(pending, rest)
  <2>1. Waiting(<<l>>, r) = Listed(l) \cup Listed(r)
    BY <1>4 DEF Waiting
  <2>2. Waiting(pending, rest) = Listed(rest)
    BY <1>1 DEF Waiting
  <2> QED BY <1>3, <2>1, <2>2
<1>7. Waiting(pending, rest)' = Waiting(pending, rest)
  BY <1>1, <1>6
<1>8. HopLists'
  BY <1>1, <1>5, <1>7 DEF HopInv, HopLists
<1>9. HopGot'
  BY <1>1, <1>7 DEF HopInv, HopGot
<1>10. HopCovers'
  BY <1>1, <1>7 DEF HopInv, HopCovers
<1>11. HopReads'
  <2>1. reads + 2 * Cardinality(Waiting(pending, rest)) <= 2 * Len(asked) + 0
    BY <1>1 DEF HopInv, HopReads
  <2>2. Len(pending') = 1
    BY <1>1, <1>4
  <2>3. Cardinality(Waiting(pending, rest)) \in Nat /\ Len(asked) \in Nat /\ reads \in Nat
    BY HopCountsAre
  <2> QED BY <1>1, <1>7, <2>1, <2>2, <2>3 DEF HopReads
<1>12. HopPhase'
  BY <1>1 DEF HopInv, HopPhase
<1> QED BY <1>8, <1>9, <1>10, <1>11, <1>12 DEF HopInv

\* What is so of the next list while the hop reads.
LEMMA HopHead ==
    ASSUME HopInv, hop = "reading", pending # << >>
    PROVE  LET w == Waiting(Tail(pending), rest)
               h == Head(pending)
           IN  /\ Once(h) /\ h # << >> /\ Apart(Tail(pending), rest)
               /\ Len(Tail(pending)) = Len(pending) - 1
               /\ Waiting(pending, rest) = Listed(h) \cup w /\ Listed(h) \cap w = {}
               /\ Cardinality(w) \in Nat
               /\ Cardinality(w) <= Cardinality(Waiting(pending, rest)) - 1
<1> DEFINE w == Waiting(Tail(pending), rest)
           h == Head(pending)
           all == Waiting(pending, rest)
<1>1. /\ Once(h) /\ h # << >> /\ Apart(Tail(pending), rest)
      /\ Len(Tail(pending)) = Len(pending) - 1
      /\ all = Listed(h) \cup w /\ Listed(h) \cap w = {}
  BY NextList DEF HopInv, HopLists
<1>2. h[1] \in Listed(h)
  BY <1>1 DEF Once, Listed
<1>3. IsFiniteSet(all) /\ Cardinality(all) \in Nat
  BY HopCountsAre
<1> HIDE DEF w, h, all
<1>4. w \subseteq all /\ w # all
  BY <1>1, <1>2
<1>5. IsFiniteSet(w) /\ Cardinality(w) \in Nat /\ Cardinality(w) < Cardinality(all)
  BY <1>3, <1>4, FS_Subset, FS_CardinalityType
<1>6. Cardinality(w) <= Cardinality(all) - 1
  BY <1>3, <1>5
<1> QED BY <1>1, <1>5, <1>6 DEF w, h, all

\* The list of which nothing matches is left out.
LEMMA HopNothing ==
    ASSUME HopInv, NothingToAsk
    PROVE  HopInv'
<1> DEFINE h == Head(pending)
           w == Waiting(Tail(pending), rest)
<1>1. /\ hop = "reading" /\ pending # << >> /\ Valid(h) = << >>
      /\ pending' = Tail(pending) /\ rest' = rest
      /\ asked' = asked /\ got' = got /\ rows' = rows /\ reads' = reads /\ hop' = hop
  BY DEF NothingToAsk
<1>2. /\ Once(h) /\ Apart(Tail(pending), rest) /\ Len(Tail(pending)) = Len(pending) - 1
      /\ Waiting(pending, rest) = Listed(h) \cup w
      /\ Cardinality(w) \in Nat /\ Cardinality(w) <= Cardinality(Waiting(pending, rest)) - 1
  BY <1>1, HopHead
<1>3. Listed(h) \cap Matched = {}
  <2>1. Listed(<< >>) = {}
    BY DEF Listed
  <2> QED BY <1>1, <1>2, <2>1, ValidIs
<1> HIDE DEF h
<1>4. Waiting(pending, rest)' = w
  BY <1>1
<1> HIDE DEF w
<1>5. HopLists'
  BY <1>1, <1>2, <1>4 DEF HopInv, HopLists
<1>6. HopGot'
  BY <1>1, <1>2, <1>4 DEF HopInv, HopGot
<1>7. HopCovers'
  BY <1>1, <1>2, <1>3, <1>4 DEF HopInv, HopCovers
<1>8. HopReads'
  <2> DEFINE c == Cardinality(Waiting(pending, rest))
             m == Cardinality(w)
  <2>1. reads + 2 * c <= 2 * Len(asked) + Len(pending)
    BY <1>1 DEF HopInv, HopReads
  <2>2. c \in Nat /\ Len(asked) \in Nat /\ reads \in Nat /\ Len(pending) \in Nat
    BY HopCountsAre
  <2>3. m \in Nat /\ m <= c - 1
    BY <1>2
  <2> HIDE DEF c, m
  <2>4. reads + 2 * m <= 2 * Len(asked) + (Len(pending) - 1)
    BY <2>1, <2>2, <2>3
  <2> QED BY <1>1, <1>2, <1>4, <2>2, <2>4 DEF HopReads, m
<1>9. HopPhase'
  BY <1>1 DEF HopInv, HopPhase
<1> QED BY <1>5, <1>6, <1>7, <1>8, <1>9 DEF HopInv

\* A full answer is thrown away for two shorter lists.
LEMMA HopSplit ==
    ASSUME HopInv, hop = "reading", pending # << >>,
           Len(Valid(Head(pending))) > 1, hop' = hop, asked' = asked, rest' = rest,
           got' = got, rows' = rows, reads' = reads + 1,
           pending' = <<LeftHalf(Valid(Head(pending))),
                        RightHalf(Valid(Head(pending)))>> \o Tail(pending)
    PROVE  HopInv'
<1> DEFINE h == Head(pending)
           t == Tail(pending)
           w == Waiting(t, rest)
           v == Valid(h)
           a == LeftHalf(v)
           b == RightHalf(v)
<1>1. /\ Once(h) /\ Apart(t, rest) /\ Len(t) = Len(pending) - 1
      /\ Waiting(pending, rest) = Listed(h) \cup w /\ Listed(h) \cap w = {}
  BY HopHead
<1>2. Once(v) /\ Listed(v) = Listed(h) \cap Matched
  BY <1>1, ValidIs
<1>3. /\ Once(a) /\ a # << >> /\ Once(b) /\ b # << >>
      /\ Listed(a) \cup Listed(b) = Listed(v) /\ Listed(a) \cap Listed(b) = {}
  BY <1>2, HalvesAre
<1>4. pending' = <<a, b>> \o t
  OBVIOUS
<1> HIDE DEF a, b, v, h, t
<1>5. Listed(a) \cap w = {} /\ Listed(b) \cap w = {}
  BY <1>1, <1>2, <1>3
<1>6. /\ Apart(<<a, b>> \o t, rest) /\ Len(<<a, b>> \o t) = Len(t) + 2
      /\ Waiting(<<a, b>> \o t, rest) = Listed(a) \cup Listed(b) \cup w
  BY <1>1, <1>3, <1>5, TwoLists
<1>7. Waiting(pending, rest)' = (Listed(h) \cap Matched) \cup w
  BY <1>2, <1>3, <1>4, <1>6
<1> HIDE DEF w
<1>8. HopLists'
  BY <1>1, <1>4, <1>6, <1>7 DEF HopInv, HopLists
<1>9. HopGot'
  BY <1>1, <1>7 DEF HopInv, HopGot
<1>10. HopCovers'
  BY <1>1, <1>7 DEF HopInv, HopCovers
<1>11. HopReads'
  <2> DEFINE c == Cardinality(Waiting(pending, rest))
             m == Cardinality(Waiting(pending, rest))'
  <2>1. reads + 2 * c <= 2 * Len(asked) + Len(pending)
    BY DEF HopInv, HopReads
  <2>2. c \in Nat /\ Len(asked) \in Nat /\ reads \in Nat /\ Len(pending) \in Nat
    BY HopCountsAre
  <2>3. m \in Nat /\ m <= c
    <3>1. IsFiniteSet(Waiting(pending, rest))
      BY HopCountsAre
    <3>2. Waiting(pending, rest)' \subseteq Waiting(pending, rest)
      BY <1>1, <1>7
    <3> HIDE DEF Waiting
    <3> QED BY <3>1, <3>2, FS_Subset, FS_CardinalityType
  <2>4. Len(pending') = Len(pending) + 1
    BY <1>1, <1>4, <1>6, <2>2
  <2> HIDE DEF c, m
  <2>5. reads + 1 + 2 * m <= 2 * Len(asked) + (Len(pending) + 1)
    BY <2>1, <2>2, <2>3
  <2> QED BY <2>2, <2>4, <2>5 DEF HopReads, m
<1>12. HopPhase'
  BY DEF HopInv, HopPhase
<1> QED BY <1>8, <1>9, <1>10, <1>11, <1>12 DEF HopInv

\* An answer is kept.
LEMMA HopKeep ==
    ASSUME HopInv, hop = "reading", pending # << >>,
           NEW answer \in Answers(Valid(Head(pending))),
           ~ Splits(Valid(Head(pending)), answer),
           hop' = hop, asked' = asked, rest' = rest, pending' = Tail(pending),
           got' = got \cup answer, rows' = rows + Cardinality(answer), reads' = reads + 1
    PROVE  HopInv'
<1> DEFINE h == Head(pending)
           w == Waiting(Tail(pending), rest)
           v == Valid(h)
<1>1. /\ Once(h) /\ Apart(Tail(pending), rest) /\ Len(Tail(pending)) = Len(pending) - 1
      /\ Waiting(pending, rest) = Listed(h) \cup w /\ Listed(h) \cap w = {}
      /\ Cardinality(w) \in Nat /\ Cardinality(w) <= Cardinality(Waiting(pending, rest)) - 1
  BY HopHead
<1>2. Once(v) /\ Listed(v) = Listed(h) \cap Matched
  BY <1>1, ValidIs
<1>3. answer \subseteq EdgesFrom(Listed(v))
  <2>1. answer \in Answers(v)
    OBVIOUS
  <2> HIDE DEF v
  <2> QED BY <2>1 DEF Answers
<1>4. ASSUME NEW u \in Listed(v), Fits(u) PROVE EdgesFrom({u}) \subseteq answer
  BY <1>2, <1>4, KeptAnswerIsWhole
<1> HIDE DEF v, h
<1>5. Waiting(pending, rest)' = w
  OBVIOUS
<1> HIDE DEF w
<1>6. \A e \in answer : e \in Edges /\ e[1] \in Listed(h)
  BY <1>2, <1>3 DEF EdgesFrom
<1>7. HopLists'
  BY <1>1, <1>5 DEF HopInv, HopLists
<1>8. HopGot'
  <2>1. got \subseteq Edges /\ answer \subseteq Edges
    BY <1>6 DEF HopInv, HopGot, EdgesFrom
  <2>2. IsFiniteSet(got) /\ IsFiniteSet(answer)
    BY <2>1, EdgesAreFinite
  <2>3. got \cap answer = {}
    BY <1>1, <1>6 DEF HopInv, HopGot
  <2>4. Cardinality(got \cup answer) = Cardinality(got) + Cardinality(answer)
    <3>1. Cardinality(got \cup answer) =
             Cardinality(got) + Cardinality(answer) - Cardinality(got \cap answer)
      BY <2>2, FS_Union
    <3>2. Cardinality(got) \in Nat /\ Cardinality(answer) \in Nat
      BY <2>2, FS_CardinalityType
    <3>3. Cardinality(got \cap answer) = 0
      BY <2>3, FS_EmptySet
    <3> QED BY <3>1, <3>2, <3>3
  <2>5. rows' = Cardinality(got')
    BY <2>4 DEF HopInv, HopGot
  <2>6. got' \subseteq EdgesFrom(Listed(asked))
    <3>1. Listed(h) \subseteq Listed(asked)
      BY <1>1 DEF HopInv, HopLists
    <3> QED BY <1>6, <3>1 DEF HopInv, HopGot, EdgesFrom
  <2>7. \A e \in got' : e[1] \notin w
    BY <1>1, <1>6 DEF HopInv, HopGot
  <2> QED BY <1>5, <2>5, <2>6, <2>7 DEF HopGot, EdgesFrom
<1>9. HopCovers'
  BY <1>1, <1>2, <1>4, <1>5 DEF HopInv, HopCovers, Fits, EdgesFrom
<1>10. HopReads'
  <2> DEFINE c == Cardinality(Waiting(pending, rest))
             m == Cardinality(w)
  <2>1. reads + 2 * c <= 2 * Len(asked) + Len(pending)
    BY DEF HopInv, HopReads
  <2>2. c \in Nat /\ Len(asked) \in Nat /\ reads \in Nat /\ Len(pending) \in Nat
    BY HopCountsAre
  <2>3. m \in Nat /\ m <= c - 1
    BY <1>1
  <2> HIDE DEF c, m
  <2>4. reads + 1 + 2 * m <= 2 * Len(asked) + (Len(pending) - 1)
    BY <2>1, <2>2, <2>3
  <2> QED BY <1>1, <1>5, <2>2, <2>4 DEF HopReads, m
<1>11. HopPhase'
  BY DEF HopInv, HopPhase
<1> QED BY <1>7, <1>8, <1>9, <1>10, <1>11 DEF HopInv

\* A query fails.
LEMMA HopFails ==
    ASSUME HopInv, ReadFails
    PROVE  HopInv'
<1>1. /\ hop = "reading" /\ pending # << >> /\ reads' = reads + 1 /\ hop' = "failed"
      /\ pending' = << >> /\ got' = {} /\ rows' = 0 /\ asked' = asked /\ rest' = rest
  BY DEF ReadFails
<1>2. Waiting(<< >>, rest) = Listed(rest) /\ Listed(rest) \subseteq Waiting(pending, rest)
  BY DEF Waiting
<1>3. Waiting(pending, rest)' = Listed(rest)
  BY <1>1, <1>2
<1>4. HopLists'
  <2>1. << >> \in Seq(Seq(Urns)) /\ Len(<< >>) = 0
    OBVIOUS
  <2>2. Apart(<< >>, rest)
    BY <2>1 DEF HopInv, HopLists, Apart
  <2> QED BY <1>1, <1>2, <1>3, <2>2 DEF HopInv, HopLists
<1>5. HopGot'
  BY <1>1, FS_EmptySet DEF HopGot
<1>6. HopCovers' /\ HopPhase'
  BY <1>1 DEF HopCovers, HopPhase
<1>7. HopReads'
  <2> DEFINE c == Cardinality(Waiting(pending, rest))
             m == Cardinality(Waiting(Tail(pending), rest))
  <2>1. reads + 2 * c <= 2 * Len(asked) + Len(pending)
    BY <1>1 DEF HopInv, HopReads
  <2>2. c \in Nat /\ Len(asked) \in Nat /\ reads \in Nat /\ Len(pending) \in Nat /\ Len(pending) <= c
    BY HopCountsAre
  <2>3. m \in Nat /\ m <= c - 1
    BY <1>1, HopHead
  <2> HIDE DEF c, m
  <2>4. reads + 1 <= 2 * Len(asked)
    BY <2>1, <2>2, <2>3
  <2> QED BY <1>1, <2>2, <2>4 DEF HopReads
<1> QED BY <1>4, <1>5, <1>6, <1>7 DEF HopInv

\* Nothing waits any more.
LEMMA HopFinishes ==
    ASSUME HopInv, Finish
    PROVE  HopInv'
<1>1. /\ hop = "reading" /\ pending = << >> /\ rest = << >> /\ hop' = "done"
      /\ asked' = asked /\ rest' = rest /\ pending' = pending /\ got' = got /\ rows' = rows
      /\ reads' = reads
  BY DEF Finish
<1>2. HopReads'
  BY <1>1, HopCountsAre DEF HopReads
<1>3. HopLists' /\ HopGot' /\ HopPhase'
  BY <1>1 DEF HopInv, HopLists, HopGot, HopPhase
<1>4. HopCovers'
  BY <1>1 DEF HopInv, HopCovers
<1> QED BY <1>2, <1>3, <1>4 DEF HopInv

LEMMA HopStep ==
    ASSUME HopInv, [HopNext]_hopVars
    PROVE  HopInv'
<1>1. CASE TakeChunk
  BY <1>1, HopChunk
<1>2. CASE NothingToAsk
  BY <1>2, HopNothing
<1>3. CASE Read
  <2> DEFINE list == Valid(Head(pending))
  <2>1. /\ hop = "reading" /\ pending # << >> /\ reads' = reads + 1
        /\ asked' = asked /\ rest' = rest /\ hop' = hop
    BY <1>3 DEF Read
  <2>2. PICK answer \in Answers(list) :
          IF Splits(list, answer)
          THEN /\ pending' = <<LeftHalf(list), RightHalf(list)>> \o Tail(pending)
               /\ got' = got /\ rows' = rows
          ELSE /\ pending' = Tail(pending)
               /\ got' = got \cup answer
               /\ rows' = rows + Cardinality(answer)
    BY <1>3 DEF Read
  <2>3. CASE Splits(list, answer)
    <3>1. Len(list) > 1
      BY <2>3 DEF Splits
    <3> QED BY <2>1, <2>2, <2>3, <3>1, HopSplit
  <2>4. CASE ~ Splits(list, answer)
    BY <2>1, <2>2, <2>4, HopKeep
  <2> QED BY <2>3, <2>4
<1>4. CASE ReadFails
  BY <1>4, HopFails
<1>5. CASE Finish
  BY <1>5, HopFinishes
<1>6. CASE UNCHANGED hopVars
  BY <1>6 DEF hopVars, HopInv, HopLists, HopGot, HopCovers, HopReads, HopPhase
<1> QED BY <1>1, <1>2, <1>3, <1>4, <1>5, <1>6 DEF HopNext

LEMMA HopAlways ==
    HopSpec => []HopInv
<1>1. HopInit => HopInv
  BY HopStarts
<1>2. HopInv /\ [HopNext]_hopVars => HopInv'
  BY HopStep
<1> QED BY <1>1, <1>2, PTL DEF HopSpec

\* The comment on splitting in expand: whatever rows the calls that were full
\* left out, no edge of a source that fits one call is missing from the answer
\* of Out, none is listed twice and none is there that was not asked for.
THEOREM NoSilentTruncationHolds ==
    HopSpec => []NoSilentTruncation
<1>1. HopInv => NoSilentTruncation
  <2> SUFFICES ASSUME HopInv PROVE NoSilentTruncation
    OBVIOUS
  <2>1. rows = Cardinality(got) /\ got \subseteq EdgesFrom(Listed(asked))
    BY DEF HopInv, HopGot
  <2>2. ASSUME hop = "done", NEW u \in Listed(asked) \cap Matched, Fits(u)
        PROVE  EdgesFrom({u}) \subseteq got
    <3>1. pending = << >> /\ rest = << >>
      BY <2>2 DEF HopInv, HopReads, HopPhase
    <3>2. Waiting(pending, rest) = {}
      BY <3>1 DEF Waiting, Listed
    <3> QED BY <2>2, <3>2 DEF HopInv, HopCovers
  <2> QED BY <2>1, <2>2 DEF NoSilentTruncation
<1> QED BY <1>1, HopAlways, PTL

\* Splitting ends: a hop costs at most two queries for every source.
THEOREM ReadsBounded ==
    HopSpec => []ReadsAreBounded
<1>1. HopInv => ReadsAreBounded
  BY HopCountsAre DEF ReadsAreBounded
<1> QED BY <1>1, HopAlways, PTL

-----------------------------------------------------------------------------
(* The slice a set of spans is kept in (module IntervalSlice).             *)

\* A step on D, over spans, to take along the list s from start.
Passing(s, D, start, F) ==
    s \in Seq(Span) /\ start \in D /\ F \in [D \X Span -> D]

\* f gives every value on the way.
PassOf(f, s, D, start, F) ==
    /\ f \in [0 .. Len(s) -> D]
    /\ f[0] = start
    /\ \A k \in 1 .. Len(s) : f[k] = F[<<f[k - 1], s[k]>>]

\* Such a pass exists.
LEMMA PassExists ==
    ASSUME NEW s, NEW D, NEW start, NEW F, Passing(s, D, start, F)
    PROVE  \E f : PassOf(f, s, D, start, F)
<1> USE DEF Passing
<1> DEFINE n == Len(s)
           G == [x \in Int \X D |-> IF x[1] \in 1 .. n THEN F[<<x[2], s[x[1]]>>] ELSE x[2]]
<1>1. n \in Nat /\ \A k \in 1 .. n : s[k] \in Span
  OBVIOUS
<1>2. G \in [Int \X D -> D]
  BY <1>1
<1>3. \A k \in 1 .. n : \A d \in D : G[<<k, d>>] = F[<<d, s[k]>>]
  OBVIOUS
<1> HIDE DEF G, n
<1>4. Iterating(0, n, D, start, G)
  BY <1>1, <1>2 DEF Iterating
<1>5. PICK f : IterationOf(f, 0, n, D, start, G)
  BY <1>4, IterationExists
<1>6. f \in [0 .. n -> D] /\ f[0] = start /\ \A k \in 0 + 1 .. n : f[k] = G[<<k, f[k - 1]>>]
  BY <1>5 DEF IterationOf
<1>7. \A k \in 1 .. n : k \in 0 + 1 .. n /\ k - 1 \in 0 .. n
  BY <1>1
<1>8. \A k \in 1 .. n : f[k] = F[<<f[k - 1], s[k]>>]
  BY <1>3, <1>6, <1>7
<1> QED BY <1>6, <1>8 DEF n, PassOf

\* The loop of Covers.
LEMMA WalkPass ==
    ASSUME NEW s \in Seq(Span), NEW i \in Span
    PROVE  \E w :
             /\ w[0] = [from |-> i.from, to |-> i.to, verdict |-> "open"]
             /\ \A k \in 1 .. Len(s) : w[k] = WalkStep(w[k - 1], s[k])
             /\ SliceCovers(s, i) <=> (Empty(i) \/ w[Len(s)].verdict = "yes")
<1> DEFINE n == Len(s)
           D == [from : Int, to : Int, verdict : {"open", "yes", "no"}]
           start == [from |-> i.from, to |-> i.to, verdict |-> "open"]
           Step(d, h) == WalkStep(d, h)
           F == [x \in D \X Span |-> Step(x[1], x[2])]
           IsPass(v) == v = [k \in 0 .. n |-> IF k = 0 THEN start ELSE Step(v[k - 1], s[k])]
<1>1. n \in Nat /\ \A k \in 1 .. n : s[k] \in Span
  OBVIOUS
<1>2. start \in D
  BY DEF Span
<1>3. \A d \in D, h \in Span : Step(d, h) \in D
  BY DEF WalkStep, Span
<1> HIDE DEF D, Step, start
<1>4. F \in [D \X Span -> D] /\ \A d \in D, h \in Span : F[<<d, h>>] = Step(d, h)
  BY <1>3
<1> HIDE DEF F, n
<1>5. PICK f \in [0 .. n -> D] : f[0] = start /\ \A k \in 1 .. n : f[k] = F[<<f[k - 1], s[k]>>]
  <2>1. Passing(s, D, start, F)
    BY <1>2, <1>4 DEF Passing
  <2>2. \E f : PassOf(f, s, D, start, F)
    BY <2>1, PassExists
  <2> QED BY <2>2 DEF PassOf, n
<1>6. \A k \in 0 .. n : k # 0 => k \in 1 .. n /\ k - 1 \in 0 .. n
  BY <1>1
<1>7. \A k \in 0 .. n : f[k] = IF k = 0 THEN start ELSE Step(f[k - 1], s[k])
  BY <1>1, <1>4, <1>5, <1>6
<1>8. IsPass(f)
  <2>1. f = [k \in 0 .. n |-> f[k]]
    BY <1>5
  <2> QED BY <1>7, <2>1
<1> DEFINE v == CHOOSE w : IsPass(w)
<1>9. IsPass(v)
  BY <1>8
<1>10. SliceCovers(s, i) <=> (Empty(i) \/ v[n].verdict = "yes")
  BY DEF SliceCovers, Pass, n, start, Step
<1> HIDE DEF v
<1>11. v[0] = start /\ \A k \in 1 .. n : v[k] = Step(v[k - 1], s[k])
  <2>1. 0 \in 0 .. n /\ \A k \in 1 .. n : k \in 0 .. n /\ k # 0
    BY <1>1
  <2>2. \A k \in 0 .. n : v[k] = IF k = 0 THEN start ELSE Step(v[k - 1], s[k])
    BY <1>9
  <2> QED BY <2>1, <2>2
<1> HIDE DEF IsPass
<1> QED BY <1>10, <1>11 DEF n, start, Step

\* The loop of Insert.
LEMMA SwallowPass ==
    ASSUME NEW s \in Seq(Span), NEW i \in Span
    PROVE  \E a :
             /\ a[0] = [out |-> << >>, merged |-> i]
             /\ \A k \in 1 .. Len(s) : a[k] = Swallow(a[k - 1], s[k])
             /\ SliceInsert(s, i) =
                  IF SliceCovers(s, i) THEN s
                  ELSE SortByFrom(Append(a[Len(s)].out, a[Len(s)].merged))
<1> DEFINE n == Len(s)
           D == [out : Seq(Span), merged : Span]
           start == [out |-> << >>, merged |-> i]
           Step(d, h) == Swallow(d, h)
           F == [x \in D \X Span |-> Step(x[1], x[2])]
           IsPass(v) == v = [k \in 0 .. n |-> IF k = 0 THEN start ELSE Step(v[k - 1], s[k])]
<1>1. n \in Nat /\ \A k \in 1 .. n : s[k] \in Span
  OBVIOUS
<1>2. start \in D
  OBVIOUS
<1>3. \A d \in D, h \in Span : Step(d, h) \in D
  <2> SUFFICES ASSUME NEW d \in D, NEW h \in Span PROVE Swallow(d, h) \in D
    OBVIOUS
  <2>1. Append(d.out, h) \in Seq(Span)
    OBVIOUS
  <2>2. [from |-> Earlier(d.merged.from, h.from), to |-> Later(d.merged.to, h.to)] \in Span
    BY DEF Span, Earlier, Later
  <2> QED BY <2>1, <2>2 DEF Swallow
<1> HIDE DEF D, Step, start
<1>4. F \in [D \X Span -> D] /\ \A d \in D, h \in Span : F[<<d, h>>] = Step(d, h)
  BY <1>3
<1> HIDE DEF F, n
<1>5. PICK f \in [0 .. n -> D] : f[0] = start /\ \A k \in 1 .. n : f[k] = F[<<f[k - 1], s[k]>>]
  <2>1. Passing(s, D, start, F)
    BY <1>2, <1>4 DEF Passing
  <2>2. \E f : PassOf(f, s, D, start, F)
    BY <2>1, PassExists
  <2> QED BY <2>2 DEF PassOf, n
<1>6. \A k \in 0 .. n : k # 0 => k \in 1 .. n /\ k - 1 \in 0 .. n
  BY <1>1
<1>7. \A k \in 0 .. n : f[k] = IF k = 0 THEN start ELSE Step(f[k - 1], s[k])
  BY <1>1, <1>4, <1>5, <1>6
<1>8. IsPass(f)
  <2>1. f = [k \in 0 .. n |-> f[k]]
    BY <1>5
  <2> QED BY <1>7, <2>1
<1> DEFINE v == CHOOSE w : IsPass(w)
<1>9. IsPass(v)
  BY <1>8
<1>10. SliceInsert(s, i) =
         IF SliceCovers(s, i) THEN s ELSE SortByFrom(Append(v[n].out, v[n].merged))
  BY DEF SliceInsert, Pass, n, start, Step
<1> HIDE DEF v
<1>11. v[0] = start /\ \A k \in 1 .. n : v[k] = Step(v[k - 1], s[k])
  <2>1. 0 \in 0 .. n /\ \A k \in 1 .. n : k \in 0 .. n /\ k # 0
    BY <1>1
  <2>2. \A k \in 0 .. n : v[k] = IF k = 0 THEN start ELSE Step(v[k - 1], s[k])
    BY <1>9
  <2> QED BY <2>1, <2>2
<1> HIDE DEF IsPass
<1> QED BY <1>10, <1>11 DEF n, start, Step

\* The loop of Width.
LEMMA WidthPass ==
    ASSUME NEW s \in Seq(Span)
    PROVE  \E w :
             /\ w[0] = 0
             /\ \A k \in 1 .. Len(s) : w[k] = w[k - 1] + (s[k].to - s[k].from)
             /\ Width(s) = w[Len(s)]
<1> DEFINE n == Len(s)
           Step(d, h) == d + (h.to - h.from)
           F == [x \in Int \X Span |-> Step(x[1], x[2])]
           IsPass(v) == v = [k \in 0 .. n |-> IF k = 0 THEN 0 ELSE Step(v[k - 1], s[k])]
<1>1. n \in Nat /\ \A k \in 1 .. n : s[k] \in Span
  OBVIOUS
<1>2. \A d \in Int, h \in Span : Step(d, h) \in Int
  BY DEF Span
<1> HIDE DEF Step
<1>3. F \in [Int \X Span -> Int] /\ \A d \in Int, h \in Span : F[<<d, h>>] = Step(d, h)
  BY <1>2
<1> HIDE DEF F, n
<1>4. PICK f \in [0 .. n -> Int] : f[0] = 0 /\ \A k \in 1 .. n : f[k] = F[<<f[k - 1], s[k]>>]
  <2>1. Passing(s, Int, 0, F)
    BY <1>3 DEF Passing
  <2>2. \E f : PassOf(f, s, Int, 0, F)
    BY <2>1, PassExists
  <2> QED BY <2>2 DEF PassOf, n
<1>5. \A k \in 0 .. n : k # 0 => k \in 1 .. n /\ k - 1 \in 0 .. n
  BY <1>1
<1>6. \A k \in 0 .. n : f[k] = IF k = 0 THEN 0 ELSE Step(f[k - 1], s[k])
  BY <1>1, <1>3, <1>4, <1>5
<1>7. IsPass(f)
  <2>1. f = [k \in 0 .. n |-> f[k]]
    BY <1>4
  <2> QED BY <1>6, <2>1
<1> DEFINE v == CHOOSE w : IsPass(w)
<1>8. IsPass(v)
  BY <1>7
<1>9. Width(s) = v[n]
  BY DEF Width, Pass, AddLength, n, Step
<1> HIDE DEF v
<1>10. v[0] = 0 /\ \A k \in 1 .. n : v[k] = Step(v[k - 1], s[k])
  <2>1. 0 \in 0 .. n /\ \A k \in 1 .. n : k \in 0 .. n /\ k # 0
    BY <1>1
  <2>2. \A k \in 0 .. n : v[k] = IF k = 0 THEN 0 ELSE Step(v[k - 1], s[k])
    BY <1>8
  <2> QED BY <2>1, <2>2
<1> HIDE DEF IsPass
<1> QED BY <1>9, <1>10 DEF n, Step

\* What keeps a set of spans in a list: none is empty, and there is a gap
\* between any two, the lower first.
Gapped(s) ==
    /\ s \in Seq(Span)
    /\ \A k \in 1 .. Len(s) : ~ Empty(s[k])
    /\ \A j, k \in 1 .. Len(s) : j < k => s[j].to < s[k].from

LEMMA GappedIsMaximal ==
    ASSUME NEW s, Gapped(s)
    PROVE  Members(s) \in SUBSET Span /\ Maximal(Members(s))
<1>1. /\ Len(s) \in Nat
      /\ \A k \in 1 .. Len(s) : s[k] \in Span /\ ~ Empty(s[k])
      /\ \A j, k \in 1 .. Len(s) : j < k => s[j].to < s[k].from
  BY DEF Gapped
<1>2. Members(s) \in SUBSET Span
  BY <1>1 DEF Members
<1>3. ASSUME NEW h \in Members(s), NEW k \in Members(s), h # k PROVE ~ Touches(h, k)
  <2>1. PICK a \in 1 .. Len(s) : h = s[a]
    BY DEF Members
  <2>2. PICK b \in 1 .. Len(s) : k = s[b]
    BY DEF Members
  <2>3. a < b \/ b < a
    BY <1>1, <1>3, <2>1, <2>2
  <2>4. s[a].to < s[b].from \/ s[b].to < s[a].from
    BY <1>1, <2>3
  <2>5. h \in Span /\ k \in Span
    BY <1>2
  <2> QED BY <2>1, <2>2, <2>4, <2>5 DEF Touches, Span
<1>4. \A h \in Members(s) : ~ Empty(h)
  BY <1>1 DEF Members
<1> QED BY <1>2, <1>3, <1>4 DEF Maximal

\* The walk of Covers from the left finds the one member that can contain i.
LEMMA WalkIsCovers ==
    ASSUME NEW s, Gapped(s), NEW i \in Span
    PROVE  SliceCovers(s, i) <=> Covers(Members(s), i)
<1> DEFINE n == Len(s)
           In(h) == h.from <= i.from /\ i.to <= h.to
<1>1. /\ n \in Nat /\ s \in Seq(Span)
      /\ \A k \in 1 .. n : s[k] \in Span /\ ~ Empty(s[k])
      /\ \A j, k \in 1 .. n : j < k => s[j].to < s[k].from
  BY DEF Gapped
<1>2. \A k \in 1 .. n : s[k].from \in Int /\ s[k].to \in Int /\ s[k].from < s[k].to
  BY <1>1 DEF Span, Empty
<1>3. Covers(Members(s), i) <=> (Empty(i) \/ \E k \in 1 .. n : In(s[k]))
  BY DEF Covers, Members
<1>4. PICK w :
        /\ w[0] = [from |-> i.from, to |-> i.to, verdict |-> "open"]
        /\ \A k \in 1 .. n : w[k] = WalkStep(w[k - 1], s[k])
        /\ SliceCovers(s, i) <=> (Empty(i) \/ w[n].verdict = "yes")
  BY <1>1, WalkPass
<1> HIDE DEF n
<1>5. CASE Empty(i)
  BY <1>3, <1>4, <1>5
<1>6. CASE ~ Empty(i)
  <2>1. i.from \in Int /\ i.to \in Int /\ i.from < i.to
    BY <1>6 DEF Empty, Span
  <2> DEFINE Fields(k) == /\ w[k] = [from |-> w[k].from, to |-> i.to, verdict |-> w[k].verdict]
                          /\ w[k].from \in Int /\ w[k].verdict \in {"open", "yes", "no"}
             \* Nothing up to k says what i is covered by; what remains of i
             \* starts where i does, or at the end of a member.
             Open(k) == /\ \A j \in 1 .. k : s[j].to <= w[k].from
                        /\ i.from <= w[k].from /\ w[k].from < i.to
                        /\ \/ w[k].from = i.from
                           \/ \E j \in 1 .. k : w[k].from = s[j].to
             Good(k) == /\ Fields(k)
                        /\ w[k].verdict = "open" => Open(k)
                        /\ w[k].verdict = "yes" => \E j \in 1 .. n : In(s[j])
                        /\ w[k].verdict = "no" => \A j \in 1 .. n : ~ In(s[j])
             Upto == {k \in Nat : k <= n => Good(k)}
  <2>2. 0 \in Upto
    <3>1. w[0].from = i.from /\ w[0].to = i.to /\ w[0].verdict = "open"
      BY <1>4
    <3>2. Fields(0)
      BY <1>4, <2>1, <3>1
    <3>3. Open(0)
      BY <2>1, <3>1
    <3> QED BY <3>1, <3>2, <3>3
  <2>3. ASSUME NEW k \in Nat, k \in Upto PROVE k + 1 \in Upto
    <3> SUFFICES ASSUME k + 1 <= n PROVE Good(k + 1)
      OBVIOUS
    <3>1. Good(k)
      BY <1>1, <2>3
    <3>2. k + 1 \in 1 .. n /\ (k + 1) - 1 = k
      BY <1>1
    <3> DEFINE h == s[k + 1]
               v == w[k]
    <3>3. w[k + 1] = WalkStep(v, h)
      BY <1>4, <3>2
    <3>4. /\ v = [from |-> v.from, to |-> i.to, verdict |-> v.verdict] /\ v.to = i.to
          /\ v.from \in Int /\ v.verdict \in {"open", "yes", "no"}
      BY <3>1
    <3>5. h.from \in Int /\ h.to \in Int /\ h.from < h.to
      BY <1>2, <3>2
    <3>6. \A j : j \in 1 .. k + 1 <=> j \in 1 .. k \/ j = k + 1
      OBVIOUS
    <3>7. /\ \A j \in 1 .. k : j \in 1 .. n /\ s[j].to < h.from
          /\ \A j \in 1 .. n : j \in 1 .. k \/ h.from <= s[j].from
      <4>1. \A j \in 1 .. k : j \in 1 .. n /\ j < k + 1
        BY <1>1, <3>2
      <4>2. \A j \in 1 .. n : j \in 1 .. k \/ j = k + 1 \/ k + 1 < j
        BY <1>1
      <4>3. \A j \in 1 .. n : k + 1 < j => h.from <= s[j].from
        <5>1. \A j \in 1 .. n : k + 1 < j => h.to < s[j].from
          BY <1>1, <3>2
        <5> QED BY <1>2, <3>5, <5>1
      <4> QED BY <1>1, <3>2, <3>5, <4>1, <4>2, <4>3
    <3>8. CASE v.verdict # "open"
      <4>1. w[k + 1] = w[k]
        BY <3>3, <3>8 DEF WalkStep
      <4> QED BY <3>1, <3>8, <4>1
    <3>9. CASE v.verdict = "open"
      <4>1. Open(k)
        BY <3>1, <3>9
      <4> HIDE DEF h
      <4>2. CASE h.to <= v.from
        <5>1. w[k + 1] = w[k]
          BY <3>3, <4>2 DEF WalkStep
        <5>2. Open(k + 1)
          BY <3>6, <4>1, <4>2, <5>1 DEF h
        <5> QED BY <3>1, <3>9, <5>1, <5>2
      <4>3. CASE h.to > v.from /\ h.from > v.from
        <5>1. w[k + 1] = [v EXCEPT !.verdict = "no"]
          BY <3>3, <3>4, <3>5, <3>9, <4>3 DEF WalkStep
        <5>2. w[k + 1] = [from |-> v.from, to |-> i.to, verdict |-> "no"]
          BY <3>4, <5>1
        <5>3. \A j \in 1 .. n : ~ In(s[j])
          <6>1. \A j \in 1 .. k : s[j].to < i.to
            BY <1>2, <2>1, <3>4, <3>7, <4>1
          <6>2. \A j \in 1 .. n : h.from <= s[j].from => i.from < s[j].from
            BY <1>2, <2>1, <3>4, <3>5, <4>1, <4>3
          <6> QED BY <1>2, <2>1, <3>7, <6>1, <6>2
        <5>4. Fields(k + 1) /\ w[k + 1].verdict = "no"
          BY <3>4, <5>2
        <5> QED BY <5>3, <5>4
      <4>4. h.from <= v.from => v.from = i.from
        BY <1>2, <3>4, <3>5, <3>7, <4>1
      <4>5. CASE h.to > v.from /\ h.from <= v.from /\ h.to >= i.to
        <5>1. w[k + 1] = [v EXCEPT !.verdict = "yes"]
          BY <3>3, <3>4, <3>5, <3>9, <4>5 DEF WalkStep
        <5>2. w[k + 1] = [from |-> v.from, to |-> i.to, verdict |-> "yes"]
          BY <3>4, <5>1
        <5>3. In(s[k + 1])
          BY <2>1, <3>5, <4>4, <4>5 DEF h
        <5>4. Fields(k + 1) /\ w[k + 1].verdict = "yes"
          BY <3>4, <5>2
        <5> QED BY <3>2, <5>3, <5>4
      <4>6. CASE h.to > v.from /\ h.from <= v.from /\ h.to < i.to
        <5>1. w[k + 1] = [v EXCEPT !.from = h.to]
          BY <2>1, <3>3, <3>4, <3>5, <3>9, <4>6 DEF WalkStep
        <5>2. w[k + 1] = [from |-> h.to, to |-> i.to, verdict |-> "open"]
          BY <3>4, <3>9, <5>1
        <5>3. w[k + 1].from = h.to /\ w[k + 1].verdict = "open"
          BY <5>2
        <5>4. Fields(k + 1)
          BY <3>5, <5>2, <5>3
        <5>5. \A j \in 1 .. k + 1 : s[j].to <= h.to
          BY <1>2, <3>5, <3>6, <3>7 DEF h
        <5>6. i.from <= h.to /\ h.to < i.to
          BY <2>1, <3>4, <3>5, <4>4, <4>6
        <5>7. k + 1 \in 1 .. k + 1 /\ h.to = s[k + 1].to
          BY DEF h
        <5>8. Open(k + 1)
          BY <5>3, <5>5, <5>6, <5>7
        <5> QED BY <5>3, <5>4, <5>8
      <4> QED BY <2>1, <3>4, <3>5, <4>2, <4>3, <4>5, <4>6
    <3> QED BY <3>8, <3>9
  <2> HIDE DEF Upto
  <2>4. Nat \subseteq Upto
    BY <2>2, <2>3, NatInductive
  <2>5. Good(n)
    BY <1>1, <2>4 DEF Upto
  <2>6. w[n].verdict = "open" => \A j \in 1 .. n : ~ In(s[j])
    BY <1>2, <2>1, <2>5
  <2>7. w[n].verdict = "yes" <=> \E j \in 1 .. n : In(s[j])
    BY <2>5, <2>6
  <2> QED BY <1>3, <1>4, <1>6, <2>7
<1> QED BY <1>5, <1>6

\* The pass of Insert keeps apart what i does not touch and swallows what it
\* touches, though what it compares with grows on the way.
LEMMA SwallowIsMerge ==
    ASSUME NEW s, Gapped(s), NEW i \in Span, ~ SliceCovers(s, i)
    PROVE  \E out, m :
             /\ SliceInsert(s, i) = SortByFrom(Append(out, m))
             /\ Gapped(out) /\ Members(out) = {h \in Members(s) : ~ Touches(h, i)}
             /\ m \in Span /\ m = Merge(Members(s), i)
             /\ m.from <= i.from /\ i.to <= m.to
<1> DEFINE n == Len(s)
           S == Members(s)
<1>1. /\ n \in Nat /\ s \in Seq(Span)
      /\ \A k \in 1 .. n : s[k] \in Span /\ ~ Empty(s[k])
      /\ \A j, k \in 1 .. n : j < k => s[j].to < s[k].from
  BY DEF Gapped
<1>2. \A k \in 1 .. n : s[k].from \in Int /\ s[k].to \in Int /\ s[k].from < s[k].to
  BY <1>1 DEF Span, Empty
<1>3. i.from \in Int /\ i.to \in Int /\ i.from < i.to
  <2>1. ~ Empty(i)
    BY DEF SliceCovers
  <2> QED BY <2>1 DEF Empty, Span
<1>4. PICK a :
        /\ a[0] = [out |-> << >>, merged |-> i]
        /\ \A k \in 1 .. n : a[k] = Swallow(a[k - 1], s[k])
        /\ SliceInsert(s, i) = SortByFrom(Append(a[n].out, a[n].merged))
  BY <1>1, SwallowPass
<1> HIDE DEF n
<1> DEFINE Near(j) == Touches(s[j], i)
           Fields(k) == /\ a[k] = [out |-> a[k].out, merged |-> a[k].merged]
                        /\ a[k].out \in Seq(Span) /\ a[k].merged \in Span
           \* The span that grows is i and what it touches, so far.
           Grown(k) ==
             /\ a[k].merged.from <= i.from /\ i.to <= a[k].merged.to
             /\ \/ a[k].merged.from = i.from
                \/ \E j \in 1 .. k : Near(j) /\ a[k].merged.from = s[j].from
             /\ \/ a[k].merged.to = i.to
                \/ \E j \in 1 .. k : Near(j) /\ a[k].merged.to = s[j].to
             /\ \A j \in 1 .. k :
                   Near(j) => a[k].merged.from <= s[j].from /\ s[j].to <= a[k].merged.to
           Kept(k) ==
             /\ Gapped(a[k].out)
             /\ Members(a[k].out) = {s[j] : j \in {l \in 1 .. k : ~ Near(l)}}
           Good(k) == Fields(k) /\ Grown(k) /\ Kept(k)
           Upto == {k \in Nat : k <= n => Good(k)}
<1>5. 0 \in Upto
  <2>1. Fields(0) /\ a[0].out = << >> /\ a[0].merged = i
    BY <1>4
  <2>2. Grown(0)
    BY <1>3, <2>1
  <2>3. Kept(0)
    <3>1. Gapped(<< >>) /\ Members(<< >>) = {}
      BY DEF Gapped, Members
    <3>2. \A l \in 1 .. 0 : FALSE
      OBVIOUS
    <3> HIDE DEF Near
    <3> QED BY <2>1, <3>1, <3>2
  <2> HIDE DEF Fields, Grown, Kept
  <2> QED BY <2>1, <2>2, <2>3
<1>6. ASSUME NEW k \in Nat, k \in Upto PROVE k + 1 \in Upto
  <2> SUFFICES ASSUME k + 1 <= n PROVE Good(k + 1)
    OBVIOUS
  <2>1. Good(k)
    BY <1>1, <1>6
  <2>2. k + 1 \in 1 .. n /\ (k + 1) - 1 = k
    BY <1>1
  <2> DEFINE h == s[k + 1]
             m == a[k].merged
             out == a[k].out
  <2>3. a[k + 1] = Swallow(a[k], h)
    BY <1>4, <2>2
  <2>4. /\ a[k] = [out |-> out, merged |-> m] /\ out \in Seq(Span) /\ m \in Span
        /\ m.from \in Int /\ m.to \in Int
    BY <2>1 DEF Span
  <2>5. h \in Span /\ h.from \in Int /\ h.to \in Int /\ h.from < h.to
    BY <1>1, <1>2, <2>2
  <2>6. \A j : j \in 1 .. k + 1 <=> j \in 1 .. k \/ j = k + 1
    OBVIOUS
  <2>7. \A j \in 1 .. k : j \in 1 .. n /\ s[j].to < h.from /\ s[j].from \in Int /\ s[j].to \in Int
    <3>1. \A j \in 1 .. k : j \in 1 .. n /\ j < k + 1
      BY <1>1, <2>2
    <3> QED BY <1>1, <1>2, <2>2, <3>1
  <2>8. (h.to < m.from \/ h.from > m.to) <=> ~ Near(k + 1)
    <3>1. m.from <= i.from /\ i.to <= m.to
      BY <2>1
    <3>2. m.to = i.to \/ m.to < h.from
      <4>1. m.to = i.to \/ \E j \in 1 .. k : m.to = s[j].to
        BY <2>1
      <4> HIDE DEF m, h
      <4> QED BY <2>7, <4>1
    <3>3. m.from = i.from \/ i.from <= h.to
      <4>1. m.from = i.from \/ \E j \in 1 .. k : s[j].to >= i.from
        BY <2>1 DEF Touches
      <4> HIDE DEF m, h
      <4> QED BY <1>3, <2>5, <2>7, <4>1
    <3> HIDE DEF m
    <3> QED BY <1>3, <2>4, <2>5, <3>1, <3>2, <3>3 DEF Touches
  <2>9. CASE ~ Near(k + 1)
    <3>1. a[k + 1] = [out |-> Append(out, h), merged |-> m]
      <4>1. a[k + 1] = [a[k] EXCEPT !.out = Append(@, h)]
        BY <2>3, <2>8, <2>9 DEF Swallow
      <4> QED BY <2>4, <4>1
    <3>2. a[k + 1].out = Append(out, h) /\ a[k + 1].merged = m
      BY <3>1
    <3>3. Fields(k + 1)
      BY <2>4, <2>5, <3>1, <3>2
    <3>4. Grown(k + 1)
      BY <2>1, <2>6, <2>9, <3>2
    <3>5. /\ out \in Seq(Span) /\ Len(out) \in Nat
          /\ Append(out, h) \in Seq(Span) /\ Len(Append(out, h)) = Len(out) + 1
          /\ \A j \in 1 .. Len(out) : Append(out, h)[j] = out[j]
          /\ Append(out, h)[Len(out) + 1] = h
      BY <2>4, <2>5
    <3>6. \A j : j \in 1 .. Len(out) + 1 <=> j \in 1 .. Len(out) \/ j = Len(out) + 1
      BY <3>5
    <3>7. Gapped(out) /\ Members(out) = {s[j] : j \in {l \in 1 .. k : ~ Near(l)}}
      BY <2>1
    <3> HIDE DEF out, h, m
    <3>8. \A j \in 1 .. Len(out) : out[j].to < h.from
      <4>1. \A j \in 1 .. Len(out) : out[j] \in Members(out)
        BY DEF Members
      <4> HIDE DEF Near
      <4> QED BY <2>7, <3>7, <4>1
    <3>9. Gapped(Append(out, h))
      <4>1. \A j \in 1 .. Len(out) + 1 : ~ Empty(Append(out, h)[j])
        BY <2>5, <3>5, <3>6, <3>7 DEF Gapped, Empty
      <4>2. ASSUME NEW x \in 1 .. Len(out) + 1, NEW y \in 1 .. Len(out) + 1, x < y
            PROVE  Append(out, h)[x].to < Append(out, h)[y].from
        <5>1. x \in 1 .. Len(out)
          BY <3>5, <4>2
        <5>2. CASE y \in 1 .. Len(out)
          BY <3>5, <3>7, <4>2, <5>1, <5>2 DEF Gapped
        <5>3. CASE y = Len(out) + 1
          BY <3>5, <3>8, <5>1, <5>3
        <5> QED BY <3>6, <5>2, <5>3
      <4> QED BY <3>5, <4>1, <4>2 DEF Gapped
    <3>10. Members(Append(out, h)) = Members(out) \cup {h}
      BY <3>5, <3>6 DEF Members
    <3>11. {s[j] : j \in {l \in 1 .. k + 1 : ~ Near(l)}} =
              {s[j] : j \in {l \in 1 .. k : ~ Near(l)}} \cup {h}
      <4>1. ~ Near(k + 1)
        BY <2>9
      <4> HIDE DEF Near
      <4> QED BY <2>6, <4>1 DEF h
    <3> HIDE DEF Near
    <3> QED BY <3>2, <3>3, <3>4, <3>7, <3>9, <3>10, <3>11
  <2>10. CASE Near(k + 1)
    <3> DEFINE g == [from |-> Earlier(m.from, h.from), to |-> Later(m.to, h.to)]
    <3>1. a[k + 1] = [out |-> out, merged |-> g]
      <4>1. a[k + 1] = [a[k] EXCEPT !.merged = [from |-> Earlier(@.from, h.from),
                                                to   |-> Later(@.to, h.to)]]
        BY <2>3, <2>8, <2>10 DEF Swallow
      <4> QED BY <2>4, <4>1
    <3>2. a[k + 1].out = out /\ a[k + 1].merged = g
      BY <3>1
    <3>3. g.from = Earlier(m.from, h.from) /\ g.to = Later(m.to, h.to)
      OBVIOUS
    <3>4. g \in Span
      BY <2>4, <2>5 DEF Span, Earlier, Later
    <3>5. Fields(k + 1)
      BY <2>4, <3>1, <3>2, <3>4
    <3> HIDE DEF g
    <3>6. /\ g.from <= m.from /\ g.from <= h.from /\ (g.from = m.from \/ g.from = h.from)
          /\ m.to <= g.to /\ h.to <= g.to /\ (g.to = m.to \/ g.to = h.to)
          /\ g.from \in Int /\ g.to \in Int
      BY <2>4, <2>5, <3>3 DEF Earlier, Later
    <3>7. k + 1 \in 1 .. k + 1 /\ \A j \in 1 .. k : j \in 1 .. k + 1
      OBVIOUS
    <3>8. Grown(k)
      BY <2>1
    <3>9. Near(k + 1)
      BY <2>10
    <3> HIDE DEF Near
    <3>10. g.from <= i.from /\ i.to <= g.to
      BY <1>3, <2>4, <3>6, <3>8
    <3>11. \/ g.from = i.from
           \/ \E j \in 1 .. k + 1 : Near(j) /\ g.from = s[j].from
      BY <3>6, <3>7, <3>8, <3>9
    <3>12. \/ g.to = i.to
           \/ \E j \in 1 .. k + 1 : Near(j) /\ g.to = s[j].to
      BY <3>6, <3>7, <3>8, <3>9
    <3>13. \A j \in 1 .. k + 1 : Near(j) => g.from <= s[j].from /\ s[j].to <= g.to
      <4>1. \A j \in 1 .. k : Near(j) => m.from <= s[j].from /\ s[j].to <= m.to
        BY <3>8
      <4> QED BY <2>4, <2>5, <2>6, <2>7, <3>6, <4>1
    <3>14. Grown(k + 1)
      BY <3>2, <3>10, <3>11, <3>12, <3>13
    <3>15. {l \in 1 .. k + 1 : ~ Near(l)} = {l \in 1 .. k : ~ Near(l)}
      BY <2>6, <3>9
    <3> HIDE DEF Grown
    <3> QED BY <2>1, <3>2, <3>5, <3>14, <3>15
  <2> QED BY <2>9, <2>10
<1> HIDE DEF Upto
<1>7. Nat \subseteq Upto
  BY <1>5, <1>6, NatInductive
<1>8. Good(n)
  <2> HIDE DEF Good
  <2> QED BY <1>1, <1>7 DEF Upto
<1> DEFINE out == a[n].out
           m == a[n].merged
<1>9. Members(out) = {h \in S : ~ Touches(h, i)}
  <2>1. Members(out) = {s[j] : j \in {l \in 1 .. n : ~ Near(l)}}
    BY <1>8
  <2> QED BY <2>1 DEF Members, n
<1>10. m = Merge(S, i)
  <2> DEFINE g == Merge(S, i)
             near == {h \in S : Touches(h, i)} \cup {i}
  <2>1. S \in SUBSET Span /\ Maximal(S)
    BY GappedIsMaximal
  <2> HIDE DEF S
  <2>2. /\ g \in Span
        /\ \E h \in near : g.from = h.from
        /\ \E h \in near : g.to = h.to
        /\ \A h \in near : g.from <= h.from /\ h.to <= g.to
    BY <2>1, MergeBounds
  <2>3. /\ m \in Span
        /\ \E h \in near : m.from = h.from
        /\ \E h \in near : m.to = h.to
        /\ \A h \in near : m.from <= h.from /\ h.to <= m.to
    <3>1. \A h : h \in near <=> h = i \/ \E j \in 1 .. n : Near(j) /\ h = s[j]
      BY DEF S, Members, n
    <3>2. m \in Span /\ Grown(n)
      BY <1>8
    <3> HIDE DEF near, Near
    <3> QED BY <3>1, <3>2
  <2> HIDE DEF g, near, m
  <2>4. g.from \in Int /\ g.to \in Int /\ m.from \in Int /\ m.to \in Int
        /\ g = [from |-> g.from, to |-> g.to] /\ m = [from |-> m.from, to |-> m.to]
    BY <2>2, <2>3 DEF Span
  <2>5. g.from <= m.from /\ m.from <= g.from
    BY <2>2, <2>3
  <2>6. g.to <= m.to /\ m.to <= g.to
    BY <2>2, <2>3
  <2>7. g.from = m.from /\ g.to = m.to
    BY <2>4, <2>5, <2>6
  <2> QED BY <2>4, <2>7 DEF g
<1>11. m \in Span /\ Gapped(out) /\ m.from <= i.from /\ i.to <= m.to
  BY <1>8
<1>12. SliceInsert(s, i) = SortByFrom(Append(out, m))
  BY <1>4
<1> HIDE DEF out, m
<1> QED BY <1>9, <1>10, <1>11, <1>12

\* A list in order, with one more span after it, can be put in order.
LEMMA PlaceExists ==
    ASSUME NEW out, Gapped(out), NEW m \in Span,
           \A k \in 1 .. Len(out) : out[k].from # m.from
    PROVE  \E p \in Bijection(1 .. Len(out) + 1, 1 .. Len(out) + 1) :
             \A j, k \in 1 .. Len(out) + 1 :
                j < k => Append(out, m)[p[j]].from <= Append(out, m)[p[k]].from
<1> DEFINE n == Len(out)
           q == Append(out, m)
           above == {k \in 1 .. n : m.from < out[k].from}
<1>1. /\ n \in Nat /\ out \in Seq(Span)
      /\ \A k \in 1 .. n : out[k].from \in Int /\ out[k].to \in Int /\ out[k].from < out[k].to
      /\ \A j, k \in 1 .. n : j < k => out[j].to < out[k].from
      /\ m.from \in Int
  <2>1. /\ n \in Nat /\ out \in Seq(Span)
        /\ \A k \in 1 .. n : out[k] \in Span /\ ~ Empty(out[k])
        /\ \A j, k \in 1 .. n : j < k => out[j].to < out[k].from
    BY DEF Gapped
  <2>2. \A h \in Span : ~ Empty(h) => h.from \in Int /\ h.to \in Int /\ h.from < h.to
    BY DEF Span, Empty
  <2>3. m.from \in Int
    BY DEF Span
  <2> QED BY <2>1, <2>2, <2>3
<1>2. (\A j \in 1 .. n : q[j] = out[j]) /\ q[n + 1] = m
  BY <1>1
<1> HIDE DEF n, q
<1>3. \A j, k \in 1 .. n : j < k => out[j].from < out[k].from
  BY <1>1
<1>4. \E c \in 0 .. n : /\ \A j \in 1 .. c : out[j].from < m.from
                        /\ \A j \in c + 1 .. n : m.from < out[j].from
  <2>1. CASE above = {}
    <3>1. \A j \in 1 .. n : out[j].from < m.from
      BY <1>1, <2>1 DEF n
    <3>2. n \in 0 .. n /\ n + 1 .. n = {}
      BY <1>1
    <3> QED BY <3>1, <3>2
  <2>2. CASE above # {}
    <3>1. above \subseteq Nat
      BY <1>1
    <3>2. PICK l \in above : \A k \in above : l <= k
      BY <2>2, <3>1, LeastNatural
    <3>3. l \in 1 .. n /\ m.from < out[l].from
      BY <3>2
    <3>4. l - 1 \in 0 .. n /\ (l - 1) + 1 = l
      BY <1>1, <3>3
    <3>5. \A j \in 1 .. l - 1 : out[j].from < m.from
      <4>1. \A j \in 1 .. l - 1 : j \in 1 .. n /\ ~ (l <= j)
        BY <1>1, <3>3
      <4>2. \A j \in 1 .. l - 1 : j \notin above
        BY <3>2, <4>1
      <4> QED BY <1>1, <4>1, <4>2 DEF n
    <3>6. \A j \in l .. n : m.from < out[j].from
      <4>1. \A j \in l .. n : j \in 1 .. n /\ (j = l \/ l < j)
        BY <1>1, <3>3
      <4>2. \A j \in 1 .. n : l < j => out[l].from < out[j].from
        BY <1>3, <3>3
      <4> QED BY <1>1, <3>3, <4>1, <4>2
    <3> QED BY <3>4, <3>5, <3>6
  <2> QED BY <2>1, <2>2
<1>5. PICK c \in 0 .. n : /\ \A j \in 1 .. c : out[j].from < m.from
                          /\ \A j \in c + 1 .. n : m.from < out[j].from
  BY <1>4
<1> DEFINE all == 1 .. n + 1
           p == [k \in all |-> IF k <= c THEN k ELSE IF k = c + 1 THEN n + 1 ELSE k - 1]
<1>6. p \in [all -> all]
  BY <1>1
<1>7. \A j, k \in all : p[j] = p[k] => j = k
  BY <1>1
<1>8. \A y \in all : \E k \in all : p[k] = y
  <2> SUFFICES ASSUME NEW y \in all PROVE \E k \in all : p[k] = y
    OBVIOUS
  <2>1. CASE y <= c
    <3>1. y \in all /\ p[y] = y
      BY <2>1
    <3> QED BY <3>1
  <2>2. CASE y = n + 1
    <3>1. c + 1 \in all /\ p[c + 1] = y
      BY <1>1, <2>2
    <3> QED BY <3>1
  <2>3. CASE c < y /\ y <= n
    <3>1. y + 1 \in all /\ p[y + 1] = y
      BY <1>1, <2>3
    <3> QED BY <3>1
  <2> QED BY <1>1, <2>1, <2>2, <2>3
<1>9. p \in Bijection(all, all)
  <2> HIDE DEF p, all
  <2> QED BY <1>6, <1>7, <1>8 DEF Bijection, Injection, Surjection, IsInjective
<1>10. ASSUME NEW j \in all, NEW k \in all, j < k PROVE q[p[j]].from <= q[p[k]].from
  <2>1. CASE k <= c
    <3>1. j \in 1 .. n /\ k \in 1 .. n /\ p[j] = j /\ p[k] = k
      BY <1>1, <1>10, <2>1
    <3> HIDE DEF p
    <3> QED BY <1>1, <1>2, <1>3, <1>10, <3>1
  <2>2. CASE k = c + 1
    <3>1. j \in 1 .. c /\ j \in 1 .. n /\ p[j] = j /\ p[k] = n + 1
      BY <1>1, <1>10, <2>2
    <3> HIDE DEF p
    <3> QED BY <1>1, <1>2, <1>5, <3>1
  <2>3. CASE c + 1 < k
    <3>1. p[k] = k - 1 /\ k - 1 \in 1 .. n /\ k - 1 \in c + 1 .. n
      BY <1>1, <2>3
    <3>2. CASE j <= c
      <4>1. p[j] = j /\ j \in 1 .. n /\ j < k - 1
        BY <1>1, <1>10, <2>3, <3>2
      <4> HIDE DEF p
      <4>2. out[j].from < out[k - 1].from
        BY <1>3, <3>1, <4>1
      <4> QED BY <1>1, <1>2, <3>1, <4>1, <4>2
    <3>3. CASE j = c + 1
      <4>1. p[j] = n + 1
        BY <1>1, <3>3
      <4> HIDE DEF p
      <4> QED BY <1>1, <1>2, <1>5, <3>1, <4>1
    <3>4. CASE c + 1 < j
      <4>1. p[j] = j - 1 /\ j - 1 \in 1 .. n /\ j - 1 < k - 1
        BY <1>1, <1>10, <3>4, <2>3
      <4> HIDE DEF p
      <4>2. out[j - 1].from < out[k - 1].from
        BY <1>3, <3>1, <4>1
      <4> QED BY <1>1, <1>2, <3>1, <4>1, <4>2
    <3> QED BY <1>1, <3>2, <3>3, <3>4
  <2> QED BY <1>1, <2>1, <2>2, <2>3
<1> HIDE DEF p
<1> QED BY <1>9, <1>10 DEF n, q

\* Sorting what the pass of Insert leaves restores the order and the gaps.
LEMMA SortIsGapped ==
    ASSUME NEW out, Gapped(out), NEW m \in Span, ~ Empty(m),
           \A h \in Members(out) : ~ Touches(h, m)
    PROVE  LET r == SortByFrom(Append(out, m))
           IN  Gapped(r) /\ Members(r) = Members(out) \cup {m}
<1> DEFINE n == Len(out) + 1
           q == Append(out, m)
           all == 1 .. n
           Ordered(p) == \A j, k \in all : j < k => q[p[j]].from <= q[p[k]].from
<1>1. /\ Len(out) \in Nat /\ out \in Seq(Span)
      /\ \A k \in 1 .. Len(out) :
            /\ out[k] \in Span /\ out[k].from \in Int /\ out[k].to \in Int
            /\ out[k].from < out[k].to /\ out[k] \in Members(out)
      /\ \A j, k \in 1 .. Len(out) : j < k => out[j].to < out[k].from
      /\ m.from \in Int /\ m.to \in Int /\ m.from < m.to
  <2>1. /\ Len(out) \in Nat /\ out \in Seq(Span)
        /\ \A k \in 1 .. Len(out) : out[k] \in Span /\ ~ Empty(out[k])
        /\ \A j, k \in 1 .. Len(out) : j < k => out[j].to < out[k].from
    BY DEF Gapped
  <2>2. \A h \in Span : ~ Empty(h) => h.from \in Int /\ h.to \in Int /\ h.from < h.to
    BY DEF Span, Empty
  <2>3. \A k \in 1 .. Len(out) : out[k] \in Members(out)
    BY DEF Members
  <2> QED BY <2>1, <2>2, <2>3
<1>2. \A k \in 1 .. Len(out) : out[k].to < m.from \/ m.to < out[k].from
  BY <1>1 DEF Touches
<1>3. /\ q \in Seq(Span) /\ Len(q) = n /\ n \in Nat
      /\ \A j \in 1 .. Len(out) : q[j] = out[j]
      /\ q[n] = m
  BY <1>1
<1>4. \A k : k \in all <=> k \in 1 .. Len(out) \/ k = n
  BY <1>1
<1>5. \E p \in Bijection(all, all) : Ordered(p)
  <2>1. \A k \in 1 .. Len(out) : out[k].from # m.from
    BY <1>1, <1>2
  <2> QED BY <2>1, PlaceExists
<1> DEFINE p == CHOOSE x \in Bijection(all, all) : Ordered(x)
           r == [k \in all |-> q[p[k]]]
<1>6. SortByFrom(q) = r
  BY <1>3 DEF SortByFrom
<1>7. p \in Bijection(all, all) /\ Ordered(p)
  BY <1>5
<1> HIDE DEF p, n, q
<1>8. /\ p \in [all -> all]
      /\ \A j, k \in all : p[j] = p[k] => j = k
      /\ \A y \in all : \E k \in all : p[k] = y
  BY <1>7 DEF Bijection, Injection, Surjection, IsInjective
<1>9. \A k \in all : /\ q[k] \in Span /\ q[k].from \in Int /\ q[k].to \in Int
                     /\ q[k].from < q[k].to
  BY <1>1, <1>3, <1>4
<1>10. \A j, k \in all : j # k => q[j].to < q[k].from \/ q[k].to < q[j].from
  <2> SUFFICES ASSUME NEW j \in all, NEW k \in all, j # k
               PROVE  q[j].to < q[k].from \/ q[k].to < q[j].from
    OBVIOUS
  <2>1. CASE j \in 1 .. Len(out) /\ k \in 1 .. Len(out)
    <3>1. j < k \/ k < j
      BY <2>1
    <3> QED BY <1>1, <1>3, <2>1, <3>1
  <2>2. CASE j = n /\ k \in 1 .. Len(out)
    BY <1>2, <1>3, <2>2
  <2>3. CASE k = n /\ j \in 1 .. Len(out)
    BY <1>2, <1>3, <2>3
  <2> QED BY <1>4, <2>1, <2>2, <2>3
<1>11. r \in Seq(Span) /\ Len(r) = n /\ \A k \in all : r[k] = q[p[k]]
  <2>1. \A k \in all : q[p[k]] \in Span
    BY <1>8, <1>9
  <2> QED BY <1>3, <2>1
<1> HIDE DEF r
<1>12. Gapped(r)
  <2>1. \A k \in all : ~ Empty(r[k])
    <3>1. \A k \in all : ~ Empty(q[k])
      BY <1>9 DEF Empty
    <3> HIDE DEF all
    <3> QED BY <1>8, <1>11, <3>1
  <2>2. ASSUME NEW j \in all, NEW k \in all, j < k PROVE r[j].to < r[k].from
    <3>1. p[j] \in all /\ p[k] \in all /\ p[j] # p[k]
      <4>1. j # k
        BY <1>3, <2>2
      <4> QED BY <1>8, <4>1
    <3>2. q[p[j]].from <= q[p[k]].from
      BY <1>7, <2>2
    <3>3. q[p[j]].to < q[p[k]].from \/ q[p[k]].to < q[p[j]].from
      BY <1>10, <3>1
    <3> QED BY <1>9, <1>11, <3>1, <3>2, <3>3
  <2> QED BY <1>11, <2>1, <2>2 DEF Gapped
<1>13. Members(r) = {q[k] : k \in all}
  <2>1. Members(r) = {q[p[k]] : k \in all}
    BY <1>11 DEF Members
  <2> HIDE DEF all
  <2> QED BY <1>8, <2>1
<1>14. {q[k] : k \in all} = Members(out) \cup {m}
  BY <1>3, <1>4 DEF Members
<1> QED BY <1>6, <1>12, <1>13, <1>14 DEF q

\* Insert keeps the slice in order and does to its members what the operator
\* of module Intervals does.
LEMMA InsertIs ==
    ASSUME NEW s, Gapped(s), NEW i \in Span
    PROVE  Gapped(SliceInsert(s, i)) /\ Members(SliceInsert(s, i)) = Insert(Members(s), i)
<1>1. CASE SliceCovers(s, i)
  <2>1. SliceInsert(s, i) = s
    BY <1>1 DEF SliceInsert
  <2>2. Insert(Members(s), i) = Members(s)
    BY <1>1, WalkIsCovers DEF Insert
  <2> QED BY <2>1, <2>2
<1>2. CASE ~ SliceCovers(s, i)
  <2> DEFINE S == Members(s)
             far == {h \in S : ~ Touches(h, i)}
  <2>1. PICK out, m :
             /\ SliceInsert(s, i) = SortByFrom(Append(out, m))
             /\ Gapped(out) /\ Members(out) = far
             /\ m \in Span /\ m = Merge(S, i)
             /\ m.from <= i.from /\ i.to <= m.to
    BY <1>2, SwallowIsMerge
  <2>2. ~ Covers(S, i) /\ ~ Empty(i)
    BY <1>2, WalkIsCovers DEF SliceCovers
  <2>3. S \in SUBSET Span /\ Maximal(S)
    BY GappedIsMaximal
  <2>4. Insert(S, i) = far \cup {m}
    BY <2>1, <2>2 DEF Insert
  <2>5. Maximal(far \cup {m})
    BY <2>3, <2>4, InsertMaximal
  <2>6. Touches(m, i) /\ ~ Empty(m)
    BY <2>1, <2>2 DEF Touches, Empty, Span
  <2> HIDE DEF S
  <2>7. \A h \in Members(out) : ~ Touches(h, m)
    <3>1. \A h \in far : h # m
      BY <2>6
    <3> HIDE DEF far
    <3> QED BY <2>1, <2>5, <3>1 DEF Maximal
  <2>8. LET r == SortByFrom(Append(out, m))
        IN  Gapped(r) /\ Members(r) = Members(out) \cup {m}
    BY <2>1, <2>6, <2>7, SortIsGapped
  <2> QED BY <2>1, <2>4, <2>8 DEF S
<1> QED BY <1>1, <1>2

\* Width counts the instants that the members hold.
LEMMA WidthIs ==
    ASSUME NEW s, Gapped(s)
    PROVE  Width(s) = Cardinality({t \in Int : Holds(Members(s), t)})
<1> DEFINE n == Len(s)
           Seen_(k) == {t \in Int : \E j \in 1 .. k : Contains(s[j], t)}
<1>1. /\ n \in Nat /\ s \in Seq(Span)
      /\ \A k \in 1 .. n : s[k] \in Span /\ ~ Empty(s[k])
      /\ \A j, k \in 1 .. n : j < k => s[j].to < s[k].from
  BY DEF Gapped
<1>2. \A k \in 1 .. n : s[k].from \in Int /\ s[k].to \in Int /\ s[k].from < s[k].to
  BY <1>1 DEF Span, Empty
<1>3. PICK w :
        /\ w[0] = 0
        /\ \A k \in 1 .. n : w[k] = w[k - 1] + (s[k].to - s[k].from)
        /\ Width(s) = w[n]
  BY <1>1, WidthPass
<1> HIDE DEF n
<1> DEFINE Good(k) == IsFiniteSet(Seen_(k)) /\ w[k] = Cardinality(Seen_(k))
           Upto == {k \in Nat : k <= n => Good(k)}
<1>4. 0 \in Upto
  <2>1. Seen_(0) = {}
    OBVIOUS
  <2> HIDE DEF Seen_
  <2> QED BY <1>3, <2>1, FS_EmptySet
<1>5. ASSUME NEW k \in Nat, k \in Upto PROVE k + 1 \in Upto
  <2> SUFFICES ASSUME k + 1 <= n PROVE Good(k + 1)
    OBVIOUS
  <2>1. Good(k)
    <3> HIDE DEF Good
    <3> QED BY <1>1, <1>5
  <2>2. k + 1 \in 1 .. n /\ (k + 1) - 1 = k
    BY <1>1
  <2> DEFINE h == s[k + 1]
             new == h.from .. h.to - 1
  <2>3. h.from \in Int /\ h.to \in Int /\ h.from < h.to
    BY <1>2, <2>2
  <2>4. \A j \in 1 .. k : j \in 1 .. n /\ s[j].to < h.from /\ s[j].to \in Int
    <3>1. \A j \in 1 .. k : j \in 1 .. n /\ j < k + 1
      BY <1>1, <2>2
    <3> QED BY <1>1, <1>2, <2>2, <3>1
  <2>5. w[k + 1] = w[k] + (h.to - h.from)
    BY <1>3, <2>2
  <2>6. Seen_(k + 1) = Seen_(k) \cup new
    <3>1. \A j : j \in 1 .. k + 1 <=> j \in 1 .. k \/ j = k + 1
      OBVIOUS
    <3>2. \A t \in Int : Contains(h, t) <=> t \in new
      BY <2>3 DEF Contains
    <3>3. new \subseteq Int
      BY <2>3
    <3> HIDE DEF new
    <3> QED BY <3>1, <3>2, <3>3
  <2> HIDE DEF h
  <2>7. Seen_(k) \cap new = {}
    BY <2>3, <2>4 DEF Contains
  <2> HIDE DEF Seen_
  <2>8. IsFiniteSet(new) /\ Cardinality(new) = h.to - h.from
    <3>1. h.to - 1 \in Int /\ ~ (h.from > h.to - 1)
      BY <2>3
    <3>2. IsFiniteSet(new)
          /\ Cardinality(new) = IF h.from > h.to - 1 THEN 0 ELSE (h.to - 1) - h.from + 1
      BY <2>3, <3>1, FS_Interval
    <3> QED BY <2>3, <3>1, <3>2
  <2> HIDE DEF new
  <2>9. IsFiniteSet(Seen_(k)) /\ w[k] = Cardinality(Seen_(k))
    BY <2>1
  <2>10. /\ IsFiniteSet(Seen_(k) \cup new)
         /\ Cardinality(Seen_(k) \cup new) =
               Cardinality(Seen_(k)) + Cardinality(new) - Cardinality(Seen_(k) \cap new)
    BY <2>8, <2>9, FS_Union
  <2>11. Cardinality(Seen_(k) \cap new) = 0 /\ Cardinality(Seen_(k)) \in Nat
    BY <2>7, <2>9, FS_EmptySet, FS_CardinalityType
  <2>12. Cardinality(Seen_(k) \cup new) = w[k] + (h.to - h.from)
    BY <2>3, <2>8, <2>9, <2>10, <2>11
  <2> QED BY <2>5, <2>6, <2>10, <2>12
<1> HIDE DEF Upto
<1>6. Nat \subseteq Upto
  BY <1>4, <1>5, NatInductive
<1>7. Good(n)
  <2> HIDE DEF Good
  <2> QED BY <1>1, <1>6 DEF Upto
<1>8. Seen_(n) = {t \in Int : Holds(Members(s), t)}
  BY DEF Holds, Members, n
<1> HIDE DEF Seen_
<1> QED BY <1>3, <1>7, <1>8

\* A maximal set covers a span exactly if it holds each of its instants.
LEMMA CoversEveryInstant ==
    ASSUME NEW S \in SUBSET Span, Maximal(S),
           NEW i \in Span, i.from >= 0, i.to <= OpenInterval
    PROVE  Covers(S, i) <=> \A t \in Instants : Contains(i, t) => Holds(S, t)
<1>1. OpenInterval \in Nat /\ i.from \in Int /\ i.to \in Int
  BY OpenIntervalAssumption DEF Span
<1>2. \A h \in S : h.from \in Int /\ h.to \in Int
  BY DEF Span
<1>3. ASSUME Covers(S, i) PROVE \A t \in Instants : Contains(i, t) => Holds(S, t)
  <2>1. Instants \subseteq Int
    BY <1>1 DEF Instants
  <2> QED BY <1>3, <2>1, CoversPointwise
<1>4. ASSUME \A t \in Instants : Contains(i, t) => Holds(S, t), ~ Empty(i) PROVE Covers(S, i)
  <2>1. i.from < i.to
    BY <1>1, <1>4 DEF Empty
  <2>2. \A t \in Int : i.from <= t /\ t < i.to => \E h \in S : h.from <= t /\ t < h.to
    BY <1>1, <1>4 DEF Instants, Contains, Holds
  <2>3. PICK h \in S : h.from <= i.from /\ i.from < h.to
    BY <1>1, <2>1, <2>2
  <2>4. CASE i.to <= h.to
    BY <2>3, <2>4 DEF Covers
  <2>5. CASE h.to < i.to
    <3>1. PICK k \in S : k.from <= h.to /\ h.to < k.to
      BY <1>1, <1>2, <2>2, <2>3, <2>5
    <3>2. h # k /\ Touches(h, k)
      BY <1>1, <1>2, <2>3, <3>1 DEF Touches
    <3> QED BY <3>2 DEF Maximal
  <2> QED BY <1>1, <1>2, <2>4, <2>5
<1>5. Empty(i) => Covers(S, i)
  BY DEF Covers
<1> QED BY <1>3, <1>4, <1>5

\* The slice: in order, and of spans that something can be valid over.
SliceInv ==
    /\ Gapped(slice) /\ added \in BOOLEAN
    /\ \A h \in Members(slice) : h.from >= 0 /\ h.to <= OpenInterval

LEMMA SliceStarts ==
    ASSUME SliceInit
    PROVE  SliceInv
<1>1. slice = << >> /\ added = FALSE
  BY DEF SliceInit
<1>2. Gapped(<< >>) /\ Members(<< >>) = {}
  BY DEF Gapped, Members
<1> QED BY <1>1, <1>2 DEF SliceInv

LEMMA SliceStep ==
    ASSUME SliceInv, [SliceNext]_sliceVars
    PROVE  SliceInv'
<1>1. CASE SliceNext
  <2>1. PICK i \in Spans : InsertSpan(i)
    BY <1>1 DEF SliceNext
  <2>2. i \in Span /\ i.from >= 0 /\ i.to <= OpenInterval
    BY SpansAssumption
  <2>3. added' = (~ SliceCovers(slice, i)) /\ slice' = SliceInsert(slice, i)
    BY <2>1 DEF InsertSpan
  <2>4. Gapped(slice)
    BY DEF SliceInv
  <2> DEFINE S == Members(slice)
  <2>5. Gapped(slice') /\ Members(slice') = Insert(S, i)
    BY <2>2, <2>3, <2>4, InsertIs
  <2>6. \A h \in Insert(S, i) : h.from >= 0 /\ h.to <= OpenInterval
    <3>1. S \in SUBSET Span /\ Maximal(S)
      BY <2>4, GappedIsMaximal
    <3>2. \A h \in S : h.from >= 0 /\ h.to <= OpenInterval
      BY DEF SliceInv
    <3> HIDE DEF S
    <3> DEFINE m == Merge(S, i)
               near == {h \in S : Touches(h, i)} \cup {i}
    <3>3. (\E h \in near : m.from = h.from) /\ (\E h \in near : m.to = h.to)
      BY <2>2, <3>1, MergeBounds
    <3>4. m.from >= 0 /\ m.to <= OpenInterval
      <4>1. \A h \in near : h.from >= 0 /\ h.to <= OpenInterval
        BY <2>2, <3>2
      <4> HIDE DEF near, m
      <4> QED BY <3>3, <4>1
    <3> HIDE DEF m
    <3> QED BY <3>2, <3>4 DEF Insert, m
  <2>7. added' \in BOOLEAN
    BY <2>3
  <2> QED BY <2>5, <2>6, <2>7 DEF SliceInv
<1>2. CASE UNCHANGED sliceVars
  BY <1>2 DEF sliceVars, SliceInv
<1> QED BY <1>1, <1>2

LEMMA SliceAlways == SliceSpec => []SliceInv
<1>1. SliceInit => SliceInv
  BY SliceStarts
<1>2. SliceInv /\ [SliceNext]_sliceVars => SliceInv'
  BY SliceStep
<1> QED BY <1>1, <1>2, PTL DEF SliceSpec

\* The instants the slice stands for, as those its members hold.
LEMMA CoveredIs ==
    ASSUME SliceInv
    PROVE  Covered = {t \in Int : Holds(Members(slice), t)}
<1>1. OpenInterval \in Nat
  BY OpenIntervalAssumption
<1>2. \A h \in Members(slice) : /\ h \in Span /\ h.from \in Int /\ h.to \in Int
                                /\ h.from >= 0 /\ h.to <= OpenInterval
  BY GappedIsMaximal DEF SliceInv, Span
<1>3. \A t \in Int : Holds(Members(slice), t) => t \in Instants
  BY <1>1, <1>2 DEF Holds, Contains, Instants
<1>4. Instants \subseteq Int
  BY <1>1 DEF Instants
<1> QED BY <1>3, <1>4 DEF Covered

\* What SortedWithGaps says of neighbours.
THEOREM SliceIsSorted == SliceSpec => []SortedWithGaps
<1>1. SliceInv => SortedWithGaps
  BY DEF SliceInv, Gapped, SortedWithGaps
<1> QED BY <1>1, SliceAlways, PTL

\* The walk of Covers answers the pointwise question, Width is the number of
\* instants covered and Earliest the first of them.
THEOREM SliceMeasures == SliceSpec => []MeasuresCoverage
<1>1. ASSUME SliceInv PROVE MeasuresCoverage
  <2> DEFINE S == Members(slice)
  <2>1. Gapped(slice)
    BY <1>1 DEF SliceInv
  <2>2. S \in SUBSET Span /\ Maximal(S)
    BY <2>1, GappedIsMaximal
  <2>3. Covered = {t \in Int : Holds(S, t)}
    BY <1>1, CoveredIs
  <2>4. Width(slice) = Cardinality(Covered)
    BY <2>1, <2>3, WidthIs
  <2>5. Covered \subseteq Instants /\ \A t \in Instants : t \in Covered <=> Holds(S, t)
    BY DEF Covered
  <2>6. ASSUME NEW i \in Spans
        PROVE  SliceCovers(slice, i) <=> \A t \in Instants : Contains(i, t) => t \in Covered
    <3>1. i \in Span /\ i.from >= 0 /\ i.to <= OpenInterval
      BY SpansAssumption
    <3>2. SliceCovers(slice, i) <=> Covers(S, i)
      BY <2>1, <3>1, WalkIsCovers
    <3>3. Covers(S, i) <=> \A t \in Instants : Contains(i, t) => Holds(S, t)
      BY <2>2, <3>1, CoversEveryInstant
    <3> HIDE DEF S
    <3> QED BY <2>5, <3>2, <3>3
  <2>7. ASSUME Covered # {} PROVE Earliest(slice) = Least(Covered)
    <3>1. /\ slice \in Seq(Span) /\ Len(slice) \in Nat
          /\ \A k \in 1 .. Len(slice) : slice[k] \in Span /\ ~ Empty(slice[k])
          /\ \A j, k \in 1 .. Len(slice) : j < k => slice[j].to < slice[k].from
      BY <2>1 DEF Gapped
    <3>2. \A k \in 1 .. Len(slice) : /\ slice[k].from \in Int /\ slice[k].to \in Int
                                     /\ slice[k].from < slice[k].to
      BY <3>1 DEF Span, Empty
    <3>3. \A t \in Int : t \in Covered <=>
                            \E k \in 1 .. Len(slice) : slice[k].from <= t /\ t < slice[k].to
      BY <2>3 DEF Holds, Contains, Members
    <3>4. 1 \in 1 .. Len(slice)
      <4>1. PICK t \in Int : t \in Covered
        BY <2>3, <2>7
      <4> QED BY <3>1, <3>3, <4>1
    <3>5. slice # << >>
      BY <3>1, <3>4
    <3> DEFINE x == slice[1].from
    <3>6. x \in Covered
      BY <3>2, <3>3, <3>4
    <3>7. \A k \in 1 .. Len(slice) : x <= slice[k].from
      <4>1. \A k \in 1 .. Len(slice) : k = 1 \/ 1 < k
        BY <3>1
      <4> QED BY <3>1, <3>2, <3>4, <4>1
    <3>8. \A t \in Covered : t \in Int /\ x <= t
      BY <2>3, <3>2, <3>3, <3>4, <3>7
    <3>9. Earliest(slice) = x
      BY <3>5 DEF Earliest
    <3> HIDE DEF x
    <3>10. x \in Int /\ \A y \in Covered : (\A z \in Covered : y <= z) => y = x
      BY <3>6, <3>8
    <3>11. Least(Covered) = x
      <4>1. \E y \in Covered : \A z \in Covered : y <= z
        BY <3>6, <3>8
      <4>2. Least(Covered) \in Covered /\ \A z \in Covered : Least(Covered) <= z
        BY <4>1 DEF Least
      <4> QED BY <3>10, <4>2
    <3> QED BY <3>9, <3>11
  <2> QED BY <2>4, <2>6, <2>7 DEF MeasuresCoverage
<1> QED BY <1>1, SliceAlways, PTL

\* The walks over the slice compute what the operators of module Intervals
\* say, with which the search is modelled.
THEOREM SliceAgrees == SliceSpec => []AgreesWithIntervals
<1>1. ASSUME SliceInv PROVE AgreesWithIntervals
  <2>1. Gapped(slice)
    BY <1>1 DEF SliceInv
  <2>2. ASSUME NEW i \in Spans
        PROVE  /\ SliceCovers(slice, i) <=> Covers(Members(slice), i)
               /\ Members(SliceInsert(slice, i)) = Insert(Members(slice), i)
    <3>1. i \in Span
      BY SpansAssumption
    <3> QED BY <2>1, <3>1, WalkIsCovers, InsertIs
  <2> QED BY <2>2 DEF AgreesWithIntervals
<1> QED BY <1>1, SliceAlways, PTL

\* The slice implements a set of instants: an insertion adds exactly those of
\* its span, and reports whether one of them was new.
THEOREM SliceImplements == SliceSpec => ImplementsInstantSet
<1>1. ASSUME SliceInit PROVE Promise!Init
  <2>1. slice = << >> /\ added = FALSE
    BY <1>1 DEF SliceInit
  <2>2. Members(<< >>) = {}
    BY DEF Members
  <2>3. Covered = {}
    BY <2>1, <2>2 DEF Covered, Holds
  <2> QED BY <2>1, <2>3 DEF Promise!Init
<1>2. ASSUME SliceInv, SliceInv', [SliceNext]_sliceVars
      PROVE  [Promise!Next]_<<Covered, added>>
  <2>1. CASE SliceNext
    <3>1. PICK i \in Spans : InsertSpan(i)
      BY <2>1 DEF SliceNext
    <3>2. i \in Span /\ i.from >= 0 /\ i.to <= OpenInterval
      BY SpansAssumption
    <3>3. added' = (~ SliceCovers(slice, i)) /\ slice' = SliceInsert(slice, i)
      BY <3>1 DEF InsertSpan
    <3>4. Gapped(slice)
      BY <1>2 DEF SliceInv
    <3> DEFINE S == Members(slice)
               T == {t \in Instants : Contains(i, t)}
    <3>5. S \in SUBSET Span /\ Maximal(S)
      BY <3>4, GappedIsMaximal
    <3>6. Members(slice') = Insert(S, i)
      BY <3>2, <3>3, <3>4, InsertIs
    <3>7. Covered = {t \in Instants : Holds(S, t)}
      BY DEF Covered
    <3>8. Covered' = {t \in Instants : Holds(Insert(S, i), t)}
      BY <3>6 DEF Covered
    <3>9. SliceCovers(slice, i) <=> \A t \in Instants : Contains(i, t) => Holds(S, t)
      <4>1. SliceCovers(slice, i) <=> Covers(S, i)
        BY <3>2, <3>4, WalkIsCovers
      <4>2. Covers(S, i) <=> \A t \in Instants : Contains(i, t) => Holds(S, t)
        BY <3>2, <3>5, CoversEveryInstant
      <4> QED BY <4>1, <4>2
    <3>10. \A t \in Instants : Holds(Insert(S, i), t) <=> Holds(S, t) \/ Contains(i, t)
      <4>1. Instants \subseteq Int
        BY OpenIntervalAssumption DEF Instants
      <4> QED BY <3>2, <3>5, <4>1, InsertPointwise
    <3> HIDE DEF S
    <3>11. Covered' = Covered \cup T
      BY <3>7, <3>8, <3>10
    <3>12. added' = (T \ Covered # {})
      BY <3>3, <3>7, <3>9
    <3>13. Promise!InstantsOf(i) = T
      BY DEF Promise!InstantsOf, Promise!Instants, Instants, Promise!Contains, Contains
    <3> HIDE DEF T
    <3>14. Promise!Add(i)
      BY <3>11, <3>12, <3>13 DEF Promise!Add
    <3> QED BY <3>14 DEF Promise!Next
  <2>2. CASE UNCHANGED sliceVars
    BY <2>2 DEF sliceVars, Covered
  <2> QED BY <1>2, <2>1, <2>2
<1>3. SliceInit => Promise!Init
  BY <1>1
<1>4. SliceInv /\ SliceInv' /\ [SliceNext]_sliceVars => [Promise!Next]_<<Covered, added>>
  BY <1>2
<1> QED BY <1>3, <1>4, SliceAlways, PTL DEF SliceSpec, Promise!Spec, ImplementsInstantSet
=============================================================================
