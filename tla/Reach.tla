------------------------------- MODULE Reach -------------------------------
(***************************************************************************)
(* Coexistence-constrained reachability: Reach, unionPass and replay of    *)
(* internal/query/reach.go, and the replays that removal analysis          *)
(* (Cuts, internal/query/cut.go) makes of the same cached edges.           *)
(*                                                                         *)
(* The union pass walks the graph level by level and ignores spans; one    *)
(* action is one call of the expander, which may fail.  The replay walks   *)
(* the cached edges with the running intersection of spans; one action is  *)
(* one source or one (entry, edge) pair.  The code takes the pairs of a    *)
(* level in the order its slices give, which is the order the graph        *)
(* returned rows in; here they are taken in any order.                     *)
(***************************************************************************)
EXTENDS Intervals, Sequences

CONSTANTS
    Nodes,              \* the URNs of the graph
    Graphs,             \* the edge sets a behaviour may start from
    SourceSets,         \* the sets of source entries it may start from
    Within,             \* Options.Within; the zero span stands for Always
    MaxDepth,           \* Options.MaxDepth; not positive stands for the default
    DefaultMaxDepth,    \* defaultMaxDepth
    Removals            \* the sets of nodes that Cuts may take out

Edge  == [from : Nodes, to : Nodes, valid : Span]
Entry == [urn : Nodes, valid : Span]

ASSUME ReachAssumption ==
    /\ Graphs \subseteq SUBSET Edge
    /\ SourceSets \subseteq SUBSET Entry
    /\ Within \in Span
    /\ MaxDepth \in Int
    /\ DefaultMaxDepth \in Nat \ {0}
    /\ Removals \subseteq SUBSET Nodes

VARIABLES
    graph,      \* the edges in the graph database
    sources,    \* the source entries
    phase,      \* "union", "replay", "answered", "cut", "cut_done", "failed"
    depth,      \* Result.Depth
    union,      \* Result.Union
    wave,       \* unionPass' frontier
    cache,      \* Result.Edges
    truncated,  \* Result.Truncated
    blocked,    \* the nodes the current replay leaves out
    level,      \* replay's depth
    seeds,      \* the sources the replay has not looked at yet
    todo,       \* the (entry, edge) pairs left at this level
    frontier,   \* the entries for the next level
    reached,    \* the spans per node of the current replay
    full,       \* Result.Coexistence
    streamed    \* the frontiers handed to OnFrontier, in order

inputs == <<graph, sources>>
unionVars == <<depth, union, wave, cache, truncated>>
replayVars == <<blocked, level, seeds, todo, frontier, reached, full, streamed>>
vars == <<inputs, phase, unionVars, replayVars>>

-----------------------------------------------------------------------------

Horizon == IF Within = [from |-> 0, to |-> 0] THEN Always ELSE Within
Bound   == IF MaxDepth <= 0 THEN DefaultMaxDepth ELSE MaxDepth

Nowhere == [n \in Nodes |-> {}]

Replaying == phase \in {"replay", "cut"}
Finished  == phase \in {"answered", "cut_done"}

Pair(f, e) == [entry |-> f, edge |-> e]

Init ==
    /\ graph \in Graphs
    /\ sources \in SourceSets
    /\ phase = "union"
    /\ depth = 0
    /\ union = {s.urn : s \in sources}
    /\ wave = {s.urn : s \in sources}
    /\ cache = {}
    /\ truncated = FALSE
    /\ blocked = {}
    /\ level = 0
    /\ seeds = {}
    /\ todo = {}
    /\ frontier = {}
    /\ reached = Nowhere
    /\ full = Nowhere
    /\ streamed = << >>

-----------------------------------------------------------------------------
(* The union pass.                                                         *)

\* What the expander returns for the wave.
OutOf(N) == {e \in graph : e.from \in N}

\* Mutant: the cache keeps the last level only.
ExpandUnionForgetsCache ==
    /\ phase = "union" /\ wave # {} /\ depth < Bound
    /\ depth' = depth + 1
    /\ cache' = OutOf(wave)
    /\ union' = union \cup {e.to : e \in OutOf(wave)}
    /\ wave' = {e.to : e \in OutOf(wave)} \ union
    /\ UNCHANGED <<inputs, phase, truncated, replayVars>>

\* Mutant: a node is marked when it is expanded, not when it is found.
ExpandUnionMarksLate ==
    /\ phase = "union" /\ wave # {} /\ depth < Bound
    /\ depth' = depth + 1
    /\ cache' = cache \cup OutOf(wave)
    /\ union' = union \cup wave
    /\ wave' = {e.to : e \in OutOf(wave)} \ union
    /\ UNCHANGED <<inputs, phase, truncated, replayVars>>

\* One level: read the edges of the whole wave at once, cache them, and go
\* on with the nodes not seen before.
ExpandUnion ==
    /\ phase = "union" /\ wave # {} /\ depth < Bound
    /\ depth' = depth + 1
    /\ cache' = cache \cup OutOf(wave)
    /\ union' = union \cup {e.to : e \in OutOf(wave)}
    /\ wave' = {e.to : e \in OutOf(wave)} \ union
    /\ UNCHANGED <<inputs, phase, truncated, replayVars>>

\* The expander failed or the context was cancelled: Reach returns an empty
\* Result.
ExpandFails ==
    /\ phase = "union" /\ wave # {} /\ depth < Bound
    /\ phase' = "failed"
    /\ depth' = 0
    /\ union' = {}
    /\ wave' = {}
    /\ cache' = {}
    /\ UNCHANGED <<inputs, truncated, replayVars>>

\* The wave ran dry, or the depth bound was met with nodes still to expand.
EndUnion ==
    /\ phase = "union"
    /\ wave = {} \/ depth = Bound
    /\ truncated' = (wave # {})
    /\ phase' = "replay"
    /\ seeds' = sources
    /\ UNCHANGED <<inputs, depth, union, wave, cache, blocked, level, todo,
                   frontier, reached, full, streamed>>

-----------------------------------------------------------------------------
(* The replay.                                                             *)

\* Mutant: a node already reached is never entered again, whatever the span.
EnterOnce(n, i) ==
    IF Adds(reached[n], i) /\ reached[n] = {}
    THEN /\ reached' = [reached EXCEPT ![n] = Insert(@, i)]
         /\ frontier' = frontier \cup {[urn |-> n, valid |-> i]}
    ELSE UNCHANGED <<reached, frontier>>

\* Node n is reached over i.  A span already covered is not expanded again,
\* and an empty one never is.
Enter(n, i) ==
    IF Adds(reached[n], i)
    THEN /\ reached' = [reached EXCEPT ![n] = Insert(@, i)]
         /\ frontier' = frontier \cup {[urn |-> n, valid |-> i]}
    ELSE UNCHANGED <<reached, frontier>>

\* Mutant: a removed node is not entered along an edge, but still starts
\* the search when it is a source.
SeedIgnoringBlocked(s) ==
    /\ Replaying /\ s \in seeds
    /\ seeds' = seeds \ {s}
    /\ Enter(s.urn, Intersect(s.valid, Horizon))
    /\ UNCHANGED <<inputs, phase, unionVars, blocked, level, todo, full, streamed>>

\* A source is reached over the part of the horizon in which it existed.
Seed(s) ==
    /\ Replaying /\ s \in seeds
    /\ seeds' = seeds \ {s}
    /\ IF s.urn \in blocked
       THEN UNCHANGED <<reached, frontier>>
       ELSE Enter(s.urn, Intersect(s.valid, Horizon))
    /\ UNCHANGED <<inputs, phase, unionVars, blocked, level, todo, full, streamed>>

\* Mutant: an edge need only overlap the one before it, and the entry goes
\* on with the span of the last edge.
FollowPairwise(p) ==
    /\ Replaying /\ p \in todo
    /\ todo' = todo \ {p}
    /\ IF p.edge.to \in blocked \/ Empty(Intersect(p.entry.valid, p.edge.valid))
       THEN UNCHANGED <<reached, frontier>>
       ELSE Enter(p.edge.to, p.edge.valid)
    /\ UNCHANGED <<inputs, phase, unionVars, blocked, level, seeds, full, streamed>>

\* One edge out of one frontier entry.
Follow(p) ==
    /\ Replaying /\ p \in todo
    /\ todo' = todo \ {p}
    /\ IF p.edge.to \in blocked
       THEN UNCHANGED <<reached, frontier>>
       ELSE Enter(p.edge.to, Intersect(p.entry.valid, p.edge.valid))
    /\ UNCHANGED <<inputs, phase, unionVars, blocked, level, seeds, full, streamed>>

LevelDone == Replaying /\ seeds = {} /\ todo = {}

\* Mutant: the frontier met at the depth bound is not reported.
ReportBeforeBound ==
    streamed' = IF phase = "replay" /\ frontier # {} /\ level < Bound
                THEN Append(streamed, [depth |-> level, entries |-> frontier])
                ELSE streamed

\* OnFrontier is called after every level that found something.  Cuts'
\* replays have no observer.
Report ==
    streamed' = IF phase = "replay" /\ frontier # {}
                THEN Append(streamed, [depth |-> level, entries |-> frontier])
                ELSE streamed

ExpandLevel ==
    /\ LevelDone /\ frontier # {} /\ level < Bound
    /\ Report
    /\ level' = level + 1
    /\ todo' = {p \in {Pair(f, e) : f \in frontier, e \in cache} :
                    p.edge.from = p.entry.urn}
    /\ frontier' = {}
    /\ UNCHANGED <<inputs, phase, unionVars, blocked, seeds, reached, full>>

\* Mutant: the replay ends when nothing is left, not at the depth bound.
EndReplayWhenDry ==
    /\ LevelDone /\ frontier = {}
    /\ Report
    /\ phase' = IF phase = "replay" THEN "answered" ELSE "cut_done"
    /\ full' = IF phase = "replay" THEN reached ELSE full
    /\ UNCHANGED <<inputs, unionVars, blocked, level, seeds, todo, frontier, reached>>

\* The answer of Reach, or of one of Cuts' replays.  The frontier left over
\* at the depth bound is dropped.
EndReplay ==
    /\ LevelDone /\ (frontier = {} \/ level = Bound)
    /\ Report
    /\ phase' = IF phase = "replay" THEN "answered" ELSE "cut_done"
    /\ full' = IF phase = "replay" THEN reached ELSE full
    /\ UNCHANGED <<inputs, unionVars, blocked, level, seeds, todo, frontier, reached>>

\* Cuts replays the cached edges without the reached versions of one
\* account's packages.
Cut(b) ==
    /\ Finished
    /\ b # {} /\ \A n \in b : full[n] # {}
    /\ phase' = "cut"
    /\ blocked' = b
    /\ level' = 0
    /\ seeds' = sources
    /\ frontier' = {}
    /\ reached' = Nowhere
    /\ UNCHANGED <<inputs, unionVars, todo, full, streamed>>

-----------------------------------------------------------------------------

Next ==
    \/ ExpandUnion
    \/ ExpandFails
    \/ EndUnion
    \/ \E s \in seeds : Seed(s)
    \/ \E p \in todo : Follow(p)
    \/ ExpandLevel
    \/ EndReplay
    \/ \E b \in Removals : Cut(b)

Spec == Init /\ [][Next]_vars

\* Reach runs in one goroutine that is not interrupted: it takes its next
\* step, whichever that is, until it has an answer.  Nobody has to ask for a
\* cut, so Cut is not in it.
Search ==
    \/ ExpandUnion
    \/ ExpandFails
    \/ EndUnion
    \/ \E s \in seeds : Seed(s)
    \/ \E p \in todo : Follow(p)
    \/ ExpandLevel
    \/ EndReplay

FairSpec == Spec /\ WF_vars(Search)

-----------------------------------------------------------------------------
(* Properties.                                                             *)

TypeOK ==
    /\ graph \in SUBSET Edge
    /\ sources \in SUBSET Entry
    /\ phase \in {"union", "replay", "answered", "cut", "cut_done", "failed"}
    /\ depth \in 0 .. Bound
    /\ union \in SUBSET Nodes
    /\ wave \in SUBSET Nodes
    /\ cache \in SUBSET Edge
    /\ truncated \in BOOLEAN
    /\ blocked \in SUBSET Nodes
    /\ level \in 0 .. Bound
    /\ seeds \in SUBSET Entry
    /\ todo \in SUBSET [entry : Entry, edge : Edge]
    /\ frontier \in SUBSET Entry
    /\ reached \in [Nodes -> SUBSET Span]
    /\ full \in [Nodes -> SUBSET Span]
    /\ streamed \in Seq([depth : 0 .. Bound, entries : SUBSET Entry])

\* The nodes a table of spans says are reached at instant t (ReachedAt).
NodesAt(table, t) == {n \in Nodes : Holds(table[n], t)}

ReachedAt(t) == NodesAt(reached, t)

\* S is closed at t: it has every source live at t, and every node that an
\* edge of E live at t leads to from a node of S.  Removed nodes are not in
\* the graph.
Closed(S, E, t) ==
    /\ \A s \in sources :
          (/\ s.urn \notin blocked
           /\ Contains(s.valid, t)
           /\ Contains(Horizon, t)) => s.urn \in S
    /\ \A e \in E :
          (/\ e.from \in S
           /\ e.to \notin blocked
           /\ Contains(e.valid, t)) => e.to \in S

\* No phantom: whatever the search has reached at an instant can really be
\* walked to at that instant, over edges all of which were live then.  It is
\* in every set that is closed at that instant.  This holds at every step of
\* the search, so also for the frontiers streamed before it ends.
NoPhantom ==
    Replaying \/ Finished =>
        \A t \in Instants : \A S \in SUBSET Nodes :
            Closed(S, graph, t) => ReachedAt(t) \subseteq S

\* Nothing missed: when the replay ran out of frontier, what it reached at an
\* instant is itself closed, so pruning a span as covered (by spans of
\* different paths) never lost a node.
NothingMissed ==
    Finished /\ frontier = {} =>
        \A t \in Instants : Closed(ReachedAt(t), graph, t)

\* Every node reached over some span is in the union answer, so Phantom
\* Reach, the difference of the two, never counts the same node on both
\* sides, at the depth bound included.
CoexistenceWithinUnion == \A n \in Nodes : reached[n] # {} => n \in union

\* The cache serves every level of every replay: an entry that may still be
\* expanded belongs to a node whose edges have all been read.
CacheServesReplay ==
    Replaying /\ level < Bound =>
        \A f \in frontier : OutOf({f.urn}) \subseteq cache

\* The spans kept per node never touch, however the search got to them.
SpansStayMaximal == \A n \in Nodes : Maximal(reached[n])

\* Some streamed frontier said that n was reached at t.
Told(n, t) ==
    \E k \in 1 .. Len(streamed) :
        \E f \in streamed[k].entries : f.urn = n /\ Contains(f.valid, t)

\* The stream tells the whole answer: every instant at which a node is
\* reported in the end was on some streamed frontier, and nothing else was.
StreamIsTheAnswer ==
    Finished =>
        \A n \in Nodes : \A t \in Instants : Holds(full[n], t) <=> Told(n, t)

\* The search, the cuts included, gives the exact answer within the depth
\* bound for every instant: it implements module Reachability.
Abstract ==
    INSTANCE Reachability WITH
        removed <- blocked,
        status <- IF phase = "failed" THEN "failed"
                  ELSE IF Finished THEN "answered" ELSE "open",
        answer <- [t \in Instants |-> IF Finished THEN ReachedAt(t) ELSE {}]
ImplementsReachability == Abstract!Spec

\* Every search and every cut ends, with an answer or an error, cycles in the
\* graph notwithstanding.
SearchesEnd == phase \in {"union", "replay", "cut"} ~> (Finished \/ phase = "failed")

\* reach.go:48-50 and reach_test.go:180-206: a search that stopped because
\* of the depth bound says so.
TruncationIsReported ==
    Finished /\ (\E t \in Instants : ~ Closed(ReachedAt(t), graph, t)) => truncated
=============================================================================
