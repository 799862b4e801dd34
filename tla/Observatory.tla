----------------------------- MODULE Observatory -----------------------------
(***************************************************************************)
(* `keyholders observatory` (cmd/keyholders/observatory.go over            *)
(* internal/observatory): the dependencies between packages at each epoch, *)
(* the reach of every package and of every maintainer, and what is written *)
(* of it to the graph for the HTTP server to read.  A run may fail at any  *)
(* statement and is then started again, at later epochs perhaps, after the *)
(* packages were ingested again.                                           *)
(***************************************************************************)
EXTENDS Sketch, Sequences

CONSTANTS
    Handles,
    Ingests,        \* what ingests may have left in the graph
    RunsOf,         \* what a run may be asked: the epochs, and the names covered
    MaxRuns         \* bound: the runs started

\* row is the place of the release among the rows of its timeline.
Release == [pkg : Packages, row : Nat, published : Nat, pre : BOOLEAN, deps : SUBSET Packages]
Holding == [handle : Handles, pkg : Packages, from : Nat, to : Nat]

\* A package and a maintainer have URNs of different kinds, and Epochs lists
\* the boundaries of the quarters in order.
ASSUME ObservatoryAssumption ==
    /\ \A g \in Ingests : g.releases \subseteq Release /\ g.holdings \subseteq Holding
    /\ \A g \in Ingests : \A r, o \in g.releases : r.pkg = o.pkg /\ r.row = o.row => r = o
    /\ Handles \cap Packages = {}
    /\ \A r \in RunsOf :
          /\ r.epochs \in Seq(Nat) /\ r.epochs # << >>
          /\ \A j, k \in DOMAIN r.epochs : j < k => r.epochs[j] < r.epochs[k]
          /\ r.names \subseteq Packages /\ r.names # {}
    /\ MaxRuns \in Nat

VARIABLES
    graph,          \* the ingested part of the graph
    run,            \* what the present run, or the last one, was asked
    started,        \* how many runs were started
    pc,             \* where the command is
    runs,           \* the finished epochs, as epochRun holds them
    todo,           \* the rows the command has yet to write, statement by statement
    pkgResolves,    \* PKG_RESOLVES edges
    kri,            \* kri and kri_at of the nodes that have them
    kriAt           \* KRI_AT edges: by node and epoch

storeVars == <<pkgResolves, kri, kriAt>>
vars == <<engineVars, kind, graph, run, started, pc, runs, todo, storeVars>>

-----------------------------------------------------------------------------

SeqRange(s) == {s[k] : k \in DOMAIN s}
Last(s) == s[Len(s)]

\* currentVersion, as a set of at most one: the newest release, and the first
\* one in the timeline of those published in the same second.
Current(p, t) ==
    LET fit == {r \in graph.releases :
                   r.pkg = p /\ r.published > 0 /\ r.published <= t /\ ~ r.pre}
        newest == {r \in fit : \A o \in fit : o.published <= r.published}
    IN  {r \in newest : \A o \in newest : r.row <= o.row}

\* Snapshots, at one epoch.
Snapshot(names, t) ==
    UNION {{<<p, d>> : d \in UNION {r.deps : r \in Current(p, t)}} : p \in names}

\* Maintainers.
HoldersAt(p, t) ==
    {h \in Handles : \E m \in graph.holdings :
        m.handle = h /\ m.pkg = p /\ m.from <= t /\ m.to > t}

\* The epoch that is next.
Epoch == run.epochs[Len(runs) + 1]

\* Aggregate.
Maintainers(sketches, t) ==
    [h \in UNION {HoldersAt(p, t) : p \in DOMAIN sketches} |->
        MergeAll({sketches[p] : p \in {x \in DOMAIN sketches : h \in HoldersAt(x, t)}})]

EpochRun(sketches, t) ==
    [epoch |-> t, packages |-> sketches, maintainers |-> Maintainers(sketches, t),
     orphaned |-> {p \in DOMAIN sketches : HoldersAt(p, t) = {}}]

\* The rows of one call of WriteBack, and of WriteKRIHistory.
BackRows(sketches, t) ==
    {[to |-> "kri", node |-> n, epoch |-> t, kri |-> Count(sketches[n]), orphaned |-> FALSE] :
        n \in DOMAIN sketches}

HistoryRows(sketches, orphaned, t) ==
    {[to |-> "history", node |-> n, epoch |-> t, kri |-> Count(sketches[n]),
      orphaned |-> n \in orphaned] : n \in DOMAIN sketches}

\* The calls, in their order.
Writes(done) ==
    <<BackRows(Last(done).packages, Last(done).epoch),
      BackRows(Last(done).maintainers, Last(done).epoch)>>
    \o [k \in 1 .. 2 * Len(done) |->
          LET r == done[(k + 1) \div 2]
          IN  IF k % 2 = 1 THEN HistoryRows(r.packages, r.orphaned, r.epoch)
              ELSE HistoryRows(r.maintainers, {}, r.epoch)]

Init ==
    /\ EngineInit
    /\ graph \in Ingests
    /\ run \in RunsOf
    /\ started = 0 /\ pc = "ended" /\ runs = << >> /\ todo = << >>
    /\ pkgResolves = {} /\ kri = << >> /\ kriAt = << >>

\* The packages are ingested again, while no run reads them.
Reingest ==
    /\ pc \in {"ended", "failed"} /\ started < MaxRuns
    /\ graph' \in Ingests \ {graph}
    /\ pc' = "ended" /\ run' = run /\ runs' = << >>
    /\ UNCHANGED <<engineVars, kind, started, todo, storeVars>>

\* A run starts: it samples no epoch after the newest boundary that has passed,
\* so that its last epoch is never before that of a run before it.
Start(r) ==
    /\ pc \in {"ended", "failed"} /\ started < MaxRuns
    /\ started > 0 => Last(r.epochs) >= Last(run.epochs)
    /\ started' = started + 1
    /\ run' = r
    /\ runs' = << >>
    /\ todo' = << UNION {{[to |-> "resolves", edge |-> e, epoch |-> t] :
                            e \in Snapshot(r.names, t)} : t \in SeqRange(r.epochs)} >>
    /\ pc' = "snapshots"
    /\ UNCHANGED <<engineVars, kind, graph, storeVars>>

\* The command goes on once its rows are written.
Compute ==
    /\ pc = "snapshots" /\ todo = << >>
    /\ pc' = "epochs"
    /\ UNCHANGED <<engineVars, kind, graph, run, started, runs, todo, storeVars>>

CallEngine ==
    /\ pc = "epochs"
    /\ StartEpoch(run.names, Snapshot(run.names, Epoch))
    /\ UNCHANGED <<graph, run, started, pc, runs, todo, storeVars>>

Propagate ==
    /\ EngineStep
    /\ UNCHANGED <<graph, run, started, pc, runs, todo, storeVars>>

\* RunEpoch returns and Aggregate follows.
EndEpoch ==
    /\ pc = "epochs" /\ stage = "stable"
    /\ stage' = "idle"
    /\ LET done == Append(runs, EpochRun(cur, Epoch))
       IN  /\ runs' = done
           /\ IF Len(done) < Len(run.epochs) THEN UNCHANGED <<pc, todo>>
              ELSE pc' = "writing" /\ todo' = Writes(done)
    /\ UNCHANGED <<edges, chunks, cur, partials, kind, graph, run, started, storeVars>>

\* Mutant: only an orphaned package is marked.
SetHistoryTrueOnly(row) ==
    [kri |-> row.kri,
     orphaned |-> row.orphaned \/
        (<<row.node, row.epoch>> \in DOMAIN kriAt /\ kriAt[<<row.node, row.epoch>>].orphaned)]

SetHistory(row) == [kri |-> row.kri, orphaned |-> row.orphaned]

Put(f, k, v) == [x \in DOMAIN f \cup {k} |-> IF x = k THEN v ELSE f[x]]

\* One row of the call in hand is written.
WriteRow ==
    /\ todo # << >> /\ Head(todo) # {}
    /\ \E row \in Head(todo) :
        /\ todo' = [todo EXCEPT ![1] = @ \ {row}]
        /\ IF row.to = "resolves"
           THEN pkgResolves' = pkgResolves \cup {<<row.edge, row.epoch>>}
           ELSE UNCHANGED pkgResolves
        /\ IF row.to = "kri"
           THEN kri' = Put(kri, row.node, [kri |-> row.kri, at |-> row.epoch])
           ELSE UNCHANGED kri
        /\ IF row.to = "history"
           THEN kriAt' = Put(kriAt, <<row.node, row.epoch>>, SetHistory(row))
           ELSE UNCHANGED kriAt
    /\ UNCHANGED <<engineVars, kind, graph, run, started, pc, runs>>

\* A call returns.
EndCall ==
    /\ todo # << >> /\ Head(todo) = {}
    /\ todo' = Tail(todo)
    /\ pc' = IF pc = "writing" /\ Tail(todo) = << >> THEN "ended" ELSE pc
    /\ UNCHANGED <<engineVars, kind, graph, run, started, runs, storeVars>>

\* A read or a statement fails, or the process ends.
Fail ==
    /\ pc \in {"snapshots", "epochs", "writing"}
    /\ pc' = "failed" /\ runs' = << >> /\ todo' = << >>
    /\ edges' = {} /\ chunks' = NoPartials /\ cur' = << >>
    /\ partials' = NoPartials /\ stage' = "idle"
    /\ UNCHANGED <<kind, graph, run, started, storeVars>>

Next ==
    \/ Reingest
    \/ \E r \in RunsOf : Start(r)
    \/ Compute \/ CallEngine \/ Propagate \/ EndEpoch
    \/ WriteRow \/ EndCall \/ Fail

Spec == Init /\ [][Next]_vars

\* The workers are scheduled and a command goes on.
Progress == Compute \/ CallEngine \/ Propagate \/ EndEpoch \/ WriteRow \/ EndCall

FairSpec == Spec /\ WF_vars(Progress)

-----------------------------------------------------------------------------
(* What the server reads.                                                  *)

\* handleObservatoryOrphaned: at the most recent epoch with an edge.
NewestEpoch ==
    LET epochs == {k[2] : k \in {x \in DOMAIN kriAt : x[1] \in Packages}}
    IN  CHOOSE t \in epochs : \A s \in epochs : s <= t

OrphanedView ==
    {p \in Packages : <<p, NewestEpoch>> \in DOMAIN kriAt /\ kriAt[<<p, NewestEpoch>>].orphaned}

\* handleObservatory: who has a kri, with the epoch it is of.
Board == {n \in DOMAIN kri : kri[n].kri > 0}

\* handleObservatoryHistory.
Curve(n) == [t \in {k[2] : k \in {x \in DOMAIN kriAt : x[1] = n}} |-> kriAt[<<n, t>>].kri]

-----------------------------------------------------------------------------
(* Properties.                                                             *)

TypeOK ==
    /\ kind \in Kinds /\ graph \in Ingests /\ run \in RunsOf /\ started \in 0 .. MaxRuns
    /\ pc \in {"ended", "failed", "snapshots", "epochs", "writing"}
    /\ stage \in {"idle", "round", "stable"}
    /\ DOMAIN kri \subseteq Packages \cup Handles

\* The run was not cut short, and the graph is as the run found it.
Ended == pc = "ended" /\ runs # << >>

\* kri_history.go:29-36, observatory_history.go:55-58: whatever runs were cut
\* short before it and whoever gained or lost a package since, a run that ends
\* leaves figures that agree with each other.  What a board says of a node is
\* the end of its curve, and the view of orphans names, of the packages
\* the run covered, exactly those that nobody held at its last epoch.
RunRepairs ==
    Ended =>
        LET last == Last(runs)
        IN  /\ \A n \in DOMAIN last.packages \cup DOMAIN last.maintainers :
                  /\ kri[n].at = last.epoch
                  /\ Curve(n)[last.epoch] = kri[n].kri
                  /\ n \in Board <=> Curve(n)[last.epoch] > 0
            /\ NewestEpoch = last.epoch
            /\ OrphanedView \cap DOMAIN last.packages =
                  {p \in DOMAIN last.packages : HoldersAt(p, last.epoch) = {}}
            /\ \A k \in 1 .. Len(runs) :
                  \A p \in DOMAIN runs[k].packages, h \in DOMAIN runs[k].maintainers :
                      h \in HoldersAt(p, runs[k].epoch) /\ kind = "exact" =>
                          Curve(h)[runs[k].epoch] >= Curve(p)[runs[k].epoch]

\* sketch.go:50-51: the rounds of an epoch come to an end, also over packages
\* that depend on each other in a circle.
EpochEnds == (pc = "epochs") ~> (pc # "epochs")
=============================================================================
