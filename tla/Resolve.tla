------------------------------ MODULE Resolve ------------------------------
(***************************************************************************)
(* The resolve pass: Run, writeLoop and resolveTarget of                   *)
(* internal/resolve/resolve.go, with the checkpoint of module Checkpoint,  *)
(* over a graph that an ingest may change at any time, also while the pass *)
(* runs and between its two reads of one target.                           *)
(*                                                                         *)
(* A reader reads the timeline of a target, then the declarations on it,   *)
(* and turns them into one row per window (module Resolution; Windows is   *)
(* checked to compute it).  One writer holds the rows, merges them into    *)
(* the graph chunk by chunk and then records the targets.  Declarations    *)
(* whose range does not parse admit no version.                            *)
(***************************************************************************)
EXTENDS Checkpoint, Resolution, FiniteSets, FiniteSetsExt

CONSTANTS
    Targets,        \* the names to resolve, in order
    Releases,       \* Releases[n]: every release of n the graph may come to hold
    Ingested,       \* Ingested[n]: those of them the graph holds at the outset
    Declarations,   \* every declaration the graph may come to hold
    Readers,        \* Options.Readers
    FlushAt,        \* flushAt
    Batch,          \* Options.Batch
    MaxRuns         \* bound: how often the program is started

\* A version of some package declares that it depends on `on`; the versions
\* of `on` its range admits; when it was published, 0 if that is unknown.
Declaration == [by : STRING, on : Names, admits : SUBSET Versions, published : Nat]

ASSUME ResolveAssumption ==
    /\ Targets \in Seq(Names)
    /\ \A j, k \in 1 .. Len(Targets) : Targets[j] = Targets[k] => j = k
    /\ Releases \in [Names -> SUBSET Release]
    /\ Ingested \in [Names -> SUBSET Release]
    /\ \A n \in Names : Ingested[n] \subseteq Releases[n]
    /\ \A n, m \in Names : \A r \in Releases[n], s \in Releases[m] :
          r.version = s.version => r = s /\ n = m
    /\ Declarations \subseteq Declaration
    /\ \A d, e \in Declarations : d.by = e.by /\ d.on = e.on => d = e
    /\ Readers \in Nat \ {0}
    /\ FlushAt \in Nat
    /\ Batch \in Nat \ {0}
    /\ MaxRuns \in Nat \ {0}

VARIABLES
    known,      \* the releases in the graph, per package
    declared,   \* the declarations in the graph
    edges,      \* the RESOLVES_TO edges in the graph
    run,        \* how many times the program was started
    phase,      \* "running", "ok" or "down"
    cancelled,  \* the context is done
    fed,        \* the feeder's position in Targets
    feeding,    \* the targets channel is open
    stage,      \* where each target is
    timeline,   \* the releases last read for each target
    read,       \* the declarations last read for each target
    writer,     \* "receive", "write" or "record"
    final,      \* the results channel is closed
    pending,    \* the rows the writer still has to write
    names,      \* the targets those rows came from, in order of arrival
    step,       \* the next of names to record
    done,       \* the checkpoint in memory
    file,       \* the checkpoint on disk
    synced,     \* how many of its lines are known to be on disk
    late        \* history: the declarations that were resolved out of step

graph   == <<known, declared>>
feeder  == <<fed, feeding>>
readers == <<stage, timeline, read, late>>
writing == <<writer, final, pending, names, step>>
stable  == <<file, synced>>
vars == <<graph, edges, run, phase, cancelled, feeder, readers, writing, done, stable>>

-----------------------------------------------------------------------------

\* An edge is known by its dependent and the version it leads to: its id has
\* no discriminator.
Edge == [by : STRING, version : Versions, from : Int, to : Int]

\* Mutant: the id also tells when the window ends.
SameEdgeAndEnd(e, f) == e.by = f.by /\ e.version = f.version /\ e.to = f.to

SameEdge(e, f) == e.by = f.by /\ e.version = f.version

\* Mutant: an edge that exists keeps its span.
MergeKeepsOld(E, R) == E \cup {r \in R : \A e \in E : ~ SameEdge(e, r)}

\* MERGE on the id, then SET of the span.
Merged(E, R) == {e \in E : \A r \in R : ~ SameEdge(e, r)} \cup R

RowOf(d, w) == [by |-> d.by, version |-> w.version, from |-> w.from, to |-> w.to]

\* The rows resolveTarget makes of a timeline and the declarations on it.
RowsOf(R, D) ==
    UNION {{RowOf(d, w) : w \in WindowsOf(R, d.admits, d.published)} : d \in D}

\* The timeline holds every release up to its last and up to the dependent's
\* own publication.
InStep(d, R) ==
    \A r \in Releases[d.on] \ R :
        r.published > d.published /\ \A s \in R : s.published < r.published

Running == phase = "running"

In(S) == {n \in Names : stage[n] \in S}

\* The readers that cannot take a target; one that dropped its rows left.
Busy == Cardinality(In({"timeline", "dependents", "offered", "dropped"}))

\* No reader will offer anything any more.
AllReturned ==
    \/ ~ feeding /\ In({"timeline", "dependents", "offered"}) = {}
    \/ Cardinality(In({"dropped"})) = Readers

\* Nothing of the process is left.
Volatile ==
    /\ cancelled' = FALSE
    /\ fed' = 1
    /\ feeding' = TRUE
    /\ stage' = [n \in Names |-> "waiting"]
    /\ writer' = "receive"
    /\ final' = FALSE
    /\ pending' = {}
    /\ names' = << >>
    /\ step' = 1
    /\ UNCHANGED <<timeline, read, late>>

\* The process ends before Run has returned without an error.
Dies ==
    /\ phase' = "down"
    /\ Volatile
    /\ done' = {}
    /\ UNCHANGED <<graph, run>>

Init ==
    /\ known = Ingested
    /\ declared = {}
    /\ edges = {}
    /\ run = 1
    /\ phase = "running"
    /\ cancelled = FALSE
    /\ fed = 1
    /\ feeding = TRUE
    /\ stage = [n \in Names |-> "waiting"]
    /\ timeline = [n \in Names |-> {}]
    /\ read = [n \in Names |-> {}]
    /\ writer = "receive"
    /\ final = FALSE
    /\ pending = {}
    /\ names = << >>
    /\ step = 1
    /\ done = {}
    /\ file = << >>
    /\ synced = 0
    /\ late = {}

-----------------------------------------------------------------------------
(* The feeder.                                                             *)

Skip ==
    /\ Running /\ feeding /\ fed <= Len(Targets) /\ Targets[fed] \in done
    /\ fed' = fed + 1
    /\ stage' = [stage EXCEPT ![Targets[fed]] = "skipped"]
    /\ UNCHANGED <<graph, edges, run, phase, cancelled, feeding, timeline, read, late,
                   writing, done, stable>>

\* An idle reader takes the next target.
Feed ==
    /\ Running /\ feeding /\ fed <= Len(Targets) /\ Targets[fed] \notin done
    /\ Busy < Readers
    /\ fed' = fed + 1
    /\ stage' = [stage EXCEPT ![Targets[fed]] = "timeline"]
    /\ UNCHANGED <<graph, edges, run, phase, cancelled, feeding, timeline, read, late,
                   writing, done, stable>>

\* No target is left, or the feeder saw the cancellation while it offered one.
FeederEnds ==
    /\ Running /\ feeding
    /\ \/ fed > Len(Targets)
       \/ cancelled /\ fed <= Len(Targets) /\ Targets[fed] \notin done
    /\ feeding' = FALSE
    /\ UNCHANGED <<graph, edges, run, phase, cancelled, fed, readers, writing, done, stable>>

-----------------------------------------------------------------------------
(* The readers.                                                            *)

ReadTimeline(n) ==
    /\ Running /\ stage[n] = "timeline"
    /\ timeline' = [timeline EXCEPT ![n] = known[n]]
    /\ stage' = [stage EXCEPT ![n] = "dependents"]
    /\ UNCHANGED <<graph, edges, run, phase, cancelled, feeder, read, late, writing,
                   done, stable>>

ReadDependents(n) ==
    LET found == {d \in declared : d.on = n}
    IN  /\ Running /\ stage[n] = "dependents"
        /\ read' = [read EXCEPT ![n] = found]
        /\ late' = late \cup {d \in found : ~ InStep(d, timeline[n])}
        /\ stage' = [stage EXCEPT ![n] = "offered"]
        /\ UNCHANGED <<graph, edges, run, phase, cancelled, feeder, timeline, writing,
                       done, stable>>

\* Either read fails: the target is logged and left for another run.
ReadFails(n) ==
    /\ Running /\ stage[n] \in {"timeline", "dependents"}
    /\ stage' = [stage EXCEPT ![n] = "failed"]
    /\ UNCHANGED <<graph, edges, run, phase, cancelled, feeder, timeline, read, late,
                   writing, done, stable>>

\* The reader sees the cancellation while it offers its rows, and leaves.
DropRows(n) ==
    /\ Running /\ cancelled /\ stage[n] = "offered"
    /\ stage' = [stage EXCEPT ![n] = "dropped"]
    /\ UNCHANGED <<graph, edges, run, phase, cancelled, feeder, timeline, read, late,
                   writing, done, stable>>

-----------------------------------------------------------------------------
(* The writer.                                                             *)

Receive(n) ==
    /\ Running /\ writer = "receive" /\ ~ final /\ stage[n] = "offered"
    /\ stage' = [stage EXCEPT ![n] = "received"]
    /\ pending' = pending \cup RowsOf(timeline[n], read[n])
    /\ names' = Append(names, n)
    /\ writer' = IF Cardinality(pending') >= FlushAt THEN "write" ELSE "receive"
    /\ UNCHANGED <<graph, edges, run, phase, cancelled, feeder, timeline, read, late,
                   final, step, done, stable>>

\* Mutant: what is left when the channel closes is not flushed.
ChannelClosesNoFlush ==
    /\ Running /\ writer = "receive" /\ ~ final /\ AllReturned
    /\ final' = TRUE
    /\ phase' = "ok"
    /\ UNCHANGED <<graph, edges, run, cancelled, feeder, readers, writer, pending, names,
                   step, done, stable>>

\* Every reader is gone: what is left is flushed.  Targets without rows need
\* no statement, only their record.
ChannelCloses ==
    /\ Running /\ writer = "receive" /\ ~ final /\ AllReturned
    /\ final' = TRUE
    /\ IF names = << >>
       THEN phase' = "ok" /\ UNCHANGED writer
       ELSE /\ writer' = IF pending = {} THEN "record" ELSE "write"
            /\ UNCHANGED phase
    /\ UNCHANGED <<graph, edges, run, cancelled, feeder, readers, pending, names, step,
                   done, stable>>

\* The chunks WriteBatch may send next: the rows come in no particular order.
Chunks == kSubset(Earlier(Batch, Cardinality(pending)), pending)

WriteChunk ==
    /\ Running /\ writer = "write"
    /\ \E chunk \in Chunks :
          /\ edges' = Merged(edges, chunk)
          /\ pending' = pending \ chunk
    /\ writer' = IF pending' = {} THEN "record" ELSE "write"
    /\ UNCHANGED <<graph, run, phase, cancelled, feeder, readers, final, names, step,
                   done, stable>>

\* The chunk fails after some of its rows, retries included; Run returns the
\* error and the program ends.
WriteFails ==
    /\ Running /\ writer = "write"
    /\ \E chunk \in Chunks : \E some \in SUBSET chunk : edges' = Merged(edges, some)
    /\ Dies
    /\ UNCHANGED stable

\* Record writes one target's line.
RecordName ==
    /\ Running /\ writer = "record" /\ step <= Len(names)
    /\ file' = WriteLine(file, names[step])
    /\ done' = done \cup {names[step]}
    /\ step' = step + 1
    /\ UNCHANGED <<graph, edges, run, phase, cancelled, feeder, readers, writer, final,
                   pending, names, synced>>

\* The line is written in part, or not at all.
RecordFails ==
    /\ Running /\ writer = "record" /\ step <= Len(names)
    /\ file' \in {file} \cup TornWrites(file, names[step])
    /\ Dies
    /\ UNCHANGED <<edges, synced>>

\* The file is synced, the writer's memory reset.
SyncFile ==
    /\ Running /\ writer = "record" /\ step > Len(names)
    /\ synced' = Len(file)
    /\ names' = << >>
    /\ step' = 1
    /\ writer' = "receive"
    /\ phase' = IF final THEN "ok" ELSE phase
    /\ UNCHANGED <<graph, edges, run, cancelled, feeder, readers, final, pending, done,
                   file>>

SyncFails ==
    /\ Running /\ writer = "record" /\ step > Len(names)
    /\ Dies
    /\ UNCHANGED <<edges, stable>>

-----------------------------------------------------------------------------
(* The world around.                                                       *)

\* An ingest brings a release, or a declaration, into the graph.
Learn(n) ==
    /\ \E r \in Releases[n] \ known[n] : known' = [known EXCEPT ![n] = @ \cup {r}]
    /\ UNCHANGED <<declared, edges, run, phase, cancelled, feeder, readers, writing, done,
                   stable>>

Declare ==
    /\ \E d \in Declarations \ declared : declared' = declared \cup {d}
    /\ UNCHANGED <<known, edges, run, phase, cancelled, feeder, readers, writing, done,
                   stable>>

\* SIGINT or SIGTERM.
Cancel ==
    /\ Running /\ ~ cancelled
    /\ cancelled' = TRUE
    /\ UNCHANGED <<graph, edges, run, phase, feeder, readers, writing, done, stable>>

\* The process is killed; what it wrote to the file stays.
Kill ==
    /\ Running
    /\ Dies
    /\ UNCHANGED <<edges, stable>>

\* The machine loses power, whether the program runs or not.
PowerLoss ==
    /\ file' \in AfterPowerLoss(file, synced)
    /\ Dies
    /\ UNCHANGED <<edges, synced>>

\* The operator deletes the checkpoint, to resolve everything anew.
Forget ==
    /\ ~ Running /\ file # << >>
    /\ file' = << >>
    /\ synced' = 0
    /\ UNCHANGED <<graph, edges, run, phase, cancelled, feeder, readers, writing, done>>

\* The program is started again with the same targets and state directory.
Start ==
    /\ ~ Running /\ run < MaxRuns
    /\ run' = run + 1
    /\ phase' = "running"
    /\ Volatile
    /\ done' = Claims(file)
    /\ UNCHANGED <<graph, edges, stable>>

Reader(n) ==
    ReadTimeline(n) \/ ReadDependents(n) \/ ReadFails(n) \/ DropRows(n)
Writer ==
    \/ \E n \in Names : Receive(n)
    \/ ChannelCloses
    \/ WriteChunk \/ WriteFails
    \/ RecordName \/ RecordFails \/ SyncFile \/ SyncFails

Next ==
    \/ Skip \/ Feed \/ FeederEnds
    \/ \E n \in Names : Reader(n) \/ Learn(n)
    \/ Writer
    \/ Declare \/ Cancel \/ Kill \/ PowerLoss \/ Forget \/ Start

Spec == Init /\ [][Next]_vars

\* As it is run: no ingest changes the graph while a pass reads it.
QuietSpec == Init /\ [][Next /\ (Running => UNCHANGED graph)]_vars

-----------------------------------------------------------------------------
(* Properties.                                                             *)

Stages == {"waiting", "skipped", "timeline", "dependents", "failed", "offered",
           "dropped", "received"}

TypeOK ==
    /\ known \in [Names -> SUBSET Release]
    /\ declared \in SUBSET Declarations
    /\ edges \subseteq Edge
    /\ run \in 1 .. MaxRuns
    /\ phase \in {"running", "ok", "down"}
    /\ cancelled \in BOOLEAN
    /\ fed \in 1 .. Len(Targets) + 1
    /\ feeding \in BOOLEAN
    /\ stage \in [Names -> Stages]
    /\ timeline \in [Names -> SUBSET Release]
    /\ read \in [Names -> SUBSET Declarations]
    /\ writer \in {"receive", "write", "record"}
    /\ final \in BOOLEAN
    /\ pending \subseteq Edge
    /\ names \in Seq(Names)
    /\ step \in 1 .. Len(names) + 1
    /\ done \in SUBSET Names
    /\ file \in Seq(Line)
    /\ synced \in Nat
    /\ late \in SUBSET Declarations

\* The targets that are recorded: on a sound line, or by this run.
Recorded == SoundClaims(file) \cup {n \in done : stage[n] = "received"}

\* The windows d was resolved to when its target was last read, and the ones
\* the graph holds.
Wanted(d) == {RowOf(d, w) : w \in WindowsOf(timeline[d.on], d.admits, d.published)}
Present(d) == {e \in edges : e.by = d.by /\ \E r \in Releases[d.on] : r.version = e.version}

Missing(S) == {n \in S : \E d \in read[n] : ~ (Wanted(d) \subseteq Present(d))}

\* checkpoint.go:16-18 for the resolve pass, as far as it is true: once a
\* target is recorded, every window of every declaration it was read with is
\* in the graph, whatever failed or restarted on the way, and a pass that ran
\* before left none of them with another span.  Lines that were torn can
\* claim anything, but each end of a run leaves one of them at most.
RecordedIsWritten ==
    /\ Missing(Recorded) = {}
    /\ Cardinality(Missing(Claims(file))) <= run
    /\ Cardinality(Missing(done)) < run

\* resolve.go:24-26: re-running updates windows in place.  It does so for a
\* declaration that was only ever resolved against a timeline as recent as
\* itself: then a window, once it is opened, is never withdrawn, and the
\* graph holds no other window of the declaration than those of the last pass.
NoStaleWindow ==
    \A n \in Recorded : \A d \in read[n] \ late : Present(d) = Wanted(d)

\* resolve.go:24-26 as it stands, for every declaration.
UpdatesInPlace == \A n \in Recorded : \A d \in read[n] : Present(d) = Wanted(d)

\* A run that ends well without an interruption has settled every target: it
\* is recorded, or its reads failed and it is left for another run.
SettlesEveryTarget ==
    phase = "ok" /\ ~ cancelled =>
        \A k \in 1 .. Len(Targets) :
            stage[Targets[k]] = "failed" \/ Targets[k] \in done
=============================================================================
