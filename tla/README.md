# Keyholders in TLA+

Keyholders answers who could publish into a project's dependency tree, at an
instant of the past or over a span of time. It builds a graph of npm packages,
versions, dependencies and maintainers in which every relationship carries the
span over which it held, and searches it for paths whose edges all held at one
instant. This directory holds specifications of that program in TLA+, the TLC
configurations that check them on small instances, and proofs that TLAPS checks
for all instances. Paths below are relative to `src/internal/`.

## 1. Inventory

| Component | State it keeps | Operations | Interacts with |
|---|---|---|---|
| Interval algebra (`query/interval.go`) | a sorted slice of spans per node | `Intersect`, `Covers`, `Insert`, `Width`, `Earliest` | called by the search at every edge |
| Coexistence search (`query/reach.go`) | union set, cached edges, frontier, spans per node | `Reach`: `unionPass`, then `replay`; `OnFrontier` callback | reads the graph through `Expander`, streams to the server |
| Removal analysis (`query/cut.go`) | none of its own | `Cuts`: one `replay` per account | replays the cached edges of a finished search |
| Graph expander (`query/expander.go`) | attributes per node, a read counter | `Out`, `expand` | `algo.MSpaths` of the database |
| Ingest (`ingest/`) | two channels, the writer's batch, counters | `Run`: feeder, workers, writer; `write`: nine statements | registry, graph client, checkpoint |
| Maintainer spells (`ingest/rows.go`, `epochs.go`) | none | `spells`, `Epochs`, `versionAt`, `linkMaintains` | rows of the ingest |
| Checkpoint (`checkpoint/`) | a set in memory, an append-only file | `Open`, `Has`, `Record` | ingest and resolve resume from it |
| Registry client (`registry/`) | a cache directory, a limiter | `Get`, `fetch`, `cache.put/touch/putNotFound`, `limiter.wait` | HTTP services; used by concurrent workers and by several processes |
| Graph client (`graph/client.go`) | a driver | `Query`, `WriteBatch` (chunks, retries) | everything that touches the graph |
| Resolve pass (`resolve/`) | channels, a batch, counters | `Run`, `resolveTarget`, `Windows` | reads what ingest wrote, writes `RESOLVES_TO` |
| Audit (`query/audit.go`, `signals.go`, `risk.go`, `proof.go`, `who.go`) | weights, the instant "now", the expander | `Audit`, `keyholders`, `signalsFor`, `scoreOf`, `HolderChains`, `WhoIs` | search, cuts, graph |
| Server (`api/`) | one auditor shared by all requests | audit, stream, timeline, path, who, incident, observatory handlers | audit, incident, what the observatory wrote |
| Records and incidents (`query/record.go`, `incident/`) | `Project` nodes and `LOCKS` edges in the graph | `Record`, `TransitivelyExposed`, `ResolvedWhileLive`, `Bisect`, `SharedMaintainers` | the windows of resolve, the advisories |
| Advisories (`advisory/`) | `AFFECTS` edges in the graph | `affectedVersions`, `isAffected`, `matchAffected` | incidents |
| Sketches (`sketch/`) | one sketch per node and round | `RunEpoch`, `mergeChunk`, `splitEdges`, `Count` | observatory |
| Observatory (`observatory/`) | node properties and history edges in the graph | `Snapshots`, `Maintainers`, `WriteSnapshots`, `Aggregate`, `WriteBack`, `WriteKRIHistory` | sketches, graph, server |
| Semver, lockfiles, typosquats, configuration, command line, web | none that answers depend on | parsing, comparison, display | |

What is hard here, and where tests reach least:

* **One answer out of many paths.** The search merges spans of different paths
  into one set per node and prunes on that set. Whether that loses or invents
  reach depends on the order of edges, on cycles and on the depth bound.
* **Silent truncation.** The database answers a call that exceeds its row limit
  with some of the rows, an edge statement whose endpoints are missing writes
  nothing, and a depth bound cuts a search short, all without an error.
* **Crashes between a write and its record.** Ingest and resolve write batches
  and then record names in a file that is itself written line by line; the
  registry cache keeps one document in two files; the observatory writes one
  epoch in many statements.
* **Goroutines on unbuffered channels**, each of which may leave on a
  cancellation at its own moment.
* **Re-runs over a graph that already holds something**: nothing is ever
  deleted, so identity of edges decides what a re-run repairs and what it leaves.
* **Shared objects**: one cache directory under many processes, one limiter
  under many workers, one auditor under many requests.
* **Half-open spans compared by different questions**: an audit, its inverse, a
  proof and two incident questions must agree to the second.

`PROJECT.json` lists the hazards one by one, at the line where each bites, with
the properties that would show it.

What makes each component correct: the algebra is a set of instants; the search
gives for each instant exactly what can be walked to at that instant, and says
when it did not look far enough; cuts are dominance; the expander returns every
edge once; the ingest records only what it has written, accounts for every
name and always ends; an account is credited with what documents said of it;
windows of a declaration are the step function of its resolution; a cached body
is never older than the ETag over it, a caller that revalidates gets what was
served, an outage hides no copy that can be read; the roster is exact at every instant and its
inverse and proofs agree with it; exposure is that of the lockfile at its
instant; a sketch is the merge of what depends on its node at the epoch, and a
run of the observatory that ends leaves figures that agree.

## 2. Modules

| Module | Models | State and actions in terms of the code |
|---|---|---|
| `Intervals` | `query/interval.go` as operators | A `Set` is a TLA+ set of spans. As its members never touch (`Maximal`) it has one sorted order, so nothing is lost. |
| `InstantSet` | what `Set` promises | Adding a span adds its instants and reports whether one was new. |
| `IntervalSlice` | `query/interval.go` as the code computes it | `slice` is the sorted slice; `WalkStep` is one iteration of `Covers`, `Swallow` one of `Insert`, `AddLength` one of `Width`, `Pass` the loop around each. Implements `InstantSet`. |
| `Reachability` | the question the search answers | For each instant, the nodes within the depth bound over edges live then; nodes may be removed. |
| `Reach` | `query/reach.go`, the replays of `query/cut.go` | `wave`, `union`, `cache` are `unionPass`' frontier, `Result.Union`, `Result.Edges`; `frontier`, `reached`, `level` are `replay`'s. One action per expander call, per source, per (entry, edge) pair, per level. Implements `Reachability`. |
| `Expander` | `query/expander.go` | `pending` is the recursion's stack of lists; one action per query. |
| `Checkpoint` | `checkpoint/checkpoint.go` | The file is a sequence of lines, the last one perhaps torn; a text is a sequence of pieces, so that what is appended to a torn line joins its text, as with `O_APPEND`, and may spell any name. `sound` marks the lines that one `Record` wrote whole, which the program cannot see. |
| `ResumablePass` | what a checkpointed pass promises | Claims are made only for written work; durable claims stay. |
| `Ingest` | `ingest/ingest.go`, the rows of `rows.go`, `WriteBatch` | One action per channel hand-over, statement, recorded line and sync; workers are interchangeable and stand for the names they hold. Extends `Checkpoint`, implements `ResumablePass`. |
| `Resolution` | the data of `resolve/windows.go` and the definition it stands for | `IsAnswer` is the point resolution of `equivalence_test.go`; `WindowsOf` the spans from one change of the answer to the next. |
| `Windows` | `Windows` and `clamp` of `resolve/windows.go` | One action per turn of the loop (`Pass` is its `continue`, `Take` the rest), `Finish` is `clamp`; `best` is the code's `best`. The sort is the order in which releases are taken. |
| `Resolve` | `resolve/resolve.go`, `WriteBatch` | `stage` says where each target is: with the feeder, in one of a reader's two reads, offered, received. `pending`, `names` are the writer's buffers. `edges` are merged by (dependent, version), as their ids are. `Learn` and `Declare` are an ingest's rows entering the graph at any moment. Extends `Checkpoint` and `Resolution`. |
| `Registry` | `registry/client.go`, `registry/cache.go` | `meta[u]` and `body[u]` are the two files of a document; `next[p]` is the limiter of a process; `call[g]` is the local state of one `Get` and its `fetch`. One action per file read, slot, answer, rename; `CannotRead` is a cached file that exists and cannot be read, whose error ends the call. `Kill` ends a process between any two. A body is the number of its revision, so is an ETag. |
| `Incident` | `query/record.go`, `incident/`, `advisory/ranges.go` and the writes of `advisory/advisory.go` | Extends `Windows`: once the windows of a declaration are computed, an advisory pass and recordings of a project follow. `RecordProject`, `RecordLocks` are `Record`'s statements, `RecordStops` a failure between them. `Live`, `Exposed`, `Firsts`, `IsAffected` are the four reads. `Exposed` walks from every pin, to `MaxDepth` edges, over `Graph`: the windows of the declaration, and the edges `Links` between other pins. |
| `Maintainers` | `ingest/epochs.go`, `spells` and `linkMaintains` of `ingest/rows.go` | `Ingest(P, epochs)` is the maintainers' part of one ingest: sampled versions, spells, and edges merged by (account, package, start). |
| `Audit` | `query/audit.go`, `signals.go`, `risk.go`, `proof.go`, `who.go`, `cut.go`'s counts, the handlers of `api/` | Extends `Maintainers`. `pc[c]` is where the handler of request `c` is, `rows[c]` the `MAINTAINS` rows it has not taken yet, `through[c]` the `Through` sets of `keyholders`. What is computed of a finished roster in one go (signals, score, cuts, proofs) are operators. `PathsFound` is every answer `algo.MSpaths` may give: of a pair with more than `PathLimit` paths, any that many. |
| `Sketch` | `sketch/` | `cur`, `partials` and `chunks` are the variables of `RunEpoch`; one action per worker's `mergeChunk` and one for the folding. A HyperLogLog and an exact set are both functions of slots. |
| `Observatory` | `observatory/`, `cmd/keyholders/observatory.go`, the reads of `api/observatory*.go` | Extends `Sketch`. `todo` is the list of statements a run has yet to send, row by row; `kri`, `kriAt`, `pkgResolves` are what it leaves in the graph. |
| `MC*` | instances for TLC | values for the constants only |
| `DataProofs`, `ReachProofs`, `IngestProofs`, `ResolveProofs`, `IncidentProofs`, `RegistryProofs`, `AuditProofs`, `ObservatoryProofs` | theorems | see section 4 |

How they compose. `Reach` extends `Intervals`; `IntervalSlice` shows that the
operators `Reach` uses are what the code's loops compute (`AgreesWithIntervals`).
`Expander` and `IntervalSlice` name their specifications `HopSpec` and
`SliceSpec`, so that one module of proofs can speak of all three. `Reach` takes the
expander as something that returns all edges of a wave or fails; `Expander` says
when that holds. `Ingest` composes the pass with `Checkpoint` and with the graph
as a set of rows. `Resolve` composes the other pass with `Checkpoint`, with the
part of the graph that an ingest writes and it reads, and with `Resolution`,
which `Windows` shows to be what the code computes. `Incident` reads those same
windows. `Audit` takes of a search what `Reachability` says of it, which `Reach`
implements, over the edges that `Maintainers` leaves. `Observatory` calls the
engine of `Sketch` between its reads and its writes.

Abstractions worth knowing. URNs, names and accounts are model values. A row of
the graph is its identity (label or type, and endpoints), because every write is
a MERGE by an id computed from exactly that; id collisions are left out. One
version stands for a package's versions in `Ingest`; what a package contributes
is a table in the order of `write`'s statements, dependency targets included.
The order in which the replay takes the edges of a level is arbitrary here, and
the database's row order in the code. Counters of the report, log lines and
`Kappa` are left out, except that the sets `skipped`, `missing` and `ingested`
stand for the three counters that account for names. In `Registry` two workers
of one process never ask for one document at once, because an ingest lists each
name once; two processes may, and `raced` remembers for which documents they
wrote at once. In `Audit` the signal of reach is a ratio of numbers held where the
code takes a ratio of logarithms, and scores are exact fractions. In `Sketch`
what a name hashes to, and the rounded logarithm of linear counting, are tables.

## 3. Runs

| Run | Instance | Shows |
|---|---|---|
| `IntervalSlice` | all spans with ends in 0..7, any number of insertions | The slice stays sorted with gaps and without empty members, the walk is the pointwise question, width counts no instant twice, the slice implements a set of instants, and the operators of `Intervals` agree with it. |
| `Reach` | every graph of 8 edges and fewer (all subsets; diamond, cycle, shortcut; spans that abut, overlap and miss each other), sources with spans, a restricted window, depth bound 3, removals | `NoPhantom`, `NothingMissed`, `CoexistenceWithinUnion`, `CacheServesReplay`, `StreamIsTheAnswer`, `SearchesEnd`, and the refinement of `Reachability`. |
| `Ingest` | three packages that depend on each other, the names of two of them such that torn and joined lines spell one another (`array`, `is-array`, `is-array-buffer`), two workers, two runs, every failure, kill, interruption and power loss | `ClaimedIsWritten`, `RunAccountsForAll`, `HandOver`, `RunEnds`, and the refinement of `ResumablePass`. |
| `Expander` | four versions, chunks of three, a limit of two, one URN that does not match; every order of the frontier and every choice of truncated rows | Nothing of a source that fits one call is lost, nothing is listed twice, the number of queries is bounded. |
| `Resolve` | two targets, the name of one ending the other's, one with an upgrade and a backport the graph may learn of late; three declarations; two readers, chunks of two rows, three starts, every failure, kill, interruption, power loss and deletion of the checkpoint | `RecordedIsWritten`, `NoStaleWindow`, `SettlesEveryTarget`. |
| `Registry` | two getters, in two processes after one document or in one process after two; three calls with `maxAge` 0 or 1, two attempts, two revisions and their withdrawal, a clock of two ticks, kills, files that cannot be read | `SlotsApart`, `HonestClaim`, `RevalidatedIsCurrent`, `OutageIsHidden`. |
| `Incident` | every timeline of up to three of four versions, two of one precedence, published at 1, 2, 3 or at an unknown time; three ranges; declarations at 0 and 2; three lockfiles (with the dependent; with a chain of others that leads to it; with a version itself and a name the walk skips), two lock times, depth bound 3, three advisories, two recordings | `IsResolution`: at each instant exactly the window of what an install takes; `MatchesDefinition`: the windows are those of `Resolution`; and of the questions `LiveIsInstall`, `AffectsIsTheRanges`, `IntroducedBeforeExposed`, `ExposedAgrees`. |
| `Audit` | eight histories of three packages (an account leaves, returns, joins, hands over; a prerelease, a missing document, an unknown publish time), three shapes of dependencies, a path limit of two, up to two ingests at three sets of epochs, one of them without a package; two of four requests at once, one of them a timeline | `RosterIsPointwise`, `WhoIsTheAuditReversed`, `EveryKeyIsProved`, `CutIsDominance`, `UnknownIsNotClean`, `HoldingIsObserved`. |
| `Observatory` | four packages, two of them in a circle, one whose dependency changes with two releases of one second; two states of the graph, two runs of two epochs each, a failure at every step; exact sets and a HyperLogLog of four registers in which two names collide; two workers | `SketchIsOfTheEpoch`, `RunRepairs`, `EpochEnds`. |
| `ReachTruncation` | depth bound 2 | A violation: an undercounted answer that is not reported as truncated. |
| `AuditRace` | that of `Audit` | A violation: two requests write the one map of the shared auditor. |
| `IncidentRerecord` | that of `Incident` | A violation: a project is called exposed through a pin that only its previous lockfile had. |

Five more configurations are kept beside the runs; each shows a violation that
an operator of the program should know of:

| Configuration | Module, property | Shows |
|---|---|---|
| `IngestTorn.cfg` | `MCIngest`, `NeverClaimsMore` | A torn checkpoint line, by itself or joined by the next name, claims a package that was never written, against `checkpoint.go:16-18`. |
| `IncidentDirect.cfg` | `MCIncident`, `DirectLocksAreLive` | A project that locks an affected version itself, and no dependent that resolved to it, is not found by `ResolvedWhileLive`, against `resolved_while_live.go:48-49`. |
| `ResolveStale.cfg` | `MCResolve`, `UpdatesInPlace` | A second pass leaves an open window of a version beside the open window of its successor. |
| `ExpanderLimit.cfg` | `MCExpander`, `SplittingPreventsTruncation` | One source above the row limit is cut short in silence. |
| `ExpanderNames.cfg` | `MCExpander`, `ConstructedUrnsAreExpanded` | A URN that does not match the pattern is dropped in silence. |

**Bounds.** Four nodes and three levels are enough for a node to be reached
twice over different spans, on different levels, around a cycle and at the depth
bound, which are the cases the pruning can get wrong; graphs that satisfy and
graphs that exceed the bound both occur. Seven instants let three members of a
slice stand apart, abut and be swallowed at once. Three packages with two
workers let one be fetched, one be held and one wait; `FlushAt` is chosen so
that a batch is flushed in mid-run and another at the end. `MaxRuns` (with
`MaxCalls`, `MaxRevision`, `MaxTime`, `MaxIngests` and `MaxRecords` the only
bounds in guards) allows one restart, after which the second run starts from
every state a first run can leave, and power may be lost after it as well. In
`Resolve` a third start is needed: one for a pass over an old timeline, one that
fails half way through the new one, one that completes it. Two versions of one
precedence and two of one second are what the loop and `clamp` treat apart from
the rest. In `Registry` an interval of two with a clock of two ticks makes
getters wait, take turns and be overtaken; three calls are one that fills the
cache, one that is killed or fails in it, and one that reads what that left. In
`Audit` two ingests are enough for the start of a spell to move, and with a path limit of two there are pairs with fewer paths, with as many, and with three of which only one is a chain; in
`Observatory` two runs are one that fails anywhere and one that repairs, and two
epochs are enough to inherit. For the properties that are proved no bound
matters.

`CHECK_DEADLOCK FALSE` is set where the program stops when it is done: a search
that answered, an expansion that returned, a pass that used up its runs, a loop
at its end, a command that ended; and where a bound stops the world around it.
`IntervalSlice` is checked for deadlock. Symmetry is used in `Audit`
only, of the two requests, which play the same part and have no liveness property.

**Fairness.** `Reach!FairSpec` asks that the search takes its next step: it is
one goroutine without locks, so nothing can stop it but the expander, and a call
to that either answers or fails. No cut has to be asked for. `Ingest!FairSpec`
asks that the feeder, the writer and each fetch go on when they can: they are
goroutines of the Go scheduler, HTTP requests have a timeout and four attempts,
statements three. A worker's leaving on a cancellation is not in it, because
`select` may prefer the writer for ever, and `RunEnds` holds all the same.
`Observatory!FairSpec` asks that the command or one of its workers goes on: they
are goroutines that wait for nothing but each other. No fairness is assumed of
interruptions, failures, crashes or restarts.

## 4. Proofs

Every invariant, action property and refinement that a passing run checks is
also a theorem, for every value of the constants under the named assumptions of
the modules, which TLC evaluates in the runs. A module of proofs extends the
modules it speaks of; `DataProofs` extends `Intervals` and `Checkpoint`, so the
constants of these two appear in all of them.

**`DataProofs`** is what the others share.

* Induction and recursion. The induction theorems of the library take an operator
  as a parameter, which the provers cannot instantiate. Induction is stated here
  of a set of naturals (`NatInductive`: a set that holds 0 and, with each
  member, the next, holds all), and least and greatest members come from it. A
  recursive function and a fold are defined by a CHOOSE; `IterationExists` and
  `FoldExists` show that what is chosen exists, so that the equation may be used.
* Spans: `IntersectPointwise`, `CoversPointwise`, `InsertPointwise`,
  `InsertMaximal`. The set operators mean what they say about instants. The step
  that is not obvious is that a merge needs no repetition: the members that
  touch the new span lie apart from the others by more than it can reach.
* Checkpoint files, for both passes: which claims an append, a torn write and a
  power loss add or take, and that only the last line can be torn and is never
  a synced one then. Whatever the names are, and whatever a torn line and the
  name that joins it spell, what a `Record` wrote as a line of its own is
  true. A run finds one line torn at most, and leaves one torn at most when it
  ends. So, in the r-th run, fewer than r lines are not sound, and no more names
  are claimed wrongly. This is kept as `Honest` (`HonestRecord`,
  `HonestTornWrite`, `HonestPowerLoss`) of the file and `Remembers` of the memory.

**`ReachProofs`**, the search:

* `TypeCorrect`: types, and that the kept spans never touch.
* `LedgerCorrect`: the books of the union pass (what is cached is in the
  graph, what leaves a union node is cached or still in the wave). Everything
  else rests on it.
* `WithinUnion`: `CoexistenceWithinUnion`, from the ledger.
* `BackedCorrect`: every entry in hand has its span inside what its node has
  been reached over; with it
* `NoPhantomReach`: `NoPhantom`. The invariant is that every reached instant
  and every pending entry lies in every set closed at that instant. It must
  speak of pending entries, because a node's merged set is not what is
  carried along an edge.
* `NothingIsMissed`: `NothingMissed`. A replay whose frontier ran empty is
  closed at every instant. The invariant is that each edge out of a reached
  node is, at each instant, either satisfied, or pending in the current level,
  or will be taken up from the frontier. Pruning keeps it because a covered
  span is covered by spans whose own entries satisfy it.
* `StreamTellsTheAnswer`: `StreamIsTheAnswer`; what is reached is what was
  streamed together with the frontier not streamed yet.
* `CacheServes`: `CacheServesReplay`. Both passes count levels, over different
  nodes: the replay may come to a node later than the union pass did, or not
  at all. Give every node the level at which the union pass found it
  (`Layering`). A cached edge leads down one level at most, and a node above
  the wave has all its edges in the cache, so what the replay holds at a level
  lies in that layer or above it, and above the last layer everything is
  cached.
* `LevelsCorrect`, and from it `SearchIsReachability`, the refinement of
  `Reachability`. Up to the level in hand, the replay has found exactly what can
  be walked to in as many steps over edges live at an instant. Its two halves
  are those of `NoPhantom` and `NothingMissed` with levels counted: a node found
  at a level has a live path of that length, and a live path of that length
  cannot be ahead of the frontier, since pruning keeps the first level at which
  an instant was found.

One hop, `Expander`: `NoSilentTruncationHolds` and `ReadsBounded`. The invariant
(`HopInv`) says that the lists still to be read have no source in common with each
other, with the rest of the frontier, or with what was read; so nothing is listed
twice. An answer is kept only when it is whole (`KeptAnswerIsWhole`), or is of a
single source above the limit, which the property excepts. For the number of
reads, a source that waits is good for two, and a list that is waiting for one
less than its sources: a split turns one read into two lists with as many
sources.

The slice, `IntervalSlice`: `SliceIsSorted`, `SliceMeasures`, `SliceAgrees`,
`SliceImplements`. In a sorted slice with gaps (`SliceInv`) at most one member can
contain a span, so the walk of `Covers` cannot be misled by the ones before. The
pass of `Insert` compares with a span that grows as it swallows; that it
swallows just what touches the inserted one is an induction over the slice, as
is `Width`. That there is an order to sort into needs proof as well
(`PlaceExists`): one span is placed among sorted ones. `SliceAgrees` then hands the
theorems about `Intervals`, on which the search rests, to the loops of the code.

**`IngestProofs`**

* `ClaimsAreWritten`, which is `Spec => []ClaimedIsWritten`, for any names. The
  comment of `checkpoint.go` promises more, that nothing is ever claimed which
  was not done; `IngestTorn.cfg` shows that this is false, and the theorem says
  what is true instead. What a sound line claims is written, and so is what this
  run recorded, whatever line it went to. In the r-th run fewer than r names
  are taken for recorded wrongly. The inductive invariant (`IInv`) has `Sound`,
  which is `Honest` and `Remembers` of the names that are written, and `Progress`: in the middle of a batch, every row of the
  statements before the current one is in the graph. It is preserved because the
  statement that writes an edge's endpoints precedes it for every package of the
  batch (`NodesGoFirst`), so that no row is dropped by its MATCH, which is
  `NoEdgeIsDropped`.
* `PassIsResumable`: the refinement of `ResumablePass`, with the names on sound
  lines as the claims, for any names. Every step writes, claims what is written, takes back
  claims, or makes them durable (`AbstractStep`); that a claim taken back was not
  durable needs `Settled`: a sync comes after a whole line, so the lines a torn
  write joins, or a power loss takes, are never synced ones.
* `RunAccounts` and `NamesChangeHands`, for any ranking, any
  number of workers and any `FlushAt`. The invariant `Books` says that the
  names the feeder has passed are, until a cancellation, those of the five places
  a name can be in (`Tracked`), that no name is in two (`Apart`), that the counts agree
  (`Counted`), and that what is received is held until it is recorded
  (`Recorded`). A run that ends well has emptied the places on the way
  (`Closing`).
* `RecordedIsNotFetched` and `SyncedBatchesStay`, what a restart repeats. The
  invariant `Ledger` rests on the ones above: what a sound line claims is in memory,
  no worker has such a name, and all that left the writer's memory is on synced
  sound lines but for one name, whose line joined a line torn before (`Spoiled`). Two
  cannot be spoiled, since the file ends torn only before the first record of a
  run. That one name may be fetched again after a restart, which repeats work and
  loses none.
* `TypeCorrect`: types.

**`ResolveProofs`**

* `RecordsAreWritten`, which is `Spec => []RecordedIsWritten`, for any names; a
  torn line may record a target wrongly, as for the ingest. A row of a held target is in the graph or pending. A later chunk replaces the
  edges with its rows' ids, which could undo a row that was written; but two
  rows with one id are of one declaration and one release, hence the same row
  (`RowsAgree`), as the target of a held row is not read again.
* `EveryTargetSettles` is `Spec => []SettlesEveryTarget`: `Settling` says
  where each target is that the feeder is done with.
* `NothingIsStale` is `Spec => []NoStaleWindow`. Its heart
  is `WindowStays`: what a timeline gains after a declaration was resolved in
  step with it is younger than all it had, so a step of the answer stays a
  step, and its window still ends later than it begins. So every edge of such
  a declaration has the id of one of its present windows (`Opened`), of which
  the graph holds one edge only (`OneEdge`), and that is the window of the
  last pass.
* `EdgesNeedNoDiscriminator`: `OneEdge`, and the same of the rows that wait, so
  that the chunks a batch is cut into, and their order, do not show in the graph.
* `RecordedIsNotRead`: no reader has a target that a `Record` claimed.
* `TypeCorrect`: types; a window begins and ends at an instant something was
  published at, or never ends.

**`IncidentProofs`**

* `Resolves` is `Spec => []IsResolution`. Half way through the
  loop, the windows tile the instants since the first release seen, each with
  the answer among the releases seen (`Tiles`), and only the window of the best
  release is open (`BestLeads`). A release that does not raise the maximum
  answers no instant, since the best was published before it; one that does
  answers every instant from its publish time on, where only the open window
  reaches. `ClampPointwise` carries this over `clamp`.
* `WindowsMatch`: `MatchesDefinition`. The walk keeps, for the releases seen, the
  windows of `WindowsOf` with nothing clamped, and others that cover no time
  (of releases of one second), which `clamp` then drops.
* `LiveIsAnInstall` and `IntroducedFirst` carry this to the
  questions: a lock at an instant of a window is a lock that would have
  installed its version.
* `TwoWaysAgree`, for every graph around the dependent and every depth. Who is
  found by the windows, or locked the version, is reached in one step or none
  (`NearIsReached`). For the reverse, a lockfile that has the whole tree is closed
  under the edges in force that do not enter the package (`ReachInClosed`), so
  the walk enters the package from a pin that is recorded.
* `AffectsAreRanges`: `AffectsIsTheRanges`. The order in which events are walked
  is linear (`WalkIsLinear`), ties included, so of any of them one is the last.
  Taking one more event, walked after the others, leaves it to that event to
  decide, unless it says nothing of the version, and then the others decide.

**`RegistryProofs`**: `SlotsStayApart`, `ClaimsAreHonest`, `RevalidationIsCurrent`
and `OutagesAreHidden`, the four properties of the run, for any number of
getters, processes and documents, any clock and any number of calls.

* The slots are inductive as they stand: a slot that is handed out is at least
  the limiter's `next`, which is an interval after every slot of the process.
* What is said of a call (`CallOK`): it has seen what is served now, and what
  it was answered; one that began with a copy on disk has a body in hand once
  it read it; one whose files cannot be read is over. A step of one getter keeps it for the others, because no step
  takes a body away. `OutageIsHidden` is its last line.
* What is said of a document that no two processes wrote at once
  (`DocumentOK`, `CallFits`): ETag, body on disk, body in hand and answer in
  hand are in this order, and none is newer than the newest revision. The
  rename of a body is the one step that could disturb another call; the other
  call is not writing, or the document would be in `raced`, so it only reads a
  newer body than it expected. A 304 confirms the newest revision, so body
  and ETag in hand are equal then. From these follow `HonestClaim` and, with
  `StampsOK` (no stamp is of the future, so `maxAge` 0 never takes a copy as
  it is), `RevalidatedIsCurrent`.
* `TypeCorrect`: types.

**`AuditProofs`**

* `HoldingsAreObserved`: after a single ingest the spells cut time at the sampled
  releases, and the spell of an instant is that of the newest one before it.
* `RostersArePointwise`: `RosterIsPointwise`. A search is a set of live paths at
  each instant. The request invariant says that each row of `MAINTAINS` is
  taken exactly once and cut to all of what was reached by then, so the order
  of rows does not show, nor that of requests, which share nothing but the graph.
* `WhoIsAuditReversed`: the inverse question walks the edges backwards; a live
  path turned around is one, of the same length, so both depth bounds agree.
* `KeysAreProved`: the procedure's paths are built an edge at a time
  (`PathsAreLengthened`), and those whose span is not empty are exactly the paths
  whose edges have an instant in common (`SpanOfAllPointwise`). A version is
  reached along such a path, so there is a chain; a pair that has no more paths
  than the limit is returned whole (`FoundAre`), its chains with it.
* `CutsAreDominance`: what a search without an account's versions misses is what
  no path that avoids them reaches.
* `UnknownTermsAreNotClean`: a score is a weighted mean of its known terms. The
  order of summation does not matter (`SumAdds`), and a term that turns out to be
  clean only adds to what the sum is divided by.
* `TypeCorrect`: types.

**`ObservatoryProofs`**

* `SketchesAreOfTheEpoch`: a round takes every sketch to the merge of its own and
  those of its dependents, whatever the chunks of the workers are. Slots only
  grow and never beyond those of all that depends on the package, which is
  the upper half. What stops is a fixed point if counts tell sketches apart: an
  exact set that does not grow in number does not grow. And a fixed point that
  holds its own package holds the least set closed under dependents, which is
  `Dependents`. Of a HyperLogLog only the bounds are true: a round that changes
  no count ends the propagation, whether or not registers changed.
* `RunsRepair`: at every moment of a run, each row of the statements it is to send
  (`Writes`) is either still waiting or in effect. A row that is in effect stays
  so because no two rows of one run have the same key (`KeysDiffer`). No epoch in
  the graph is after the last one of the run, since time only goes on between
  runs, so the newest epoch that is read is the one that was written whole.
* `TypeCorrect`: types.

**Assumptions.** Beside types, finiteness and bounds of at least one, the proofs
use these of the modules; each holds of every graph the program can write.

* `Audit`: two releases of one urn are one (urns are ids), an edge's ends are
  releases, nothing is published after the open end of time.
  `Maintainers`: an edge begins no earlier than its ends were published, which is
  how the resolve pass makes windows.
* `Incident`: the package that uses another is not a version of that other.
* `Expander`: no more than that `npmURN` accepts some of the urns. `IntervalSlice`:
  inserted spans lie between 0 and the open end, as intersections of edges do.
* `Resolve`: a version name belongs to one release of one package; a declaration
  is known by its two ends.
* `Observatory`: handles and packages are different nodes (their labels differ);
  a timeline has its rows in some order;
  the epochs of a run ascend, as the command makes them.
* `Checkpoint`: a name is a text and not empty. `Incident`: edges into the package
  come from the dependent only (the links of the others lead elsewhere).

**Only model-checked.** Liveness (`SearchesEnd`, `RunEnds`, `EpochEnds`): its
proofs need ENABLED of fair actions, which is out of this prover's reach. That
the searches, runs and epochs end is therefore known for the instances of section
3 only. The properties of the runs that expect a violation, and of the further
configurations, are false, and refuted by TLC.

## 5. What the models say about the program

Disagreements with the code's own words, each shown by a run:

* A search can undercount and say that it was not truncated (`reach.go:164`
  looks at the union pass only).
* Two requests at once write one map without a lock, which ends the server
  (`server.go:28`).
* A project recorded again is exposed through pins it no longer has
  (`record.go:72`).

Limits that the further configurations show:

* A torn checkpoint line can claim a package that was never written, which is
  then skipped for good: the file is opened with `O_APPEND`, so the next name is
  printed behind the torn text, and `is-`, torn from `is-number`, and `array`
  make `is-array`. `checkpoint.go:16-18` says that a crash can never claim work
  that was not done. What is true is `ClaimedIsWritten`: each end of a run leaves
  one such line at most, so the wrong claims are no more than the runs so far.
* `ResolvedWhileLive` compares the windows of recorded dependents only. Its
  comment (`resolved_while_live.go:48-49`) says that a project that locked the
  compromised version directly is found the same way; it is found only if it
  also locked a dependent that resolved to the version at that instant.
  `ExposedAgrees` counts direct locks beside what `ResolvedWhileLive` finds
  for that reason.
* `TransitivelyExposed` sees more than `ResolvedWhileLive`: it walks chains through
  versions that the project has not recorded. The two agree when the lockfile
  has its whole tree (`LocksWholeTree`), and on names that `npmURN` accepts.
* One source with more edges than the row limit is truncated in silence.
* URNs with capital letters are dropped in silence: from an expansion, from the
  pins an audit starts at (`audit.go:161`, in `Incident` the constant `Named`), from the
  sources of a proof (`proof.go:63`), and packages with capitals from those whose
  maintainers are read (`audit.go:312-321`), so nobody is on the roster for them.
  `Audit` leaves the pattern out: its names are ones that match.
* A proof may be missing for a key that is held, or be longer than need be, where a
  pin and a version have more than 64 paths between them (`proof.go:84`).
  `EveryKeyIsProved` says that it is missing nowhere else.
* A cached document that cannot be read ends a call with that error, also where
  fetching it anew would do (`client.go:61-64`).
* A second resolve pass does not replace the windows of the first when a
  target's timeline was behind its dependents: both stay open. `NoStaleWindow`
  says exactly when it does: the timeline must have been complete up to the
  dependent's own publication and up to its own last release. Packages of one
  ingest are fetched minutes apart, so this can be missed in ordinary use.

Short of those cases, the search is exact at every instant, in whatever order
the database returns rows; what the ingest claims on a line of its own is written; the roster, its inverse, its proofs and its cuts agree; a whole lockfile's two incident questions agree; the cache vouches for nothing it does not hold as long as two
processes do not write one document at once.

Observations that no run covers: a declaration that enters the graph after
its target was recorded is not resolved until the checkpoint is deleted, although
`resolve.go:76` speaks of every declaration; when a statement fails, `Run` returns while
workers may still wait to hand over rows, which matters only to a caller that
would go on (the command exits); an interrupted run counts the packages it
was fetching as unavailable; two processes that fetch one document at once can
leave the newer ETag over the older body, and then a 304 confirms the older body
until the document changes again; lossy sketches may stop before their fixed
point, since a round ends the propagation when no count changes; after two
ingests at different epochs an account that left may be credited, over the edge
of the first, for longer than the second would say; a remembered 404 is served for ever.

## 6. Not modelled

* Parsers and pure comparisons without state: semver, lockfiles, OSV files,
  registry documents, typosquat distances. The models take what they yield: an
  order on versions, pins, ranges as events, releases.
* Numerics: the hash of HyperLogLog, logarithms, floating-point rounding.
* `SharedMaintainers`, the dependency diff of `Bisect`, `validate.go`,
  `discovery.go`: single reads or measurements of what is stored, which nothing
  depends on.
* Flags, reports, JSON, routing and the framing of event streams; the web
  client, which keeps no state that answers depend on; the experiments under
  `cmd/probe`, `cmd/spike-resolve` and `cmd/bench-graph-size`; deployment.
* The database, the registry services and the file system beyond what the code
  relies on: rename is atomic, a MERGE by id is idempotent, a call above its
  limit returns some of the rows.

## 7. Plan

1. What is true of `UpdatesInPlace`: under which order of ingests and passes a
   second pass replaces what the first one wrote.
2. How far from its fixed point a lossy sketch may stop.
