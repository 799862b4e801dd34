------------------------------- MODULE Ingest -------------------------------
(***************************************************************************)
(* The ingest pass: Run, writeLoop and write of internal/ingest/ingest.go, *)
(* with the checkpoint of module Checkpoint and the graph database.        *)
(*                                                                         *)
(* One goroutine feeds names in rank order, Fetchers workers fetch them,   *)
(* and one writer collects what was fetched, writes it to the graph in     *)
(* nine statements and then records the names.  Both channels are          *)
(* unbuffered.  The workers are interchangeable, so they are modelled by   *)
(* the names they hold: fetching, or fetched and offered to the writer.    *)
(*                                                                         *)
(* The process may be interrupted (the context is cancelled), killed, or   *)
(* lose power, and be started again on the same state directory; reads of  *)
(* the registry, statements and writes to the file may fail.               *)
(***************************************************************************)
EXTENDS Checkpoint, FiniteSets, Functions

CONSTANTS
    Ranking,    \* the names to ingest, most downloaded first
    Packages,   \* every package name, the ones only depended on included
    Deps,       \* Deps[n]: the packages n declares a dependency on
    Handles,    \* maintainer accounts
    Holders,    \* Holders[n]: the accounts maintaining n
    Fetchers,   \* Options.Fetchers
    FlushAt,    \* flushAt
    MaxRuns     \* bound: how often the program is started

ASSUME IngestAssumption ==
    /\ Ranking \in Seq(Names)
    /\ \A j, k \in 1 .. Len(Ranking) : Ranking[j] = Ranking[k] => j = k
    /\ Names \subseteq Packages
    /\ Deps \in [Names -> SUBSET Packages]
    /\ Holders \in [Names -> SUBSET Handles]
    /\ Fetchers \in Nat \ {0}
    /\ FlushAt \in Nat
    /\ MaxRuns \in Nat \ {0}

-----------------------------------------------------------------------------
(* The graph: a set of rows.  A node is known by its label and name; an    *)
(* edge also by where it leads.  One version stands for all of a package's.*)

Node(label, n)    == [kind |-> label, of |-> n, to |-> n]
Link(type, s, d)  == [kind |-> type, of |-> s, to |-> d]

NodeKinds == {"Package", "Rank", "Version", "Signals", "Maintainer"}
EdgeKinds == {"HAS_VERSION", "SAMPLED", "DEPENDS_ON", "MAINTAINS"}

Row == [kind : NodeKinds \cup EdgeKinds, of : Packages \cup Handles,
        to : Packages \cup Handles]

Steps == 9

\* Mutant: the edges to maintainers go before the maintainers.
RowsOfEdgesFirst == [n \in Names |->
    << {Node("Package", n), Node("Rank", n)},
       {Node("Package", d) : d \in Deps[n]},
       {Node("Version", n)},
       {Link("MAINTAINS", h, n) : h \in Holders[n]},
       {Node("Signals", n)},
       {Link("HAS_VERSION", n, n)},
       {Link("SAMPLED", n, n)},
       {Link("DEPENDS_ON", n, d) : d \in Deps[n]},
       {Node("Maintainer", h) : h \in Holders[n]} >>]

\* What fetchPackage derives from package n, by the statement of write that
\* sends it, in the order of the statements.
RowsOf == [n \in Names |->
    << {Node("Package", n), Node("Rank", n)},
       {Node("Package", d) : d \in Deps[n]},
       {Node("Version", n)},
       {Node("Maintainer", h) : h \in Holders[n]},
       {Node("Signals", n)},
       {Link("HAS_VERSION", n, n)},
       {Link("SAMPLED", n, n)},
       {Link("DEPENDS_ON", n, d) : d \in Deps[n]},
       {Link("MAINTAINS", h, n) : h \in Holders[n]} >>]

AllRows == [n \in Names |-> UNION {RowsOf[n][k] : k \in 1 .. Steps}]

\* The nodes an edge statement has to MATCH.  A MATCH that finds nothing
\* writes nothing and reports no error.
Needs(r) ==
    CASE r.kind \in {"HAS_VERSION", "SAMPLED"} ->
            {Node("Package", r.of), Node("Version", r.to)}
      [] r.kind = "DEPENDS_ON" ->
            {Node("Version", r.of), Node("Package", r.to)}
      [] r.kind = "MAINTAINS" ->
            {Node("Maintainer", r.of), Node("Package", r.to)}
      [] OTHER -> {}

\* nodeCount plus edgeCount of what n contributes: every list but the
\* annotations, before duplicates are dropped.
Weight == [n \in Names |->
    LET counted == {1, 2, 3, 4, 6, 7, 8, 9}
        size(k) == IF k = 1 THEN 1 ELSE Cardinality(RowsOf[n][k])
    IN  FoldFunctionOnSet(+, 0, [k \in counted |-> size(k)], counted)]

-----------------------------------------------------------------------------

VARIABLES
    run,        \* how many times the program was started
    phase,      \* "running", "ok" or "down"
    cancelled,  \* the context is done
    fed,        \* the feeder's position in Ranking
    feeding,    \* the jobs channel is open
    fetching,   \* names whose worker is fetching
    fetched,    \* names whose worker offers the rows to the writer
    skipped,    \* names skipped because the checkpoint has them
    missing,    \* names that could not be fetched
    gone,       \* how many workers left on the cancellation
    ingested,   \* names the writer received
    writer,     \* "receive", "write" or "record"
    final,      \* the results channel is closed
    held,       \* the writer's names, in order of arrival
    step,       \* the next statement, or the next name to record
    done,       \* the checkpoint in memory
    file,       \* the checkpoint on disk
    synced,     \* how many of its lines are known to be on disk
    db          \* the rows in the graph

feeder  == <<fed, feeding, skipped>>
workers == <<fetching, fetched, missing, gone>>
writing == <<writer, final, held, step, ingested>>
stable  == <<file, synced, db>>
vars == <<run, phase, cancelled, feeder, workers, writing, done, stable>>

Held == {held[k] : k \in 1 .. Len(held)}

HeldWeight ==
    FoldFunction(+, 0, [k \in 1 .. Len(held) |-> Weight[held[k]]])

\* The rows of the current statement, and those of them it can write.
Sent == UNION {RowsOf[n][step] : n \in Held}
Matched == {r \in Sent : Needs(r) \subseteq db}

Running == phase = "running"

\* The workers that cannot take a name.
Busy == Cardinality(fetching) + Cardinality(fetched) + gone

\* Mutant: a worker that leaves on the cancellation is waited for.
AllReturnedOrWaits == ~ feeding /\ fetching = {} /\ fetched = {} /\ gone = 0

\* No worker will offer anything any more.
AllReturned ==
    \/ ~ feeding /\ fetching = {} /\ fetched = {}
    \/ gone = Fetchers

\* Nothing of the process is left.
Volatile ==
    /\ cancelled' = FALSE
    /\ fed' = 1
    /\ feeding' = TRUE
    /\ fetching' = {} /\ fetched' = {}
    /\ skipped' = {} /\ missing' = {} /\ ingested' = {}
    /\ gone' = 0
    /\ writer' = "receive"
    /\ final' = FALSE
    /\ held' = << >>
    /\ step' = 1

\* The process ends before Run has returned without an error.
Dies ==
    /\ phase' = "down"
    /\ Volatile
    /\ done' = {}
    /\ UNCHANGED run

Init ==
    /\ run = 1
    /\ phase = "running"
    /\ cancelled = FALSE
    /\ fed = 1
    /\ feeding = TRUE
    /\ fetching = {} /\ fetched = {}
    /\ skipped = {} /\ missing = {} /\ ingested = {}
    /\ gone = 0
    /\ writer = "receive"
    /\ final = FALSE
    /\ held = << >>
    /\ step = 1
    /\ done = {}
    /\ file = << >>
    /\ synced = 0
    /\ db = {}

-----------------------------------------------------------------------------
(* The feeder.                                                             *)

Skip ==
    /\ Running /\ feeding /\ fed <= Len(Ranking) /\ Ranking[fed] \in done
    /\ fed' = fed + 1
    /\ skipped' = skipped \cup {Ranking[fed]}
    /\ UNCHANGED <<run, phase, cancelled, feeding, workers, writing, done, stable>>

\* Mutant: the jobs channel has room for a name nobody took.
FeedBuffered ==
    /\ Running /\ feeding /\ fed <= Len(Ranking) /\ Ranking[fed] \notin done
    /\ Busy <= Fetchers
    /\ fed' = fed + 1
    /\ fetching' = fetching \cup {Ranking[fed]}
    /\ UNCHANGED <<run, phase, cancelled, feeding, skipped, fetched, missing, gone,
                   writing, done, stable>>

\* An idle worker takes the next name.
Feed ==
    /\ Running /\ feeding /\ fed <= Len(Ranking) /\ Ranking[fed] \notin done
    /\ Busy < Fetchers
    /\ fed' = fed + 1
    /\ fetching' = fetching \cup {Ranking[fed]}
    /\ UNCHANGED <<run, phase, cancelled, feeding, skipped, fetched, missing, gone,
                   writing, done, stable>>

\* No name is left, or the feeder saw the cancellation while it offered one.
FeederEnds ==
    /\ Running /\ feeding
    /\ \/ fed > Len(Ranking)
       \/ cancelled /\ fed <= Len(Ranking) /\ Ranking[fed] \notin done
    /\ feeding' = FALSE
    /\ UNCHANGED <<run, phase, cancelled, fed, skipped, workers, writing, done, stable>>

-----------------------------------------------------------------------------
(* The workers.                                                            *)

FetchSucceeds(n) ==
    /\ Running /\ n \in fetching
    /\ fetching' = fetching \ {n}
    /\ fetched' = fetched \cup {n}
    /\ UNCHANGED <<run, phase, cancelled, feeder, missing, gone, writing, done, stable>>

\* The package is gone, the registry failed or the context was cancelled:
\* counted as missing, and the run goes on.
FetchFails(n) ==
    /\ Running /\ n \in fetching
    /\ fetching' = fetching \ {n}
    /\ missing' = missing \cup {n}
    /\ UNCHANGED <<run, phase, cancelled, feeder, fetched, gone, writing, done, stable>>

\* The worker sees the cancellation while it offers its rows, and leaves.
DropRows(n) ==
    /\ Running /\ cancelled /\ n \in fetched
    /\ fetched' = fetched \ {n}
    /\ gone' = gone + 1
    /\ UNCHANGED <<run, phase, cancelled, feeder, fetching, missing, writing, done, stable>>

-----------------------------------------------------------------------------
(* The writer.                                                             *)

Receive(n) ==
    /\ Running /\ writer = "receive" /\ ~ final /\ n \in fetched
    /\ fetched' = fetched \ {n}
    /\ held' = Append(held, n)
    /\ ingested' = ingested \cup {n}
    /\ writer' = IF HeldWeight + Weight[n] >= FlushAt THEN "write" ELSE "receive"
    /\ UNCHANGED <<run, phase, cancelled, feeder, fetching, missing, gone, final, step,
                   done, stable>>

\* Mutant: what is left when the channel closes is not flushed.
ChannelClosesNoFlush ==
    /\ Running /\ writer = "receive" /\ ~ final /\ AllReturned
    /\ final' = TRUE
    /\ phase' = "ok"
    /\ UNCHANGED <<run, cancelled, feeder, workers, writer, held, step, ingested,
                   done, stable>>

\* Every worker is gone: the results channel is closed and what is left is
\* flushed, or there is nothing left and Run returns.
ChannelCloses ==
    /\ Running /\ writer = "receive" /\ ~ final /\ AllReturned
    /\ final' = TRUE
    /\ IF held = << >>
       THEN phase' = "ok" /\ UNCHANGED writer
       ELSE writer' = "write" /\ UNCHANGED phase
    /\ UNCHANGED <<run, cancelled, feeder, workers, held, step, ingested, done, stable>>

\* One statement of write, all its chunks.
WriteStep ==
    /\ Running /\ writer = "write"
    /\ db' = db \cup Matched
    /\ IF step < Steps
       THEN step' = step + 1 /\ UNCHANGED writer
       ELSE step' = 1 /\ writer' = "record"
    /\ UNCHANGED <<run, phase, cancelled, feeder, workers, final, held, ingested,
                   done, file, synced>>

\* Mutant: the error of a statement is dropped and the next one is sent.
WriteFailsUnnoticed ==
    /\ Running /\ writer = "write"
    /\ \E some \in SUBSET Matched : db' = db \cup some
    /\ IF step < Steps
       THEN step' = step + 1 /\ UNCHANGED writer
       ELSE step' = 1 /\ writer' = "record"
    /\ UNCHANGED <<run, phase, cancelled, feeder, workers, final, held, ingested,
                   done, file, synced>>

\* The statement fails after some of its rows, retries included; Run
\* returns the error and the program ends.
WriteFails ==
    /\ Running /\ writer = "write"
    /\ \E some \in SUBSET Matched : db' = db \cup some
    /\ Dies
    /\ UNCHANGED <<file, synced>>

\* Record writes one name's line.
RecordName ==
    /\ Running /\ writer = "record" /\ step <= Len(held)
    /\ file' = WriteLine(file, held[step])
    /\ done' = done \cup {held[step]}
    /\ step' = step + 1
    /\ UNCHANGED <<run, phase, cancelled, feeder, workers, writer, final, held,
                   ingested, synced, db>>

\* The line is written in part, or not at all.
RecordFails ==
    /\ Running /\ writer = "record" /\ step <= Len(held)
    /\ file' \in {file} \cup TornWrites(file, held[step])
    /\ Dies
    /\ UNCHANGED <<synced, db>>

\* The file is synced, the writer's memory reset.
SyncFile ==
    /\ Running /\ writer = "record" /\ step > Len(held)
    /\ synced' = Len(file)
    /\ held' = << >>
    /\ step' = 1
    /\ writer' = "receive"
    /\ phase' = IF final THEN "ok" ELSE phase
    /\ UNCHANGED <<run, cancelled, feeder, workers, final, ingested, done, file, db>>

SyncFails ==
    /\ Running /\ writer = "record" /\ step > Len(held)
    /\ Dies
    /\ UNCHANGED stable

-----------------------------------------------------------------------------
(* The world around.                                                       *)

\* SIGINT or SIGTERM.
Cancel ==
    /\ Running /\ ~ cancelled
    /\ cancelled' = TRUE
    /\ UNCHANGED <<run, phase, feeder, workers, writing, done, stable>>

\* The process is killed; what it wrote to the file stays.
Kill ==
    /\ Running
    /\ Dies
    /\ UNCHANGED stable

\* The machine loses power, whether the program runs or not.
PowerLoss ==
    /\ file' \in AfterPowerLoss(file, synced)
    /\ Dies
    /\ UNCHANGED <<synced, db>>

\* The program is started again with the same ranking and state directory.
Start ==
    /\ ~ Running /\ run < MaxRuns
    /\ run' = run + 1
    /\ phase' = "running"
    /\ Volatile
    /\ done' = Claims(file)
    /\ UNCHANGED stable

Feeder == Skip \/ Feed \/ FeederEnds
Worker(n) == FetchSucceeds(n) \/ FetchFails(n) \/ DropRows(n)
Writer ==
    \/ \E n \in fetched : Receive(n)
    \/ ChannelCloses
    \/ WriteStep \/ WriteFails
    \/ RecordName \/ RecordFails \/ SyncFile \/ SyncFails

Next ==
    \/ Feeder
    \/ \E n \in Names : Worker(n)
    \/ Writer
    \/ Cancel \/ Kill \/ PowerLoss \/ Start

Spec == Init /\ [][Next]_vars

\* Every goroutine that can go on does.  Neither an interruption nor a
\* restart has to happen.
FairSpec ==
    /\ Spec
    /\ WF_vars(Feeder)
    /\ \A n \in Names : WF_vars(FetchSucceeds(n) \/ FetchFails(n))
    /\ WF_vars(Writer)

-----------------------------------------------------------------------------
(* Properties.                                                             *)

TypeOK ==
    /\ run \in 1 .. MaxRuns
    /\ phase \in {"running", "ok", "down"}
    /\ cancelled \in BOOLEAN
    /\ fed \in 1 .. Len(Ranking) + 1
    /\ feeding \in BOOLEAN
    /\ fetching \in SUBSET Names
    /\ fetched \in SUBSET Names
    /\ skipped \in SUBSET Names
    /\ missing \in SUBSET Names
    /\ gone \in 0 .. Fetchers
    /\ ingested \in SUBSET Names
    /\ writer \in {"receive", "write", "record"}
    /\ final \in BOOLEAN
    /\ held \in Seq(Names)
    /\ step \in 1 .. IF writer = "write" THEN Steps ELSE Len(held) + 1
    /\ done \in SUBSET Names
    /\ file \in Seq(Line)
    /\ synced \in Nat
    /\ db \in SUBSET Row

Written(n) == AllRows[n] \subseteq db

Unwritten(S) == {n \in S : ~ Written(n)}

\* checkpoint.go:16-18, as far as it is true: a name that a sound line claims,
\* or that this run recorded, has all its rows in the graph, its edges
\* included: none was dropped by a MATCH that found nothing.  Lines that were
\* torn can claim anything, but each end of a run leaves one of them at most.
ClaimedIsWritten ==
    /\ \A n \in SoundClaims(file) \cup (ingested \cap done) : Written(n)
    /\ Cardinality(Unwritten(Claims(file))) <= run
    /\ Cardinality(Unwritten(done)) < run

\* checkpoint.go:16-18 as it stands: a crash can lose the record of work that
\* was done, never claim work that was not.
NeverClaimsMore == \A n \in Claims(file) \cup done : Written(n)

\* A run that returned without an error and was not interrupted accounts for
\* every name exactly once, and has recorded every name it received.
RunAccountsForAll ==
    phase = "ok" /\ ~ cancelled =>
        LET ranked == {Ranking[k] : k \in 1 .. Len(Ranking)}
        IN  /\ skipped \cup missing \cup ingested = ranked
            /\ Cardinality(skipped) + Cardinality(missing) + Cardinality(ingested)
                 = Len(Ranking)
            /\ held = << >>
            /\ ingested \subseteq done

\* At most Fetchers names are away from both the feeder and the writer, and
\* a name is in one place at a time.
HandOver ==
    /\ Busy <= Fetchers
    /\ LET place == <<fetching, fetched, skipped, missing, ingested>>
       IN  \A j, k \in 1 .. 5 : j # k => place[j] \cap place[k] = {}
    /\ Running => Held \subseteq ingested /\ Cardinality(Held) = Len(held)

DurableLines == SubSeq(file, 1, synced)

\* The pass implements ResumablePass: through failures, kills and power
\* losses a Record claims only written work, and synced claims stay.
Abstract == INSTANCE ResumablePass WITH
    written <- {n \in Names : Written(n)},
    claimed <- SoundClaims(file),
    durable <- SoundClaims(DurableLines)
ImplementsResumablePass == Abstract!Spec

\* Every run ends: feeder, workers and writer never wait for each other
\* forever, also when the context is cancelled half way.
RunEnds == (phase = "running") ~> (phase # "running")
=============================================================================
