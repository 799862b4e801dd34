---------------------------- MODULE IngestProofs ----------------------------
(***************************************************************************)
(* What a Record of the ingest pass claims is in the graph with all its    *)
(* rows, whatever fails and however often the program is killed, and what  *)
(* a sync made durable stays.  A line that was torn may claim any name,    *)
(* once another run has completed it; as every end of a run leaves one     *)
(* such line at most, fewer names than there were runs are ever skipped    *)
(* although their rows are not in the graph.                               *)
(*                                                                         *)
(* The inductive invariant says how far the writer is: the statements it   *)
(* has sent for the names it holds left their rows in the graph, so every  *)
(* MATCH of the next statement finds its nodes, and nothing is dropped.    *)
(* With what DataProofs says of the file, the pass implements              *)
(* ResumablePass.                                                          *)
(*                                                                         *)
(* A run of the pass loses no name and takes none twice, for any ranking,  *)
(* any number of fetchers and any flush threshold (Books).  The names the  *)
(* feeder is done with are, until the context is cancelled, exactly those  *)
(* that are skipped, fetching, fetched, missing or ingested, and no name   *)
(* is in two of these places.  What was ingested is recorded, or still     *)
(* held by the writer behind the names it has recorded of its batch.  When *)
(* the results channel closes of itself the feeder is at its end and no    *)
(* worker holds a name, so the three outcomes share the ranking.           *)
(*                                                                         *)
(* The two invariants together say what a restart repeats (Ledger): no     *)
(* name that is recorded is fetched, and of the names a run has recorded   *)
(* and dropped from memory, one at most is not on a line that is synced.   *)
(***************************************************************************)
EXTENDS Ingest, DataProofs

-----------------------------------------------------------------------------
(* The rows of a package and the order of the statements.                  *)

LEMMA RowsAt ==
    ASSUME NEW n \in Names
    PROVE  /\ RowsOf[n][1] = {Node("Package", n), Node("Rank", n)}
           /\ RowsOf[n][2] = {Node("Package", d) : d \in Deps[n]}
           /\ RowsOf[n][3] = {Node("Version", n)}
           /\ RowsOf[n][4] = {Node("Maintainer", h) : h \in Holders[n]}
           /\ RowsOf[n][5] = {Node("Signals", n)}
           /\ RowsOf[n][6] = {Link("HAS_VERSION", n, n)}
           /\ RowsOf[n][7] = {Link("SAMPLED", n, n)}
           /\ RowsOf[n][8] = {Link("DEPENDS_ON", n, d) : d \in Deps[n]}
           /\ RowsOf[n][9] = {Link("MAINTAINS", h, n) : h \in Holders[n]}
BY DEF RowsOf

\* What the kinds of rows that packages have must find in the graph.
LEMMA NeedsOf ==
    ASSUME NEW s, NEW d
    PROVE  /\ Needs(Node("Package", s)) = {}
           /\ Needs(Node("Rank", s)) = {}
           /\ Needs(Node("Version", s)) = {}
           /\ Needs(Node("Maintainer", s)) = {}
           /\ Needs(Node("Signals", s)) = {}
           /\ Needs(Link("HAS_VERSION", s, d)) = {Node("Package", s), Node("Version", d)}
           /\ Needs(Link("SAMPLED", s, d)) = {Node("Package", s), Node("Version", d)}
           /\ Needs(Link("DEPENDS_ON", s, d)) = {Node("Version", s), Node("Package", d)}
           /\ Needs(Link("MAINTAINS", s, d)) = {Node("Maintainer", s), Node("Package", d)}
<1>1. /\ Needs(Node("Package", s)) = {}
      /\ Needs(Node("Rank", s)) = {}
      /\ Needs(Node("Version", s)) = {}
      /\ Needs(Node("Maintainer", s)) = {}
      /\ Needs(Node("Signals", s)) = {}
  BY DEF Needs, Node
<1>2. Needs(Link("HAS_VERSION", s, d)) = {Node("Package", s), Node("Version", d)}
  BY DEF Needs, Link
<1>3. Needs(Link("SAMPLED", s, d)) = {Node("Package", s), Node("Version", d)}
  BY DEF Needs, Link
<1>4. Needs(Link("DEPENDS_ON", s, d)) = {Node("Version", s), Node("Package", d)}
  BY DEF Needs, Link
<1>5. Needs(Link("MAINTAINS", s, d)) = {Node("Maintainer", s), Node("Package", d)}
  BY DEF Needs, Link
<1> QED BY <1>1, <1>2, <1>3, <1>4, <1>5

\* The rows of the statements before the k-th are in D.
SentBefore(n, k, D) == \A j \in 1 .. Steps : j < k => RowsOf[n][j] \subseteq D

\* Nodes go before the edges that reference them: what the k-th statement
\* has to find was sent by an earlier one, for the same package.
LEMMA NodesGoFirst ==
    ASSUME NEW n \in Names, NEW D, NEW k \in 1 .. Steps, SentBefore(n, k, D),
           NEW r \in RowsOf[n][k]
    PROVE  Needs(r) \subseteq D
<1> USE DEF Steps
<1>1. CASE k \in 1 .. 5
  <2>1. \E s : \/ r = Node("Package", s) \/ r = Node("Rank", s)
               \/ r = Node("Version", s) \/ r = Node("Maintainer", s)
               \/ r = Node("Signals", s)
    <3>1. k = 1 \/ k = 2 \/ k = 3 \/ k = 4 \/ k = 5
      BY <1>1
    <3> QED BY <3>1, RowsAt
  <2> QED BY <2>1, NeedsOf
<1>2. CASE k = 6 \/ k = 7
  <2>1. r = Link("HAS_VERSION", n, n) \/ r = Link("SAMPLED", n, n)
    BY <1>2, RowsAt
  <2>2. RowsOf[n][1] \subseteq D /\ RowsOf[n][3] \subseteq D
    BY <1>2 DEF SentBefore
  <2> QED BY <2>1, <2>2, RowsAt, NeedsOf
<1>3. CASE k = 8
  <2>1. PICK d \in Deps[n] : r = Link("DEPENDS_ON", n, d)
    BY <1>3, RowsAt
  <2>2. RowsOf[n][2] \subseteq D /\ RowsOf[n][3] \subseteq D
    BY <1>3 DEF SentBefore
  <2>3. Node("Package", d) \in D /\ Node("Version", n) \in D
    BY <2>1, <2>2, RowsAt
  <2> QED BY <2>1, <2>3, NeedsOf
<1>4. CASE k = 9
  <2>1. PICK h \in Holders[n] : r = Link("MAINTAINS", h, n)
    BY <1>4, RowsAt
  <2>2. RowsOf[n][1] \subseteq D /\ RowsOf[n][4] \subseteq D
    BY <1>4 DEF SentBefore
  <2>3. Node("Package", n) \in D /\ Node("Maintainer", h) \in D
    BY <2>1, <2>2, RowsAt
  <2> QED BY <2>1, <2>3, NeedsOf
<1> QED BY <1>1, <1>2, <1>3, <1>4

-----------------------------------------------------------------------------
(* The invariant.                                                          *)

Shape ==
    /\ fed \in Nat \ {0}
    /\ fetching \in SUBSET Names
    /\ fetched \in SUBSET Names
    /\ held \in Seq(Names)
    /\ step \in Nat \ {0}
    /\ writer \in {"receive", "write", "record"}
    /\ file \in Seq(Line)
    /\ synced \in Nat

\* How far the writer is with the names it holds.
Progress ==
    /\ writer = "receive" => step = 1
    /\ writer = "write" => step \in 1 .. Steps /\ \A n \in Held : SentBefore(n, step, db)
    /\ writer = "record" => \A n \in Held : Written(n)

Done == {n \in Names : Written(n)}

\* What the checkpoint says, on disk and in memory.
Sound ==
    /\ Honest(file, Done, run, Running)
    /\ Remembers(done, Done, run)
    /\ done \subseteq Names

IInv == Shape /\ Progress /\ Sound

\* More rows in the graph undo nothing.
LEMMA WrittenStays ==
    ASSUME db \subseteq db'
    PROVE  /\ \A n : Written(n) => Written(n)'
           /\ \A n, k : SentBefore(n, k, db) => SentBefore(n, k, db')
           /\ Done \subseteq Done'
BY DEF Written, SentBefore, Done

\* A step that leaves the checkpoint alone.
LEMMA SoundStays ==
    ASSUME Sound, UNCHANGED <<run, file, done>>, Running' => Running, Done \subseteq Done'
    PROVE  Sound'
<1>1. Honest(file, Done', run, Running) /\ Honest(file, Done', run, FALSE)
  BY HonestStays DEF Sound
<1>2. Honest(file, Done', run, Running')
  <2>1. CASE Running'
    BY <1>1, <2>1 DEF Honest
  <2>2. CASE ~ Running'
    BY <1>1, <2>2 DEF Honest
  <2> QED BY <2>1, <2>2
<1>3. Remembers(done, Done', run)
  BY RemembersStays DEF Sound, Honest
<1> QED BY <1>2, <1>3 DEF Sound

\* A step that ends the run.
LEMMA DyingIsSound ==
    ASSUME Sound, Dies, Honest(file', Done', run, FALSE)
    PROVE  Sound'
<1>1. done' = {} /\ run' = run /\ ~ Running'
  BY DEF Dies, Running
<1>2. Honest(file', Done', run', Running')
  BY <1>1 DEF Honest
<1>3. Remembers(done', Done', run')
  BY <1>1, RemembersStays DEF Sound, Honest
<1> QED BY <1>1, <1>2, <1>3 DEF Sound

\* The same when the file is as it was.
LEMMA DyingLeavesFile ==
    ASSUME Sound, Dies, file' = file, Done \subseteq Done'
    PROVE  Sound'
BY HonestStays, DyingIsSound DEF Sound

LEMMA InitIInv == ASSUME Init PROVE IInv
<1>1. << >> \in Seq(Names) /\ << >> \in Seq(Line)
  OBVIOUS
<1>2. Honest(<< >>, Done, 1, Running) /\ Remembers({}, Done, 1)
  BY HonestAtFirst
<1>3. Sound
  BY <1>2 DEF Init, Sound
<1> QED BY <1>1, <1>3 DEF Init, IInv, Shape, Progress

\* A step that leaves the writer, the checkpoint and the graph alone.
LEMMA ElsewhereKeepsIInv ==
    ASSUME IInv, Running' => Running,
           UNCHANGED <<run, held, step, writer, file, synced, done, db>>,
           fed' \in Nat \ {0}, fetching' \in SUBSET Names, fetched' \in SUBSET Names
    PROVE  IInv'
<1>1. Shape'
  BY DEF IInv, Shape
<1>2. Held' = Held /\ \A n : Written(n)' = Written(n)
  BY DEF Held, Written
<1>3. Progress'
  BY <1>2 DEF IInv, Progress
<1>4. Done' = Done
  BY <1>2 DEF Done
<1>5. Sound'
  BY <1>4, SoundStays DEF IInv
<1> QED BY <1>1, <1>3, <1>5 DEF IInv

\* The process is gone, or starts again, and the checkpoint is sound.
LEMMA RestartKeepsIInv ==
    ASSUME IInv, Volatile, synced' = synced, Sound'
    PROVE  IInv'
<1>1. /\ fed' = 1 /\ fetching' = {} /\ fetched' = {} /\ writer' = "receive"
      /\ held' = << >> /\ step' = 1
  BY DEF Volatile
<1>2. Shape'
  BY <1>1 DEF IInv, Shape, Sound, Honest, WellFormed
<1>3. Progress'
  BY <1>1 DEF Progress
<1> QED BY <1>2, <1>3 DEF IInv

LEMMA FeederKeepsIInv == ASSUME IInv, Feeder PROVE IInv'
<1>1. /\ UNCHANGED <<run, held, step, writer, file, synced, done, db>>
      /\ Running' => Running
  BY DEF Feeder, Skip, Feed, FeederEnds, writing, stable, Running
<1>2. fed' \in Nat \ {0}
  BY DEF Feeder, Skip, Feed, FeederEnds, IInv, Shape
<1>3. fetching' \in SUBSET Names /\ fetched' \in SUBSET Names
  <2>1. CASE Feed
    <3>1. fed \in 1 .. Len(Ranking)
      BY <2>1 DEF Feed, IInv, Shape
    <3>2. Ranking[fed] \in Names
      BY <3>1, IngestAssumption
    <3> QED BY <2>1, <3>2 DEF Feed, IInv, Shape
  <2>2. CASE Skip \/ FeederEnds
    BY <2>2 DEF Skip, FeederEnds, workers, IInv, Shape
  <2> QED BY <2>1, <2>2 DEF Feeder
<1> QED BY <1>1, <1>2, <1>3, ElsewhereKeepsIInv

LEMMA WorkerKeepsIInv == ASSUME IInv, NEW n \in Names, Worker(n) PROVE IInv'
<1>1. /\ UNCHANGED <<run, held, step, writer, file, synced, done, db>>
      /\ Running' => Running
  BY DEF Worker, FetchSucceeds, FetchFails, DropRows, writing, stable, Running
<1>2. fed' \in Nat \ {0}
  BY DEF Worker, FetchSucceeds, FetchFails, DropRows, feeder, IInv, Shape
<1>3. fetching' \in SUBSET Names /\ fetched' \in SUBSET Names
  BY DEF Worker, FetchSucceeds, FetchFails, DropRows, IInv, Shape
<1> QED BY <1>1, <1>2, <1>3, ElsewhereKeepsIInv

-----------------------------------------------------------------------------
(* The writer.                                                             *)

LEMMA ReceiveKeepsIInv == ASSUME IInv, NEW n \in fetched, Receive(n) PROVE IInv'
<1>1. /\ n \in Names
      /\ held' = Append(held, n)
      /\ step' = step /\ step = 1
      /\ writer' \in {"receive", "write"}
      /\ fetched' = fetched \ {n}
      /\ Running' => Running
      /\ UNCHANGED <<run, fed, fetching, file, synced, done, db>>
  BY DEF Receive, IInv, Shape, Progress, feeder, stable, Running
<1>2. held' \in Seq(Names)
  BY <1>1 DEF IInv, Shape
<1>3. Shape'
  BY <1>1, <1>2 DEF IInv, Shape
<1>4. \A m : SentBefore(m, step', db')
  BY <1>1 DEF SentBefore
<1>5. Progress'
  BY <1>1, <1>4 DEF Progress, Steps
<1>6. Done' = Done
  BY <1>1 DEF Done, Written
<1>7. Sound'
  BY <1>1, <1>6, SoundStays DEF IInv
<1> QED BY <1>3, <1>5, <1>7 DEF IInv

LEMMA ChannelClosesKeepsIInv == ASSUME IInv, ChannelCloses PROVE IInv'
<1>1. /\ UNCHANGED <<run, fed, fetching, fetched, held, step, file, synced, done, db>>
      /\ step = 1
      /\ writer' \in {"receive", "write"}
      /\ Running' => Running
  BY DEF ChannelCloses, IInv, Progress, feeder, workers, stable, Running
<1>2. Shape'
  BY <1>1 DEF IInv, Shape
<1>3. \A m : SentBefore(m, step', db')
  BY <1>1 DEF SentBefore
<1>4. Progress'
  BY <1>1, <1>3 DEF Progress, Steps
<1>5. Done' = Done
  BY <1>1 DEF Done, Written
<1>6. Sound'
  BY <1>1, <1>5, SoundStays DEF IInv
<1> QED BY <1>2, <1>4, <1>6 DEF IInv

\* While the writer writes, every row it sends finds the nodes it needs.
LEMMA NothingIsDropped ==
    ASSUME IInv, writer = "write"
    PROVE  Matched = Sent
<1>1. /\ Held \subseteq Names
      /\ step \in 1 .. Steps
      /\ \A n \in Held : SentBefore(n, step, db)
  <2>1. Held \subseteq Names
    BY DEF IInv, Shape, Held
  <2> QED BY <2>1 DEF IInv, Progress
<1>2. \A n \in Held : \A r \in RowsOf[n][step] : Needs(r) \subseteq db
  BY <1>1, NodesGoFirst
<1> QED BY <1>2 DEF Matched, Sent

LEMMA WriteStepKeepsIInv == ASSUME IInv, WriteStep PROVE IInv'
<1>1. /\ writer = "write"
      /\ step \in 1 .. Steps
      /\ \A n \in Held : SentBefore(n, step, db)
      /\ UNCHANGED <<run, fed, fetching, fetched, held, file, synced, done>>
      /\ db' = db \cup Sent
      /\ Running' => Running
  BY NothingIsDropped DEF WriteStep, IInv, Progress, feeder, workers, Running
<1>2. \/ step < Steps /\ step' = step + 1 /\ writer' = "write"
      \/ step = Steps /\ step' = 1 /\ writer' = "record"
  BY <1>1 DEF WriteStep, Steps
<1>3. Shape'
  BY <1>1, <1>2 DEF IInv, Shape, Steps
<1>4. \A n \in Held : SentBefore(n, step + 1, db')
  <2>1. TAKE n \in Held
  <2>2. RowsOf[n][step] \subseteq db'
    BY <1>1 DEF Sent
  <2>3. \A j \in 1 .. Steps : j < step + 1 => j < step \/ j = step
    BY <1>1 DEF Steps
  <2> QED BY <1>1, <2>2, <2>3 DEF SentBefore
<1>5. step = Steps => \A n \in Held : Written(n)'
  <2>1. \A n \in Names : SentBefore(n, Steps + 1, db') => Written(n)'
    <3>1. \A j \in 1 .. Steps : j < Steps + 1
      BY DEF Steps
    <3> QED BY <3>1 DEF SentBefore, Written, AllRows
  <2>2. Held \subseteq Names
    BY DEF Held, IInv, Shape
  <2> QED BY <1>4, <2>1, <2>2
<1>6. Held' = Held
  BY <1>1 DEF Held
<1>7. Progress'
  <2>1. CASE step < Steps
    <3>1. step' = step + 1 /\ writer' = "write" /\ step + 1 \in 1 .. Steps
      BY <1>1, <1>2, <2>1 DEF Steps
    <3>2. \A n \in Held' : SentBefore(n, step', db')
      BY <1>4, <1>6, <3>1
    <3> QED BY <3>1, <3>2 DEF Progress
  <2>2. CASE step = Steps
    <3>1. writer' = "record"
      BY <1>2, <2>2 DEF Steps
    <3>2. \A n \in Held' : Written(n)'
      BY <1>5, <1>6, <2>2
    <3> QED BY <3>1, <3>2 DEF Progress
  <2> QED BY <1>2, <2>1, <2>2
<1>8. Done \subseteq Done'
  BY <1>1, WrittenStays
<1>9. Sound'
  BY <1>1, <1>8, SoundStays DEF IInv
<1> QED BY <1>3, <1>7, <1>9 DEF IInv

LEMMA WriteFailsKeepsIInv == ASSUME IInv, WriteFails PROVE IInv'
<1>1. /\ Dies /\ Volatile
      /\ UNCHANGED <<file, synced>>
      /\ db \subseteq db'
  BY DEF WriteFails, Dies
<1>2. Done \subseteq Done'
  BY <1>1, WrittenStays
<1>3. Sound'
  BY <1>1, <1>2, DyingLeavesFile DEF IInv
<1> QED BY <1>1, <1>3, RestartKeepsIInv

\* Names are recorded only once all of their rows are written.
LEMMA RecordNameKeepsIInv == ASSUME IInv, RecordName PROVE IInv'
<1> DEFINE n == held[step]
<1>1. /\ writer = "record" /\ step \in 1 .. Len(held)
      /\ file' = WriteLine(file, n)
      /\ done' = done \cup {n}
      /\ step' = step + 1
      /\ Running /\ Running'
      /\ UNCHANGED <<run, fed, fetching, fetched, held, writer, synced, db>>
  BY DEF RecordName, IInv, Shape, feeder, workers, Running
<1>2. n \in Held /\ n \in Names
  BY <1>1 DEF Held, IInv, Shape
<1>3. n \in Done
  BY <1>1, <1>2 DEF IInv, Progress, Done
<1>4. Held' = Held /\ (\A m : Written(m)' = Written(m)) /\ Done' = Done
  BY <1>1 DEF Held, Written, Done
<1> HIDE DEF n
<1>5. Sound'
  <2>1. Honest(file, Done, run, TRUE)
    BY <1>1 DEF IInv, Sound, Honest
  <2>2. Honest(file', Done', run', Running')
    <3>1. Honest(file', Done, run, TRUE)
      BY <1>1, <1>2, <1>3, <2>1, HonestRecord
    <3> QED BY <1>1, <1>4, <3>1 DEF Honest
  <2>3. Remembers(done', Done', run')
    BY <1>1, <1>3, <1>4, <2>1, RemembersStays DEF IInv, Sound, Honest
  <2> QED BY <1>1, <1>2, <2>2, <2>3 DEF IInv, Sound
<1>6. Shape'
  BY <1>1, <1>5 DEF IInv, Shape, Sound, Honest, WellFormed
<1>7. Progress'
  BY <1>1, <1>4 DEF IInv, Progress
<1> QED BY <1>5, <1>6, <1>7 DEF IInv

LEMMA RecordFailsKeepsIInv == ASSUME IInv, RecordFails PROVE IInv'
<1> DEFINE n == held[step]
<1>1. /\ writer = "record" /\ step \in 1 .. Len(held)
      /\ file' \in {file} \cup TornWrites(file, n)
      /\ Dies /\ Volatile
      /\ UNCHANGED <<synced, db>>
  BY DEF RecordFails, Dies, IInv, Shape
<1>2. n \in Held /\ n \in Names
  BY <1>1 DEF Held, IInv, Shape
<1>3. Done' = Done
  BY <1>1 DEF Done, Written
<1> HIDE DEF n
<1>4. Sound'
  <2>1. CASE file' = file
    BY <1>1, <1>3, <2>1, DyingLeavesFile DEF IInv
  <2>2. CASE file' \in TornWrites(file, n)
    <3>1. Honest(file', Done, run, FALSE)
      BY <1>2, <2>2, HonestTornWrite DEF IInv, Sound
    <3> QED BY <1>1, <1>3, <3>1, DyingIsSound DEF IInv
  <2> QED BY <1>1, <2>1, <2>2
<1> QED BY <1>1, <1>4, RestartKeepsIInv

LEMMA SyncFileKeepsIInv == ASSUME IInv, SyncFile PROVE IInv'
<1>1. /\ held' = << >> /\ step' = 1 /\ writer' = "receive"
      /\ synced' = Len(file)
      /\ Running' => Running
      /\ UNCHANGED <<run, fed, fetching, fetched, file, done, db>>
  BY DEF SyncFile, feeder, workers, Running
<1>2. Len(file) \in Nat /\ << >> \in Seq(Names)
  BY DEF IInv, Shape
<1>3. Shape'
  BY <1>1, <1>2 DEF IInv, Shape
<1>4. Progress'
  BY <1>1 DEF Progress
<1>5. Done' = Done
  BY <1>1 DEF Done, Written
<1>6. Sound'
  BY <1>1, <1>5, SoundStays DEF IInv
<1> QED BY <1>3, <1>4, <1>6 DEF IInv

LEMMA WriterKeepsIInv == ASSUME IInv, Writer PROVE IInv'
<1>1. CASE SyncFails
  <2>1. Dies /\ Volatile /\ UNCHANGED <<file, synced, db>>
    BY <1>1 DEF SyncFails, Dies, stable
  <2>2. Done' = Done
    BY <2>1 DEF Done, Written
  <2>3. Sound'
    BY <2>1, <2>2, DyingLeavesFile DEF IInv
  <2> QED BY <2>1, <2>3, RestartKeepsIInv
<1> QED BY <1>1, ReceiveKeepsIInv, ChannelClosesKeepsIInv, WriteStepKeepsIInv,
           WriteFailsKeepsIInv, RecordNameKeepsIInv, RecordFailsKeepsIInv,
           SyncFileKeepsIInv DEF Writer

-----------------------------------------------------------------------------
(* The world around, and the theorem.                                      *)

LEMMA WorldKeepsIInv ==
    ASSUME IInv, Cancel \/ Kill \/ PowerLoss \/ Start
    PROVE  IInv'
<1>1. CASE Cancel
  <2>1. /\ UNCHANGED <<run, fed, fetching, fetched, held, step, writer, file, synced,
                       done, db>>
        /\ Running' => Running
    BY <1>1 DEF Cancel, feeder, workers, writing, stable, Running
  <2>2. fed' \in Nat \ {0} /\ fetching' \in SUBSET Names /\ fetched' \in SUBSET Names
    BY <2>1 DEF IInv, Shape
  <2> QED BY <2>1, <2>2, ElsewhereKeepsIInv
<1>2. CASE Kill
  <2>1. Dies /\ Volatile /\ UNCHANGED <<file, synced, db>>
    BY <1>2 DEF Kill, Dies, stable
  <2>2. Done' = Done
    BY <2>1 DEF Done, Written
  <2>3. Sound'
    BY <2>1, <2>2, DyingLeavesFile DEF IInv
  <2> QED BY <2>1, <2>3, RestartKeepsIInv
<1>3. CASE PowerLoss
  <2>1. /\ Dies /\ Volatile /\ UNCHANGED <<synced, db>>
        /\ file' \in AfterPowerLoss(file, synced)
    BY <1>3 DEF PowerLoss, Dies
  <2>2. Done' = Done
    BY <2>1 DEF Done, Written
  <2>3. Honest(file', Done, run, FALSE)
    BY <2>1, HonestPowerLoss DEF IInv, Shape, Sound
  <2>4. Sound'
    BY <2>1, <2>2, <2>3, DyingIsSound DEF IInv
  <2> QED BY <2>1, <2>4, RestartKeepsIInv
<1>4. CASE Start
  <2>1. /\ Volatile /\ Running' /\ run' = run + 1 /\ done' = Claims(file)
        /\ UNCHANGED <<file, synced, db>>
    BY <1>4 DEF Start, stable, Running
  <2>2. Done' = Done /\ Claims(file) \subseteq Names
    BY <2>1 DEF Done, Written, Claims
  <2>3. Honest(file, Done, run + 1, TRUE)
    BY HonestStays DEF IInv, Sound
  <2>4. Remembers(Claims(file), Done, run + 1)
    BY <2>3, FewAreWrong
  <2>5. Sound'
    BY <2>1, <2>2, <2>3, <2>4 DEF Sound, Honest
  <2> QED BY <2>1, <2>5, RestartKeepsIInv
<1> QED BY <1>1, <1>2, <1>3, <1>4

LEMMA NextIInv == ASSUME IInv, [Next]_vars PROVE IInv'
<1>1. CASE UNCHANGED vars
  <2>1. /\ UNCHANGED <<run, fed, fetching, fetched, held, step, writer, file, synced,
                       done, db>>
        /\ Running' => Running
    BY <1>1 DEF vars, feeder, workers, writing, stable, Running
  <2>2. fed' \in Nat \ {0} /\ fetching' \in SUBSET Names /\ fetched' \in SUBSET Names
    BY <2>1 DEF IInv, Shape
  <2> QED BY <2>1, <2>2, ElsewhereKeepsIInv
<1>2. CASE Next
  BY <1>2, FeederKeepsIInv, WorkerKeepsIInv, WriterKeepsIInv, WorldKeepsIInv DEF Next
<1> QED BY <1>1, <1>2

-----------------------------------------------------------------------------
(* The pass implements ResumablePass.  What a sync makes durable ends with *)
(* the whole line of the batch's last name, so no step touches it, and     *)
(* every step leaves the claims alone, adds names that are written, or     *)
(* takes back claims that were not durable.                                *)

\* The writer has names when it writes, and no torn line once it recorded one.
Settled ==
    /\ FileOK(file, synced)
    /\ writer \in {"write", "record"} => held # << >>
    /\ writer = "record" /\ step > 1 => ~ EndsTorn(file)

\* What a step does to the three things the abstract pass speaks of.
AbstractStep ==
    \/ /\ Done \subseteq Done'
       /\ UNCHANGED <<file, synced>>
    \/ /\ Done' = Done
       /\ file' = file
       /\ ~ EndsTorn(file)
       /\ synced' = Len(file)
    \/ /\ Done' = Done
       /\ synced' = synced
       /\ Keeps(file, file', synced)
       /\ \/ SoundClaims(file) \subseteq SoundClaims(file')
          \/ SoundClaims(file') \subseteq SoundClaims(file)

LEMMA SettledInit == Init => Settled
<1> SUFFICES ASSUME Init PROVE Settled
  OBVIOUS
<1>1. file = << >> /\ synced = 0 /\ writer = "receive"
  BY DEF Init
<1>2. Len(<< >>) = 0
  OBVIOUS
<1>3. FileOK(file, synced)
  BY <1>1, <1>2, EmptyFile DEF FileOK
<1> QED BY <1>1, <1>3 DEF Settled

\* The process is gone or starts again: the file is all that is left.
LEMMA RestartSettles ==
    ASSUME FileOK(file', synced'), Volatile
    PROVE  Settled'
BY DEF Volatile, Settled

\* Nothing but the writer touches the checkpoint and the graph.
LEMMA ElsewhereSettles ==
    ASSUME Settled, UNCHANGED <<held, step, writer, file, synced, db>>
    PROVE  Settled' /\ AbstractStep
<1>1. Settled'
  BY DEF Settled
<1>2. Done' = Done
  BY DEF Done, Written
<1> QED BY <1>1, <1>2 DEF AbstractStep

LEMMA WriterSettles ==
    ASSUME IInv, Settled, Writer
    PROVE  Settled' /\ AbstractStep
<1> USE DEF Settled
<1>1. ASSUME NEW n \in fetched, Receive(n) PROVE Settled' /\ AbstractStep
  <2>1. /\ held' = Append(held, n) /\ held \in Seq(Names)
        /\ writer' \in {"receive", "write"}
        /\ UNCHANGED <<file, synced, db>>
    BY <1>1 DEF Receive, stable, IInv, Shape
  <2>2. held' # << >>
    <3>1. Len(held') = Len(held) + 1 /\ Len(held) \in Nat
      BY <2>1
    <3>2. Len(<< >>) = 0
      OBVIOUS
    <3> QED BY <3>1, <3>2
  <2>3. Done' = Done
    BY <2>1 DEF Done, Written
  <2> QED BY <2>1, <2>2, <2>3 DEF AbstractStep
<1>2. CASE ChannelCloses
  <2>1. /\ writer' = "write" => held # << >>
        /\ writer' \in {"receive", "write"}
        /\ UNCHANGED <<held, step, file, synced, db>>
    BY <1>2 DEF ChannelCloses, stable
  <2>2. Done' = Done
    BY <2>1 DEF Done, Written
  <2> QED BY <2>1, <2>2 DEF AbstractStep
<1>3. CASE WriteStep
  <2>1. /\ writer = "write" /\ db \subseteq db'
        /\ writer' = "record" => step' = 1
        /\ UNCHANGED <<held, file, synced>>
    BY <1>3 DEF WriteStep
  <2>2. Done \subseteq Done'
    BY <2>1 DEF Done, Written
  <2> QED BY <2>1, <2>2 DEF AbstractStep
<1>4. CASE WriteFails
  <2>1. Volatile /\ db \subseteq db' /\ UNCHANGED <<file, synced>>
    BY <1>4 DEF WriteFails, Dies
  <2>2. Done \subseteq Done'
    BY <2>1 DEF Done, Written
  <2> QED BY <2>1, <2>2, RestartSettles DEF AbstractStep
<1>5. CASE RecordName
  <2>1. /\ writer = "record" /\ step \in 1 .. Len(held)
        /\ file' = WriteLine(file, held[step])
        /\ UNCHANGED <<held, writer, synced, db>>
    BY <1>5 DEF RecordName, IInv, Shape
  <2>2. held[step] \in Names
    BY <2>1 DEF IInv, Shape
  <2>3. /\ FileOK(file', synced') /\ Keeps(file, file', synced)
        /\ ~ EndsTorn(file')
        /\ SoundClaims(file) \subseteq SoundClaims(file')
    BY <2>1, <2>2, WriteLineKeeps
  <2>4. Done' = Done
    BY <2>1 DEF Done, Written
  <2> QED BY <2>1, <2>3, <2>4 DEF AbstractStep
<1>6. CASE RecordFails
  <2>1. /\ step \in 1 .. Len(held)
        /\ file' \in {file} \cup TornWrites(file, held[step])
        /\ Volatile
        /\ UNCHANGED <<synced, db>>
    BY <1>6 DEF RecordFails, Dies, IInv, Shape
  <2>2. held[step] \in Names
    BY <2>1 DEF IInv, Shape
  <2>3. /\ FileOK(file', synced') /\ Keeps(file, file', synced)
        /\ SoundClaims(file) \subseteq SoundClaims(file')
    <3>1. CASE file' = file
      BY <2>1, <3>1 DEF Keeps
    <3>2. CASE file' \in TornWrites(file, held[step])
      BY <2>1, <2>2, <3>2, TornWriteKeeps
    <3> QED BY <2>1, <3>1, <3>2
  <2>4. Done' = Done
    BY <2>1 DEF Done, Written
  <2> QED BY <2>1, <2>3, <2>4, RestartSettles DEF AbstractStep
<1>7. CASE SyncFile
  <2>1. /\ writer = "record" /\ step > Len(held)
        /\ synced' = Len(file) /\ writer' = "receive"
        /\ UNCHANGED <<file, db>>
    BY <1>7 DEF SyncFile
  <2>2. step > 1
    <3>1. held \in Seq(Names) /\ held # << >> /\ step \in Nat
      BY <2>1 DEF IInv, Shape
    <3>2. Len(held) \in Nat \ {0}
      BY <3>1
    <3> QED BY <2>1, <3>1, <3>2
  <2>3. ~ EndsTorn(file)
    BY <2>1, <2>2
  <2>4. Len(file) \in Nat
    BY DEF FileOK, WellFormed
  <2>5. FileOK(file', synced')
    BY <2>1, <2>3, <2>4 DEF FileOK
  <2>6. Done' = Done
    BY <2>1 DEF Done, Written
  <2> QED BY <2>1, <2>3, <2>5, <2>6 DEF AbstractStep
<1>8. CASE SyncFails
  <2>1. Volatile /\ UNCHANGED <<file, synced, db>>
    BY <1>8 DEF SyncFails, Dies, stable
  <2>2. Done' = Done
    BY <2>1 DEF Done, Written
  <2> QED BY <2>1, <2>2, RestartSettles DEF AbstractStep
<1> QED
  BY <1>1, <1>2, <1>3, <1>4, <1>5, <1>6, <1>7, <1>8 DEF Writer

LEMMA SettledStep ==
    ASSUME IInv, Settled, [Next]_vars
    PROVE  Settled' /\ AbstractStep
<1>1. CASE Feeder
  BY <1>1, ElsewhereSettles DEF Feeder, Skip, Feed, FeederEnds, writing, stable
<1>2. CASE \E n \in Names : Worker(n)
  BY <1>2, ElsewhereSettles
  DEF Worker, FetchSucceeds, FetchFails, DropRows, writing, stable
<1>3. CASE Writer
  BY <1>3, WriterSettles
<1>4. CASE Cancel
  BY <1>4, ElsewhereSettles DEF Cancel, writing, stable
<1>5. CASE Kill \/ Start
  <2>1. Volatile /\ UNCHANGED <<file, synced, db>>
    BY <1>5 DEF Kill, Start, Dies, stable
  <2>2. Done' = Done
    BY <2>1 DEF Done, Written
  <2>3. FileOK(file', synced')
    BY <2>1 DEF Settled
  <2> QED BY <2>1, <2>2, <2>3, RestartSettles DEF AbstractStep
<1>6. CASE PowerLoss
  <2>1. Volatile /\ file' \in AfterPowerLoss(file, synced) /\ UNCHANGED <<synced, db>>
    BY <1>6 DEF PowerLoss, Dies
  <2>2. /\ FileOK(file', synced') /\ Keeps(file, file', synced)
        /\ SoundClaims(file') \subseteq SoundClaims(file)
    BY <2>1, PowerLossKeeps DEF Settled
  <2>3. Done' = Done
    BY <2>1 DEF Done, Written
  <2> QED BY <2>1, <2>2, <2>3, RestartSettles DEF AbstractStep
<1>7. CASE UNCHANGED vars
  BY <1>7, ElsewhereSettles DEF vars, writing, stable
<1> QED BY <1>1, <1>2, <1>3, <1>4, <1>5, <1>6, <1>7 DEF Next

LEMMA AbstractInit == Init => Abstract!Init
<1> SUFFICES ASSUME Init PROVE Abstract!Init
  OBVIOUS
<1>1. file = << >> /\ synced = 0 /\ db = {}
  BY DEF Init
<1>2. SoundClaims(<< >>) = {}
  BY EmptyFile
<1>3. SubSeq(<< >>, 1, 0) = << >>
  OBVIOUS
<1>4. \A n \in Names : ~ Written(n)
  <2>1. TAKE n \in Names
  <2>2. RowsOf[n][3] = {Node("Version", n)} /\ 3 \in 1 .. Steps
    BY RowsAt DEF Steps
  <2>3. Node("Version", n) \in AllRows[n]
    BY <2>2 DEF AllRows
  <2> QED BY <1>1, <2>3 DEF Written
<1> QED BY <1>1, <1>2, <1>3, <1>4 DEF Abstract!Init, DurableLines

LEMMA AbstractNext ==
    ASSUME IInv, IInv', Settled, Settled', AbstractStep
    PROVE  Abstract!Next \/ UNCHANGED <<Done, SoundClaims(file), SoundClaims(DurableLines)>>
<1> USE DEF Done, DurableLines
<1>1. Done' = {n \in Names : Written(n)'}
  OBVIOUS
<1>2. /\ SoundClaims(file) \subseteq Done /\ SoundClaims(file') \subseteq Done'
      /\ Done \subseteq Names /\ Done' \subseteq Names
  BY <1>1 DEF IInv, Sound, Honest
<1>3. CASE Done \subseteq Done' /\ UNCHANGED <<file, synced>>
  <2>1. Abstract!Write
    BY <1>2, <1>3 DEF Abstract!Write
  <2> QED BY <2>1 DEF Abstract!Next
<1>4. CASE Done' = Done /\ file' = file /\ synced' = Len(file)
  <2>1. SubSeq(file, 1, Len(file)) = file
    BY DEF IInv, Shape
  <2>2. Abstract!MakeDurable
    BY <1>4, <2>1 DEF Abstract!MakeDurable
  <2> QED BY <2>2 DEF Abstract!Next
<1>5. CASE /\ Done' = Done /\ synced' = synced /\ Keeps(file, file', synced)
           /\ \/ SoundClaims(file) \subseteq SoundClaims(file')
              \/ SoundClaims(file') \subseteq SoundClaims(file)
  <2>1. /\ SoundClaims(SubSeq(file', 1, synced)) = SoundClaims(SubSeq(file, 1, synced))
        /\ SoundClaims(SubSeq(file, 1, synced)) \subseteq SoundClaims(file')
    BY <1>5, DurableClaims DEF Settled
  <2>2. CASE SoundClaims(file) \subseteq SoundClaims(file')
    <3>1. Abstract!Claim
      BY <1>2, <1>5, <2>1, <2>2 DEF Abstract!Claim
    <3> QED BY <3>1 DEF Abstract!Next
  <2>3. CASE SoundClaims(file') \subseteq SoundClaims(file)
    <3>1. Abstract!Lose
      BY <1>2, <1>5, <2>1, <2>3 DEF Abstract!Lose
    <3> QED BY <3>1 DEF Abstract!Next
  <2> QED BY <1>5, <2>2, <2>3
<1> QED BY <1>3, <1>4, <1>5 DEF AbstractStep

\* checkpoint.go, the comment on File, with ingest.go: through any number of
\* runs, failures, kills and power losses a Record claims a name only when its
\* work is in the graph, a synced claim stays, and work is never undone.
THEOREM PassIsResumable == Spec => ImplementsResumablePass
<1>1. Init => IInv /\ Settled /\ Abstract!Init
  BY InitIInv, SettledInit, AbstractInit
<1>2. IInv /\ Settled /\ [Next]_vars => IInv' /\ Settled' /\ AbstractStep
  BY NextIInv, SettledStep
<1>3. IInv /\ IInv' /\ Settled /\ Settled' /\ AbstractStep
      => [Abstract!Next]_<<{n \in Names : Written(n)}, SoundClaims(file),
                           SoundClaims(DurableLines)>>
  BY AbstractNext DEF Done
<1> QED BY <1>1, <1>2, <1>3, PTL DEF Spec, ImplementsResumablePass, Abstract!Spec

-----------------------------------------------------------------------------
(* What a run does with the ranking.                                       *)

\* The names the feeder is done with when it is at position f.
Passed(f) == {Ranking[k] : k \in 1 .. f - 1}

Places == fetching \cup fetched \cup skipped \cup missing \cup ingested

Shaped ==
    /\ fed \in 1 .. Len(Ranking) + 1
    /\ fetching \in SUBSET Names
    /\ fetched \in SUBSET Names
    /\ gone \in Nat
    /\ held \in Seq(Names)
    /\ step \in Nat
    /\ writer \in {"receive", "write", "record"}

\* No name is in two places.
Apart ==
    /\ fetching \cap fetched = {} /\ fetching \cap skipped = {}
    /\ fetching \cap missing = {} /\ fetching \cap ingested = {}
    /\ fetched \cap skipped = {} /\ fetched \cap missing = {}
    /\ fetched \cap ingested = {}
    /\ skipped \cap missing = {} /\ skipped \cap ingested = {}
    /\ missing \cap ingested = {}

\* No name is lost before the context is cancelled.
Tracked ==
    /\ Places \subseteq Passed(fed)
    /\ ~ cancelled => Passed(fed) \subseteq Places /\ gone = 0
    /\ Held \subseteq ingested

\* How many names there are, and how many of them are with the workers.
Counted ==
    /\ IsFiniteSet(Passed(fed)) /\ Cardinality(Passed(fed)) = fed - 1
    /\ IsFiniteSet(Held) /\ Cardinality(Held) = Len(held)
    /\ Busy <= Fetchers

\* What was ingested is recorded, or held and still to be recorded.
Recorded ==
    \A n \in ingested :
        \/ n \in done
        \/ \E k \in 1 .. Len(held) :
              held[k] = n /\ (writer = "record" => step <= k)

\* Who has left, unless it was on the cancellation.
Closing ==
    /\ ~ feeding /\ ~ cancelled => fed = Len(Ranking) + 1
    /\ final /\ ~ cancelled => ~ feeding /\ fetching = {} /\ fetched = {}
    /\ phase = "ok" => final /\ held = << >>

Books == Shaped /\ Apart /\ Tracked /\ Counted /\ Recorded /\ Closing

-----------------------------------------------------------------------------
(* Counting.                                                               *)

\* What the feeder passes next is new: the ranking names nobody twice.
LEMMA PassedNext ==
    ASSUME NEW f \in 1 .. Len(Ranking)
    PROVE  /\ Ranking[f] \in Names
           /\ Ranking[f] \notin Passed(f)
           /\ Passed(f + 1) = Passed(f) \cup {Ranking[f]}
<1>1. Len(Ranking) \in Nat /\ Ranking[f] \in Names
  BY IngestAssumption
<1>2. \A k \in 1 .. f - 1 : k \in 1 .. Len(Ranking) /\ k # f
  BY <1>1
<1>3. Ranking[f] \notin Passed(f)
  BY <1>1, <1>2, IngestAssumption DEF Passed
<1>4. \A k : k \in 1 .. (f + 1) - 1 <=> k \in 1 .. f - 1 \/ k = f
  BY <1>1
<1> QED BY <1>1, <1>3, <1>4 DEF Passed

\* Everything that has been passed is ranked.
LEMMA PassedRanked ==
    ASSUME NEW f \in 1 .. Len(Ranking) + 1
    PROVE  /\ Passed(f) \subseteq Names
           /\ f = Len(Ranking) + 1 =>
                 Passed(f) = {Ranking[k] : k \in 1 .. Len(Ranking)}
<1>1. Len(Ranking) \in Nat /\ \A k \in 1 .. Len(Ranking) : Ranking[k] \in Names
  BY IngestAssumption
<1>2. \A k \in 1 .. f - 1 : k \in 1 .. Len(Ranking)
  BY <1>1
<1>3. f = Len(Ranking) + 1 => f - 1 = Len(Ranking)
  BY <1>1
<1> QED BY <1>1, <1>2, <1>3 DEF Passed

\* A set that lost a member, and one that gained one.
LEMMA OneLess ==
    ASSUME NEW S, NEW x \in S, IsFiniteSet(S)
    PROVE  Cardinality(S) \in Nat /\ Cardinality(S \ {x}) = Cardinality(S) - 1
BY FS_RemoveElement, FS_CardinalityType

LEMMA OneMore ==
    ASSUME NEW S, NEW x, x \notin S, IsFiniteSet(S)
    PROVE  /\ IsFiniteSet(S \cup {x})
           /\ Cardinality(S) \in Nat
           /\ Cardinality(S \cup {x}) = Cardinality(S) + 1
BY FS_AddElement, FS_CardinalityType

\* The places of names are finite sets.
LEMMA PlacesFinite ==
    ASSUME Tracked, Counted
    PROVE  \A S \in SUBSET Places : IsFiniteSet(S) /\ Cardinality(S) \in Nat
<1>1. TAKE S \in SUBSET Places
<1>2. S \in SUBSET Passed(fed)
  BY DEF Tracked
<1>3. IsFiniteSet(S)
  BY <1>2, FS_Subset DEF Counted
<1> QED BY <1>3, FS_CardinalityType

\* The feeder's own and the process's beginning: nothing is anywhere.
LEMMA NothingYet ==
    ASSUME ~ cancelled, fed = 1, feeding, fetching = {}, fetched = {},
           skipped = {}, missing = {}, ingested = {}, gone = 0,
           writer = "receive", ~ final, held = << >>, step = 1, phase # "ok"
    PROVE  Books
<1>1. Passed(1) = {}
  BY DEF Passed
<1>2. Held = {} /\ Len(held) = 0 /\ held \in Seq(Names)
  BY DEF Held
<1>3. IsFiniteSet({}) /\ Cardinality({}) = 0
  BY FS_EmptySet
<1>4. Busy = 0 /\ Fetchers \in Nat /\ Len(Ranking) \in Nat
  BY <1>3, IngestAssumption DEF Busy
<1>5. Shaped /\ Apart
  BY <1>2, <1>4 DEF Shaped, Apart
<1>6. Tracked /\ Closing
  BY <1>1, <1>2 DEF Tracked, Closing, Places
<1>7. Counted
  <2>1. Passed(fed) = {} /\ fed - 1 = 0
    BY <1>1
  <2>2. IsFiniteSet(Passed(fed)) /\ Cardinality(Passed(fed)) = fed - 1
    BY <1>3, <2>1
  <2>3. Busy <= Fetchers
    BY <1>4
  <2> QED BY <1>2, <1>3, <2>2, <2>3 DEF Counted
<1> QED BY <1>5, <1>6, <1>7 DEF Books, Recorded

-----------------------------------------------------------------------------
(* The feeder and the workers.  They leave the writer's names, and the     *)
(* checkpoint, alone.                                                      *)

\* The parts of the books that are about the writer only.
LEMMA WriterUntouched ==
    ASSUME Books, UNCHANGED <<held, step, writer, ingested, done>>
    PROVE  /\ Recorded'
           /\ Held' = Held
           /\ IsFiniteSet(Held)' /\ (Cardinality(Held) = Len(held))'
           /\ (Held \subseteq ingested)'
BY DEF Books, Recorded, Held, Counted, Tracked

LEMMA SkipKeepsBooks == ASSUME Books, Skip PROVE Books'
<1> DEFINE n == Ranking[fed]
<1>1. /\ fed \in 1 .. Len(Ranking) /\ fed' = fed + 1
      /\ skipped' = skipped \cup {n}
      /\ feeding
      /\ UNCHANGED <<phase, cancelled, feeding, fetching, fetched, missing, gone,
                     writer, final, held, step, ingested, done>>
  BY DEF Skip, Books, Shaped, workers, writing
<1>2. n \notin Passed(fed) /\ Passed(fed') = Passed(fed) \cup {n}
  BY <1>1, PassedNext
<1>3. n \notin Places
  BY <1>2 DEF Books, Tracked
<1>4. Places' = Places \cup {n}
  BY <1>1 DEF Places
<1>5. Shaped'
  BY <1>1 DEF Books, Shaped
<1>6. Apart'
  BY <1>1, <1>3 DEF Books, Apart, Places
<1>7. Tracked'
  BY <1>1, <1>2, <1>4, WriterUntouched DEF Books, Tracked
<1>8. Counted'
  <2>1. /\ IsFiniteSet(Passed(fed')) /\ Cardinality(Passed(fed')) = fed' - 1
    <3>1. /\ IsFiniteSet(Passed(fed) \cup {n})
          /\ Cardinality(Passed(fed) \cup {n}) = (fed - 1) + 1
      BY <1>2, OneMore DEF Books, Counted
    <3>2. /\ IsFiniteSet(Passed(fed'))
          /\ Cardinality(Passed(fed')) = (fed - 1) + 1
      BY <1>2, <3>1
    <3>3. fed' - 1 = (fed - 1) + 1
      BY <1>1
    <3> QED BY <3>2, <3>3
  <2>2. (Busy <= Fetchers)'
    BY <1>1 DEF Books, Counted, Busy
  <2> QED BY <1>1, <2>1, <2>2, WriterUntouched DEF Counted
<1>9. Closing'
  BY <1>1 DEF Books, Closing
<1> QED BY <1>1, <1>5, <1>6, <1>7, <1>8, <1>9, WriterUntouched DEF Books

LEMMA FeedKeepsBooks == ASSUME Books, Feed PROVE Books'
<1> DEFINE n == Ranking[fed]
<1>1. /\ fed \in 1 .. Len(Ranking) /\ fed' = fed + 1
      /\ fetching' = fetching \cup {n}
      /\ feeding /\ Busy < Fetchers
      /\ UNCHANGED <<phase, cancelled, feeding, skipped, fetched, missing, gone,
                     writer, final, held, step, ingested, done>>
  BY DEF Feed, Books, Shaped, writing
<1>2. n \in Names /\ n \notin Passed(fed) /\ Passed(fed') = Passed(fed) \cup {n}
  BY <1>1, PassedNext
<1>3. n \notin Places
  BY <1>2 DEF Books, Tracked
<1>4. Places' = Places \cup {n}
  BY <1>1 DEF Places
<1>5. Shaped'
  BY <1>1, <1>2 DEF Books, Shaped
<1>6. Apart'
  BY <1>1, <1>3 DEF Books, Apart, Places
<1>7. Tracked'
  BY <1>1, <1>2, <1>4, WriterUntouched DEF Books, Tracked
<1>8. Counted'
  <2>1. /\ IsFiniteSet(Passed(fed')) /\ Cardinality(Passed(fed')) = fed' - 1
    <3>1. /\ IsFiniteSet(Passed(fed) \cup {n})
          /\ Cardinality(Passed(fed) \cup {n}) = (fed - 1) + 1
      BY <1>2, OneMore DEF Books, Counted
    <3>2. /\ IsFiniteSet(Passed(fed'))
          /\ Cardinality(Passed(fed')) = (fed - 1) + 1
      BY <1>2, <3>1
    <3>3. fed' - 1 = (fed - 1) + 1
      BY <1>1
    <3> QED BY <3>2, <3>3
  <2>2. /\ IsFiniteSet(fetching) /\ n \notin fetching
        /\ Cardinality(fetched) \in Nat /\ gone \in Nat /\ Fetchers \in Nat
    BY <1>3, PlacesFinite, IngestAssumption DEF Books, Places, Shaped
  <2>3. Cardinality(fetching') = Cardinality(fetching) + 1
        /\ Cardinality(fetching) \in Nat
    BY <1>1, <2>2, OneMore
  <2>4. (Busy <= Fetchers)'
    BY <1>1, <2>2, <2>3 DEF Busy
  <2> QED BY <1>1, <2>1, <2>4, WriterUntouched DEF Counted
<1>9. Closing'
  BY <1>1 DEF Books, Closing
<1> QED BY <1>1, <1>5, <1>6, <1>7, <1>8, <1>9, WriterUntouched DEF Books

LEMMA FeederEndsKeepsBooks == ASSUME Books, FeederEnds PROVE Books'
<1>1. /\ feeding' = FALSE
      /\ fed > Len(Ranking) \/ cancelled
      /\ UNCHANGED <<phase, cancelled, fed, fetching, fetched, skipped, missing, gone,
                     writer, final, held, step, ingested, done>>
      /\ feeding
  BY DEF FeederEnds, workers, writing
<1>2. Shaped' /\ Apart' /\ Tracked' /\ Recorded'
  BY <1>1 DEF Books, Shaped, Apart, Tracked, Recorded, Places, Held
<1>3. Counted'
  BY <1>1 DEF Books, Counted, Busy, Held
<1>4. fed > Len(Ranking) => fed = Len(Ranking) + 1
  BY IngestAssumption DEF Books, Shaped
<1>5. Closing'
  BY <1>1, <1>4 DEF Books, Closing
<1> QED BY <1>2, <1>3, <1>5 DEF Books

\* A name leaves the workers' hands for another place: the places together
\* stay what they were, and no more workers are busy.
LEMMA WorkerKeepsBooks == ASSUME Books, NEW n \in Names, Worker(n) PROVE Books'
<1>1. /\ UNCHANGED <<phase, cancelled, fed, feeding, skipped,
                     writer, final, held, step, ingested, done>>
  BY DEF Worker, FetchSucceeds, FetchFails, DropRows, feeder, writing
<1>2. /\ IsFiniteSet(fetching) /\ IsFiniteSet(fetched)
      /\ Cardinality(fetching) \in Nat /\ Cardinality(fetched) \in Nat
      /\ gone \in Nat /\ Fetchers \in Nat
  BY PlacesFinite, IngestAssumption DEF Books, Places, Shaped
<1>3. ASSUME Shaped', Apart', Places' \subseteq Places,
             ~ cancelled => Places' = Places /\ gone' = 0,
             (Busy <= Fetchers)',
             fetching = {} => fetching' = {},
             fetching = {} /\ fetched = {} => fetched' = {}
      PROVE  Books'
  <2>1. Tracked'
    BY <1>1, <1>3, WriterUntouched DEF Books, Tracked
  <2>2. Counted'
    BY <1>1, <1>3, WriterUntouched DEF Books, Counted
  <2>3. Closing'
    BY <1>1, <1>3 DEF Books, Closing
  <2> QED BY <1>1, <1>3, <2>1, <2>2, <2>3, WriterUntouched DEF Books
<1>4. CASE FetchSucceeds(n)
  <2>1. /\ n \in fetching /\ fetching' = fetching \ {n}
        /\ fetched' = fetched \cup {n}
        /\ UNCHANGED <<missing, gone>>
    BY <1>4 DEF FetchSucceeds
  <2>2. n \notin fetched
    BY <2>1 DEF Books, Apart
  <2>3. Shaped' /\ Apart'
    BY <1>1, <2>1 DEF Books, Shaped, Apart
  <2>4. Places' = Places
    BY <1>1, <2>1 DEF Places
  <2>5. /\ Cardinality(fetching') = Cardinality(fetching) - 1
        /\ Cardinality(fetched') = Cardinality(fetched) + 1
    BY <1>2, <2>1, <2>2, OneLess, OneMore
  <2>6. (Busy <= Fetchers)'
    BY <1>2, <2>1, <2>5 DEF Busy, Books, Counted
  <2> QED BY <1>3, <2>1, <2>3, <2>4, <2>6 DEF Books, Tracked
<1>5. CASE FetchFails(n)
  <2>1. /\ n \in fetching /\ fetching' = fetching \ {n}
        /\ missing' = missing \cup {n}
        /\ UNCHANGED <<fetched, gone>>
    BY <1>5 DEF FetchFails
  <2>2. Shaped' /\ Apart'
    BY <1>1, <2>1 DEF Books, Shaped, Apart
  <2>3. Places' = Places
    BY <1>1, <2>1 DEF Places
  <2>4. Cardinality(fetching') = Cardinality(fetching) - 1
    BY <1>2, <2>1, OneLess
  <2>5. (Busy <= Fetchers)'
    BY <1>2, <2>1, <2>4 DEF Busy, Books, Counted
  <2> QED BY <1>3, <2>1, <2>2, <2>3, <2>5 DEF Books, Tracked
<1>6. CASE DropRows(n)
  <2>1. /\ cancelled /\ n \in fetched /\ fetched' = fetched \ {n}
        /\ gone' = gone + 1
        /\ UNCHANGED <<fetching, missing>>
    BY <1>6 DEF DropRows
  <2>2. Shaped' /\ Apart'
    BY <1>1, <2>1 DEF Books, Shaped, Apart
  <2>3. Places' \subseteq Places
    BY <1>1, <2>1 DEF Places
  <2>4. Cardinality(fetched') = Cardinality(fetched) - 1
    BY <1>2, <2>1, OneLess
  <2>5. (Busy <= Fetchers)'
    BY <1>2, <2>1, <2>4 DEF Busy, Books, Counted
  <2> QED BY <1>3, <2>1, <2>2, <2>3, <2>5
<1> QED BY <1>4, <1>5, <1>6 DEF Worker

-----------------------------------------------------------------------------
(* The writer.                                                             *)

LEMMA ReceiveKeepsBooks == ASSUME Books, NEW n \in fetched, Receive(n) PROVE Books'
<1>1. /\ fetched' = fetched \ {n}
      /\ held' = Append(held, n)
      /\ ingested' = ingested \cup {n}
      /\ writer' \in {"receive", "write"}
      /\ writer = "receive" /\ ~ final /\ phase = "running"
      /\ UNCHANGED <<phase, cancelled, fed, feeding, skipped, fetching, missing, gone,
                     final, step, done>>
  BY DEF Receive, Running, feeder
<1>2. /\ n \in Names /\ n \notin ingested /\ n \notin Held
      /\ held \in Seq(Names) /\ Len(held) \in Nat
  BY DEF Books, Shaped, Apart, Tracked
<1>3. /\ held' \in Seq(Names) /\ Len(held') = Len(held) + 1
      /\ \A k \in 1 .. Len(held) : held'[k] = held[k]
      /\ held'[Len(held) + 1] = n
  BY <1>1, <1>2
<1>4. Held' = Held \cup {n}
  <2>1. \A k : k \in 1 .. Len(held') <=> k \in 1 .. Len(held) \/ k = Len(held) + 1
    BY <1>2, <1>3
  <2> QED BY <1>3, <2>1 DEF Held
<1>5. Shaped'
  BY <1>1, <1>3 DEF Books, Shaped
<1>6. Apart'
  BY <1>1 DEF Books, Apart
<1>7. Places' = Places
  BY <1>1 DEF Places
<1>8. Tracked'
  BY <1>1, <1>4, <1>7 DEF Books, Tracked
<1>9. Counted'
  <2>1. IsFiniteSet(Held') /\ Cardinality(Held') = Len(held')
    BY <1>2, <1>3, <1>4, OneMore DEF Books, Counted
  <2>2. /\ IsFiniteSet(fetched) /\ Cardinality(fetching) \in Nat
        /\ gone \in Nat /\ Fetchers \in Nat
    BY PlacesFinite, IngestAssumption DEF Books, Places, Shaped
  <2>3. /\ Cardinality(fetched') = Cardinality(fetched) - 1
        /\ Cardinality(fetched) \in Nat
    BY <1>1, <2>2, OneLess
  <2>4. (Busy <= Fetchers)'
    BY <1>1, <2>2, <2>3 DEF Busy, Books, Counted
  <2> QED BY <1>1, <2>1, <2>4 DEF Books, Counted
<1>10. Recorded'
  <2>1. \A k \in 1 .. Len(held) : k \in 1 .. Len(held')
    BY <1>2, <1>3
  <2>2. Len(held) + 1 \in 1 .. Len(held')
    BY <1>2, <1>3
  <2>3. writer' # "record"
    BY <1>1
  <2> QED BY <1>1, <1>3, <2>1, <2>2, <2>3 DEF Books, Recorded
<1>11. Closing'
  BY <1>1 DEF Books, Closing
<1> QED BY <1>5, <1>6, <1>8, <1>9, <1>10, <1>11 DEF Books

\* When the channel closes without a cancellation, nobody holds a name.
LEMMA ChannelClosesKeepsBooks == ASSUME Books, ChannelCloses PROVE Books'
<1>1. /\ final' = TRUE /\ writer = "receive" /\ AllReturned
      /\ writer' \in {"receive", "write"}
      /\ phase' = "ok" => held = << >> \/ phase = "ok"
      /\ phase = "running"
      /\ UNCHANGED <<cancelled, fed, feeding, skipped, fetching, fetched, missing,
                     gone, held, step, ingested, done>>
  BY DEF ChannelCloses, Running, feeder, workers
<1>2. Shaped' /\ Apart' /\ Tracked' /\ Recorded'
  BY <1>1 DEF Books, Shaped, Apart, Tracked, Recorded, Places, Held
<1>3. Counted'
  BY <1>1 DEF Books, Counted, Busy, Held
<1>4. ~ cancelled => ~ feeding /\ fetching = {} /\ fetched = {}
  <2>1. Fetchers # 0
    BY IngestAssumption
  <2> QED BY <1>1, <2>1 DEF AllReturned, Books, Tracked
<1>5. Closing'
  BY <1>1, <1>4 DEF Books, Closing
<1> QED BY <1>2, <1>3, <1>5 DEF Books

LEMMA WriteStepKeepsBooks == ASSUME Books, WriteStep PROVE Books'
<1>1. /\ writer = "write" /\ phase = "running"
      /\ step' \in Nat
      /\ \/ writer' = "write"
         \/ writer' = "record" /\ step' = 1
      /\ UNCHANGED <<phase, cancelled, fed, feeding, skipped, fetching, fetched, missing,
                     gone, final, held, ingested, done>>
  BY DEF WriteStep, Running, feeder, workers, Books, Shaped
<1>2. Shaped' /\ Apart' /\ Tracked' /\ Closing'
  BY <1>1 DEF Books, Shaped, Apart, Tracked, Closing, Places, Held
<1>3. Counted'
  BY <1>1 DEF Books, Counted, Busy, Held
<1>4. Recorded'
  <2>1. \A k \in 1 .. Len(held) : 1 <= k
    OBVIOUS
  <2> QED BY <1>1, <2>1 DEF Books, Recorded
<1> QED BY <1>2, <1>3, <1>4 DEF Books

LEMMA RecordNameKeepsBooks == ASSUME Books, RecordName PROVE Books'
<1>1. /\ writer = "record" /\ phase = "running"
      /\ done' = done \cup {held[step]}
      /\ step' = step + 1 /\ step \in Nat
      /\ UNCHANGED <<phase, cancelled, fed, feeding, skipped, fetching, fetched, missing,
                     gone, writer, final, held, ingested>>
  BY DEF RecordName, Running, feeder, workers, Books, Shaped
<1>2. Shaped' /\ Apart' /\ Tracked' /\ Closing'
  BY <1>1 DEF Books, Shaped, Apart, Tracked, Closing, Places, Held
<1>3. Counted'
  BY <1>1 DEF Books, Counted, Busy, Held
<1>4. Recorded'
  <2>1. SUFFICES ASSUME NEW n \in ingested, n \notin done'
                 PROVE  \E k \in 1 .. Len(held) : held[k] = n /\ step + 1 <= k
    BY <1>1 DEF Recorded
  <2>2. PICK k \in 1 .. Len(held) : held[k] = n /\ step <= k
    BY <1>1, <2>1 DEF Books, Recorded
  <2>3. k # step
    BY <1>1, <2>1, <2>2
  <2>4. step + 1 <= k
    BY <1>1, <2>2, <2>3
  <2> QED BY <2>2, <2>4
<1> QED BY <1>2, <1>3, <1>4 DEF Books

\* Once the file is synced, everything that was received is recorded.
LEMMA SyncFileKeepsBooks == ASSUME Books, SyncFile PROVE Books'
<1>1. /\ writer = "record" /\ step > Len(held) /\ step \in Nat
      /\ held' = << >> /\ step' = 1 /\ writer' = "receive"
      /\ phase' = IF final THEN "ok" ELSE phase
      /\ phase = "running"
      /\ UNCHANGED <<cancelled, fed, feeding, skipped, fetching, fetched, missing,
                     gone, final, ingested, done>>
  BY DEF SyncFile, Running, feeder, workers, Books, Shaped
<1>2. Held' = {} /\ Len(held') = 0 /\ held' \in Seq(Names)
  BY <1>1 DEF Held
<1>3. Shaped' /\ Apart' /\ Tracked' /\ Closing'
  BY <1>1, <1>2 DEF Books, Shaped, Apart, Tracked, Closing, Places
<1>4. Counted'
  BY <1>1, <1>2, FS_EmptySet DEF Books, Counted, Busy
<1>5. \A n \in ingested : n \in done
  <2>1. \A k \in 1 .. Len(held) : ~ (step <= k)
    BY <1>1 DEF Books, Shaped
  <2> QED BY <1>1, <2>1 DEF Books, Recorded
<1> QED BY <1>1, <1>3, <1>4, <1>5 DEF Books, Recorded

-----------------------------------------------------------------------------
(* The whole, and what it says.                                            *)

\* The process is gone, or has just been started.
LEMMA RestartKeepsBooks == ASSUME Volatile, phase' # "ok" PROVE Books'
<1>1. ASSUME Volatile, phase' # "ok"
      PROVE  /\ (~ cancelled)' /\ (fed = 1)' /\ feeding' /\ (fetching = {})'
             /\ (fetched = {})' /\ (skipped = {})' /\ (missing = {})'
             /\ (ingested = {})' /\ (gone = 0)' /\ (writer = "receive")'
             /\ (~ final)' /\ (held = << >>)' /\ (step = 1)' /\ (phase # "ok")'
  BY <1>1 DEF Volatile
<1> QED BY <1>1, NothingYet, PTL

LEMMA BooksInit == Init => Books
BY NothingYet DEF Init

LEMMA BooksStep == ASSUME Books, [Next]_vars PROVE Books'
<1>1. CASE Feeder
  BY <1>1, SkipKeepsBooks, FeedKeepsBooks, FeederEndsKeepsBooks DEF Feeder
<1>2. CASE \E n \in Names : Worker(n)
  BY <1>2, WorkerKeepsBooks
<1>3. CASE WriteFails \/ RecordFails \/ SyncFails \/ Kill \/ PowerLoss
  <2>1. Volatile /\ phase' # "ok"
    BY <1>3 DEF WriteFails, RecordFails, SyncFails, Kill, PowerLoss, Dies
  <2> QED BY <2>1, RestartKeepsBooks
<1>4. CASE Start
  <2>1. Volatile /\ phase' # "ok"
    BY <1>4 DEF Start
  <2> QED BY <2>1, RestartKeepsBooks
<1>5. CASE Cancel
  <2>1. /\ cancelled' /\ phase' = phase
        /\ UNCHANGED <<fed, feeding, skipped, fetching, fetched, missing, gone,
                       writer, final, held, step, ingested, done>>
    BY <1>5 DEF Cancel, feeder, workers, writing
  <2>2. Shaped' /\ Apart' /\ Tracked' /\ Closing' /\ Recorded'
    BY <2>1 DEF Books, Shaped, Apart, Tracked, Closing, Recorded, Places, Held
  <2>3. Counted'
    BY <2>1 DEF Books, Counted, Busy, Held
  <2> QED BY <2>2, <2>3 DEF Books
<1>6. CASE UNCHANGED vars
  <2>1. UNCHANGED <<phase, cancelled, fed, feeding, skipped, fetching, fetched, missing,
                    gone, writer, final, held, step, ingested, done>>
    BY <1>6 DEF vars, feeder, workers, writing
  <2>2. Shaped' /\ Apart' /\ Tracked' /\ Closing' /\ Recorded'
    BY <2>1 DEF Books, Shaped, Apart, Tracked, Closing, Recorded, Places, Held
  <2>3. Counted'
    BY <2>1 DEF Books, Counted, Busy, Held
  <2> QED BY <2>2, <2>3 DEF Books
<1>7. CASE Writer
  BY <1>3, <1>7, ReceiveKeepsBooks, ChannelClosesKeepsBooks, WriteStepKeepsBooks,
     RecordNameKeepsBooks, SyncFileKeepsBooks DEF Writer
<1> QED BY <1>1, <1>2, <1>3, <1>4, <1>5, <1>6, <1>7 DEF Next

LEMMA BooksHandOver == Books => HandOver
<1> SUFFICES ASSUME Books PROVE HandOver
  OBVIOUS
<1> DEFINE place == <<fetching, fetched, skipped, missing, ingested>>
<1>1. /\ place[1] = fetching /\ place[2] = fetched /\ place[3] = skipped
      /\ place[4] = missing /\ place[5] = ingested
  OBVIOUS
<1>2. \A j \in 1 .. 5 : j = 1 \/ j = 2 \/ j = 3 \/ j = 4 \/ j = 5
  OBVIOUS
<1> HIDE DEF place
<1>3. \A j, k \in 1 .. 5 : j # k => place[j] \cap place[k] = {}
  BY <1>1, <1>2 DEF Books, Apart
<1> QED BY <1>3 DEF HandOver, Books, Tracked, Counted, place

\* Three sets that are apart and together are S share its members.
LEMMA ThreeShares ==
    ASSUME NEW S, IsFiniteSet(S), NEW A, NEW B, NEW C, A \cup B \cup C = S,
           A \cap B = {}, A \cap C = {}, B \cap C = {}
    PROVE  Cardinality(A) + Cardinality(B) + Cardinality(C) = Cardinality(S)
<1>1. IsFiniteSet(A) /\ IsFiniteSet(B) /\ IsFiniteSet(C)
  BY FS_Subset
<1>2. /\ Cardinality(A) \in Nat /\ Cardinality(B) \in Nat /\ Cardinality(C) \in Nat
  BY <1>1, FS_CardinalityType
<1>3. /\ IsFiniteSet(A \cup B)
      /\ Cardinality(A \cup B) = Cardinality(A) + Cardinality(B)
  BY <1>1, <1>2, FS_Union, FS_EmptySet
<1>4. (A \cup B) \cap C = {}
  OBVIOUS
<1>5. Cardinality((A \cup B) \cup C) = Cardinality(A \cup B) + Cardinality(C)
  BY <1>1, <1>2, <1>3, <1>4, FS_Union, FS_EmptySet
<1> QED BY <1>3, <1>5

LEMMA BooksAccount == Books => RunAccountsForAll
<1> DEFINE ranked == {Ranking[k] : k \in 1 .. Len(Ranking)}
<1> SUFFICES ASSUME Books, phase = "ok", ~ cancelled
             PROVE  /\ skipped \cup missing \cup ingested = ranked
                    /\ Cardinality(skipped) + Cardinality(missing)
                         + Cardinality(ingested) = Len(Ranking)
                    /\ held = << >>
                    /\ ingested \subseteq done
  BY DEF RunAccountsForAll
<1>1. /\ fetching = {} /\ fetched = {} /\ fed = Len(Ranking) + 1 /\ held = << >>
  BY DEF Books, Closing
<1>2. Passed(fed) = ranked
  BY <1>1, PassedRanked DEF Books, Shaped
<1>3. skipped \cup missing \cup ingested = Passed(fed)
  BY <1>1 DEF Books, Tracked, Places
<1>4. /\ skipped \cap missing = {} /\ skipped \cap ingested = {}
      /\ missing \cap ingested = {}
  BY DEF Books, Apart
<1>5. IsFiniteSet(Passed(fed)) /\ Cardinality(Passed(fed)) = Len(Ranking)
  <2>1. Len(Ranking) \in Nat
    BY IngestAssumption
  <2> QED BY <1>1, <2>1 DEF Books, Counted
<1>6. Cardinality(skipped) + Cardinality(missing) + Cardinality(ingested)
        = Len(Ranking)
  BY <1>3, <1>4, <1>5, ThreeShares
<1>7. ingested \subseteq done
  <2>1. Len(held) = 0
    BY <1>1
  <2> QED BY <2>1 DEF Books, Recorded
<1> QED BY <1>1, <1>2, <1>3, <1>6, <1>7

\* ingest.go, Run: a run that ends without an error and was not interrupted
\* has skipped, missed or ingested every name of the ranking, each in one way
\* only, and has recorded all it ingested, the last batch included.
THEOREM RunAccounts == Spec => []RunAccountsForAll
<1>1. Books /\ [Next]_vars => Books'
  BY BooksStep
<1> QED BY <1>1, BooksInit, BooksAccount, PTL DEF Spec

\* ingest.go, Run and writeLoop: no more names than there are fetchers are
\* between the feeder and the writer, and no name is in two hands at once.
THEOREM NamesChangeHands == Spec => []HandOver
<1>1. Books /\ [Next]_vars => Books'
  BY BooksStep
<1> QED BY <1>1, BooksInit, BooksHandOver, PTL DEF Spec

-----------------------------------------------------------------------------
(* What a restart repeats: no name that is recorded, and of those a run    *)
(* received and is done with one at most.                                  *)

\* No worker has a name that was recorded, or that this run takes for recorded.
RecordedStaysAway == (fetching \cup fetched) \cap (SoundClaims(file) \cup done) = {}

\* The names that the run received, recorded and dropped from memory although
\* no synced line claims them.
Lost == ingested \ (Held \cup SoundClaims(DurableLines))

LittleIsLost == \A m, n \in Lost : m = n

\* The names of this run whose line joined a torn one.
Spoiled == (ingested \cap done) \ SoundClaims(file)

Ledger ==
    /\ Running => SoundClaims(file) \subseteq done
    /\ RecordedStaysAway
    /\ ingested \cap done \subseteq Done
    /\ EndsTorn(file) => ingested \cap done = {}
    /\ \A m, n \in Spoiled : m = n
    /\ ingested \ Held \subseteq SoundClaims(DurableLines) \cup Spoiled

LEMMA LedgerInit == Init => Ledger
<1> SUFFICES ASSUME Init PROVE Ledger
  OBVIOUS
<1>1. SoundClaims(<< >>) = {}
  BY EmptyFile
<1> QED BY <1>1 DEF Init, Ledger, RecordedStaysAway, Spoiled

\* The process is gone, or has just been started.
LEMMA RestartKeepsLedger ==
    ASSUME Volatile, Running' => SoundClaims(file') \subseteq done'
    PROVE  Ledger'
<1>1. fetching' = {} /\ fetched' = {} /\ ingested' = {}
  BY DEF Volatile
<1>2. RecordedStaysAway' /\ Spoiled' = {}
  BY <1>1 DEF RecordedStaysAway, Spoiled
<1> QED BY <1>1, <1>2 DEF Ledger

\* The writer is not involved, or has not come to record yet.
LEMMA ElsewhereKeepsLedger ==
    ASSUME Ledger, UNCHANGED <<file, synced, done>>, Running' => Running, db \subseteq db',
           ingested' \cap done = ingested \cap done,
           ingested' \ Held' \subseteq ingested \ Held,
           \A n \in fetching' \cup fetched' :
              n \in fetching \cup fetched \/ n \notin SoundClaims(file) \cup done
    PROVE  Ledger'
<1>1. /\ SoundClaims(file)' = SoundClaims(file)
      /\ SoundClaims(DurableLines)' = SoundClaims(DurableLines)
      /\ Done \subseteq Done'
  BY WrittenStays DEF DurableLines
<1>2. Spoiled' = Spoiled
  BY <1>1 DEF Spoiled
<1>3. RecordedStaysAway'
  BY <1>1 DEF Ledger, RecordedStaysAway
<1> QED BY <1>1, <1>2, <1>3 DEF Ledger

LEMMA RecordNameKeepsLedger ==
    ASSUME IInv, Settled, Books, Ledger, RecordName
    PROVE  Ledger'
<1> DEFINE n == held[step]
<1>1. /\ Running /\ step \in 1 .. Len(held)
      /\ file' = WriteLine(file, n)
      /\ done' = done \cup {n}
      /\ writer = "record"
      /\ UNCHANGED <<fetching, fetched, held, ingested, synced, phase, db>>
  BY DEF RecordName, workers, IInv, Shape
<1>2. /\ n \in Held /\ n \in Names /\ n \in ingested
      /\ n \notin fetching \cup fetched
      /\ n \in Done
  BY <1>1 DEF Held, Books, Shaped, Tracked, Apart, IInv, Progress, Done
<1> HIDE DEF n
<1>3. FileOK(file, synced)
  BY DEF Settled
<1>4. /\ FileOK(file', synced) /\ Keeps(file, file', synced)
      /\ ~ EndsTorn(file')
      /\ SoundClaims(file') = SoundClaims(file) \cup IF EndsTorn(file) THEN {} ELSE {n}
  BY <1>1, <1>2, <1>3, WriteLineKeeps
<1>5. SoundClaims(DurableLines') = SoundClaims(DurableLines)
  BY <1>1, <1>3, <1>4, DurableClaims DEF DurableLines
<1>6. Held' = Held /\ Done' = Done
  BY <1>1 DEF Held, Done, Written
<1>7. /\ RecordedStaysAway'
      /\ ingested' \cap done' \subseteq Done'
      /\ Running' => SoundClaims(file') \subseteq done'
  BY <1>1, <1>2, <1>4, <1>6 DEF Ledger, RecordedStaysAway, Running
<1>8. CASE EndsTorn(file)
  <2>1. ingested' \cap done' = {n}
    BY <1>1, <1>2, <1>8 DEF Ledger
  <2>2. Spoiled = {} /\ Spoiled' \subseteq {n}
    BY <1>8, <2>1 DEF Ledger, Spoiled
  <2> QED BY <1>1, <1>4, <1>5, <1>6, <1>7, <2>2 DEF Ledger
<1>9. CASE ~ EndsTorn(file)
  <2>1. Spoiled' \subseteq Spoiled /\ Spoiled \ Held \subseteq Spoiled'
    BY <1>1, <1>2, <1>4, <1>9 DEF Spoiled
  <2> QED BY <1>1, <1>4, <1>5, <1>6, <1>7, <2>1 DEF Ledger
<1> QED BY <1>8, <1>9

\* Once a sync returned, every line of the file is durable.
LEMMA SyncFileKeepsLedger ==
    ASSUME IInv, Books, Ledger, SyncFile
    PROVE  Ledger'
<1>1. /\ Running /\ writer = "record" /\ step > Len(held)
      /\ synced' = Len(file) /\ held' = << >>
      /\ UNCHANGED <<fetching, fetched, ingested, done, file, db>>
  BY DEF SyncFile, workers
<1>2. ingested \subseteq done
  <2>1. \A k \in 1 .. Len(held) : ~ (step <= k)
    BY <1>1 DEF Books, Shaped
  <2> QED BY <1>1, <2>1 DEF Books, Recorded
<1>3. SoundClaims(DurableLines)' = SoundClaims(file) /\ Done' = Done
  <2>1. SubSeq(file, 1, Len(file)) = file
    BY DEF IInv, Shape
  <2> QED BY <1>1, <2>1 DEF DurableLines, Done, Written
<1>4. Spoiled' = Spoiled /\ ingested \subseteq SoundClaims(file) \cup Spoiled
  BY <1>1, <1>2 DEF Spoiled
<1> QED BY <1>1, <1>3, <1>4 DEF Ledger, RecordedStaysAway

LEMMA LedgerStep ==
    ASSUME IInv, Settled, Books, Ledger, [Next]_vars
    PROVE  Ledger'
<1>1. CASE Feeder
  <2>1. UNCHANGED <<file, synced, done, db, phase, held, ingested, fetched>>
    BY <1>1 DEF Feeder, Skip, Feed, FeederEnds, writing, stable, workers
  <2>2. \A n \in fetching' : n \in fetching \/ n \notin SoundClaims(file) \cup done
    BY <1>1 DEF Feeder, Skip, Feed, FeederEnds, workers, Ledger
  <2> QED BY <2>1, <2>2, ElsewhereKeepsLedger DEF Running, Held
<1>2. CASE \E n \in Names : Worker(n)
  <2>1. UNCHANGED <<file, synced, done, db, phase, held, ingested>>
    BY <1>2 DEF Worker, FetchSucceeds, FetchFails, DropRows, writing, stable
  <2>2. fetching' \cup fetched' \subseteq fetching \cup fetched
    BY <1>2 DEF Worker, FetchSucceeds, FetchFails, DropRows
  <2> QED BY <2>1, <2>2, ElsewhereKeepsLedger DEF Running, Held
<1>3. CASE \E n \in fetched : Receive(n)
  <2>1. PICK n \in fetched : Receive(n)
    BY <1>3
  <2>2. /\ UNCHANGED <<file, synced, done, db, phase, fetching>>
        /\ fetched' \subseteq fetched
        /\ ingested' = ingested \cup {n}
        /\ held' = Append(held, n) /\ held \in Seq(Names) /\ n \in Names
    BY <2>1 DEF Receive, stable, IInv, Shape
  <2>3. Held' = Held \cup {n}
    <3>1. /\ Len(held) \in Nat /\ Len(held') = Len(held) + 1
          /\ \A k \in 1 .. Len(held) : held'[k] = held[k]
          /\ held'[Len(held) + 1] = n
      BY <2>2
    <3>2. \A k : k \in 1 .. Len(held') <=> k \in 1 .. Len(held) \/ k = Len(held) + 1
      BY <3>1
    <3> QED BY <3>1, <3>2 DEF Held
  <2>4. n \notin done
    BY <2>1 DEF Ledger, RecordedStaysAway
  <2> QED BY <2>2, <2>3, <2>4, ElsewhereKeepsLedger DEF Running
<1>4. CASE ChannelCloses \/ WriteStep \/ Cancel \/ UNCHANGED vars
  <2>1. /\ UNCHANGED <<file, synced, done, held, ingested, fetching, fetched>>
        /\ db \subseteq db'
    BY <1>4 DEF ChannelCloses, WriteStep, Cancel, vars, writing, stable, workers
  <2>2. Running' => Running
    BY <1>4 DEF ChannelCloses, WriteStep, Cancel, vars, Running
  <2> QED BY <2>1, <2>2, ElsewhereKeepsLedger DEF Held
<1>5. CASE WriteFails \/ RecordFails \/ SyncFails \/ Kill \/ PowerLoss
  <2>1. Volatile /\ ~ Running'
    BY <1>5 DEF WriteFails, RecordFails, SyncFails, Kill, PowerLoss, Dies, Running
  <2> QED BY <2>1, RestartKeepsLedger
<1>6. CASE Start
  <2>1. Volatile /\ SoundClaims(file') \subseteq done'
    BY <1>6 DEF Start, stable, Claims, SoundClaims
  <2> QED BY <2>1, RestartKeepsLedger
<1> QED BY <1>1, <1>2, <1>3, <1>4, <1>5, <1>6, RecordNameKeepsLedger,
           SyncFileKeepsLedger DEF Next, Writer

LEMMA LedgerImplies == Ledger => RecordedStaysAway /\ LittleIsLost
BY DEF Ledger, LittleIsLost, Lost

\* The invariants say of the checkpoint what the run checks.
LEMMA ClaimsFollow == ASSUME IInv, Ledger PROVE ClaimedIsWritten
<1>1. \A n \in SoundClaims(file) \cup (ingested \cap done) : Written(n)
  BY DEF IInv, Sound, Honest, Ledger, Done
<1>2. Claims(file) \subseteq Names /\ done \subseteq Names
  BY DEF Claims, IInv, Sound
<1>3. /\ Unwritten(Claims(file)) = Claims(file) \ Done
      /\ Unwritten(done) = done \ Done
  BY <1>2 DEF Unwritten, Done
<1>4. Cardinality(Claims(file) \ Done) <= run
  BY FewAreWrong DEF IInv, Sound
<1> QED BY <1>1, <1>3, <1>4 DEF ClaimedIsWritten, IInv, Sound, Remembers

\* All that the proofs know of the pass.
LEMMA AllInit == Init => IInv /\ Settled /\ Books /\ Ledger
BY InitIInv, SettledInit, BooksInit, LedgerInit

LEMMA AllStep ==
    IInv /\ Settled /\ Books /\ Ledger /\ [Next]_vars
    => IInv' /\ Settled' /\ Books' /\ Ledger'
BY NextIInv, SettledStep, BooksStep, LedgerStep

\* checkpoint.go:16-18, as far as it is true: whatever fails and whenever the
\* program is killed or the machine loses power, every name that a Record
\* claimed has all its rows in the graph.  Only lines that were torn can claim
\* more, and in its r-th run the program takes fewer than r names for recorded
\* whose rows are not all there.
THEOREM ClaimsAreWritten == Spec => []ClaimedIsWritten
BY AllInit, AllStep, ClaimsFollow, PTL DEF Spec

\* ingest.go, Run: it ingests every name, "resuming from the checkpoint in
\* stateDir".  No name that an earlier Record claimed, and none that this run
\* takes for recorded, is being fetched or waits for the writer.
THEOREM RecordedIsNotFetched == Spec => []RecordedStaysAway
BY AllInit, AllStep, LedgerImplies, PTL DEF Spec

\* ingest.go, writeLoop, and checkpoint.go, Sync: when the writer drops a batch
\* from memory, its names are on synced lines, which no power failure takes.
\* Of all names of a run one at most is not, for the first line of a run may
\* join a line that an earlier run tore.
THEOREM SyncedBatchesStay == Spec => []LittleIsLost
BY AllInit, AllStep, LedgerImplies, PTL DEF Spec

-----------------------------------------------------------------------------
(* Types, and the order of the statements once more.                       *)

\* What the invariants above do not say of the variables.
Typed ==
    /\ run \in 1 .. MaxRuns
    /\ phase \in {"running", "ok", "down"}
    /\ cancelled \in BOOLEAN /\ feeding \in BOOLEAN /\ final \in BOOLEAN
    /\ writer = "record" => step <= Len(held) + 1
    /\ db \subseteq Row

LEMMA RowsAreRows ==
    ASSUME NEW n \in Names, NEW k \in 1 .. Steps
    PROVE  RowsOf[n][k] \subseteq Row
<1>1. /\ n \in Packages /\ Deps[n] \subseteq Packages /\ Holders[n] \subseteq Handles
  BY IngestAssumption
<1>2. \A label \in NodeKinds : \A x \in Packages \cup Handles : Node(label, x) \in Row
  BY DEF Node, Row
<1>3. \A type \in EdgeKinds : \A x, y \in Packages \cup Handles : Link(type, x, y) \in Row
  BY DEF Link, Row
<1>4. k = 1 \/ k = 2 \/ k = 3 \/ k = 4 \/ k = 5 \/ k = 6 \/ k = 7 \/ k = 8 \/ k = 9
  BY DEF Steps
<1>5. CASE k \in 1 .. 5
  BY <1>1, <1>2, <1>4, <1>5, RowsAt DEF NodeKinds
<1>6. CASE k \in 6 .. 9
  BY <1>1, <1>3, <1>4, <1>6, RowsAt DEF EdgeKinds
<1> QED BY <1>4, <1>5, <1>6

LEMMA TypedStep == ASSUME IInv, Typed, [Next]_vars PROVE Typed'
<1>1. CASE Feeder \/ (\E n \in Names : Worker(n)) \/ (\E n \in fetched : Receive(n))
           \/ ChannelCloses \/ Cancel \/ UNCHANGED vars
  <2>1. /\ UNCHANGED <<run, step, db>>
        /\ phase' \in {phase, "ok"}
        /\ cancelled' \in BOOLEAN /\ feeding' \in BOOLEAN /\ final' \in BOOLEAN
        /\ writer' = "record" => writer = "record" /\ held' = held
    BY <1>1 DEF Feeder, Skip, Feed, FeederEnds, Worker, FetchSucceeds, FetchFails,
                DropRows, Receive, ChannelCloses, Cancel, vars, feeder, workers,
                writing, stable, Typed
  <2> QED BY <2>1 DEF Typed
<1>2. CASE WriteStep
  <2>1. db' \subseteq Row
    <3>1. step \in 1 .. Steps /\ Held \subseteq Names
      BY <1>2 DEF WriteStep, IInv, Progress, Shape, Held
    <3>2. Sent \subseteq Row
      BY <3>1, RowsAreRows DEF Sent
    <3> QED BY <1>2, <3>2 DEF WriteStep, Matched, Typed
  <2>2. writer' = "record" => step' = 1
    BY <1>2 DEF WriteStep
  <2>3. UNCHANGED <<run, phase, cancelled, feeding, final, held, done>> /\ Len(held) \in Nat
    BY <1>2 DEF WriteStep, feeder, IInv, Shape
  <2> QED BY <2>1, <2>2, <2>3 DEF Typed
<1>3. CASE RecordName
  <2>1. /\ step \in 1 .. Len(held) /\ step' = step + 1
        /\ UNCHANGED <<run, phase, cancelled, feeding, final, held, db>>
    BY <1>3 DEF RecordName, feeder, IInv, Shape
  <2> QED BY <2>1 DEF Typed
<1>4. CASE SyncFile
  BY <1>4 DEF SyncFile, feeder, workers, Typed
<1>5. CASE WriteFails \/ RecordFails \/ SyncFails \/ Kill \/ PowerLoss
  <2>1. Dies
    BY <1>5 DEF WriteFails, RecordFails, SyncFails, Kill, PowerLoss
  <2>2. db' \subseteq Row
    <3>1. CASE WriteFails
      <4>1. step \in 1 .. Steps /\ Held \subseteq Names
        BY <3>1 DEF WriteFails, IInv, Progress, Shape, Held
      <4>2. Sent \subseteq Row
        BY <4>1, RowsAreRows DEF Sent
      <4> QED BY <3>1, <4>2 DEF WriteFails, Matched, Typed
    <3>2. CASE ~ WriteFails
      BY <1>5, <3>2 DEF RecordFails, SyncFails, Kill, PowerLoss, stable, Typed
    <3> QED BY <3>1, <3>2
  <2> QED BY <2>1, <2>2 DEF Dies, Volatile, Typed
<1>6. CASE Start
  <2>1. run' \in 1 .. MaxRuns
    BY <1>6, IngestAssumption DEF Start, Typed
  <2> QED BY <1>6, <2>1 DEF Start, Volatile, stable, Typed
<1> QED BY <1>1, <1>2, <1>3, <1>4, <1>5, <1>6 DEF Next, Writer

LEMMA TypedInit == Init => Typed
<1> SUFFICES ASSUME Init PROVE Typed
  OBVIOUS
<1>1. 1 \in 1 .. MaxRuns
  BY IngestAssumption
<1> QED BY <1>1 DEF Init, Typed

LEMMA TypesFollow == ASSUME IInv, Books, Typed PROVE TypeOK
<1>1. Passed(fed) \subseteq Names
  BY PassedRanked DEF Books, Shaped
<1>2. skipped \subseteq Names /\ missing \subseteq Names /\ ingested \subseteq Names
  BY <1>1 DEF Books, Tracked, Places
<1>3. gone \in 0 .. Fetchers
  <2>1. IsFiniteSet(fetching) /\ IsFiniteSet(fetched)
    <3>1. fetching \subseteq Passed(fed) /\ fetched \subseteq Passed(fed)
      BY DEF Books, Tracked, Places
    <3> QED BY <3>1, FS_Subset DEF Books, Counted
  <2>2. Cardinality(fetching) \in Nat /\ Cardinality(fetched) \in Nat
    BY <2>1, FS_CardinalityType
  <2>3. gone \in Nat /\ Busy <= Fetchers /\ Fetchers \in Nat
    BY IngestAssumption DEF Books, Shaped, Counted
  <2> QED BY <2>2, <2>3 DEF Busy
<1>4. step \in 1 .. IF writer = "write" THEN Steps ELSE Len(held) + 1
  <2>1. step \in Nat \ {0} /\ Len(held) \in Nat
    BY DEF IInv, Shape
  <2>2. CASE writer = "write"
    BY <2>2 DEF IInv, Progress
  <2>3. CASE writer = "receive"
    BY <2>1, <2>3 DEF IInv, Progress
  <2>4. CASE writer = "record"
    BY <2>1, <2>4 DEF Typed
  <2> QED BY <2>2, <2>3, <2>4 DEF IInv, Shape
<1> QED BY <1>2, <1>3, <1>4 DEF TypeOK, Typed, IInv, Shape, Sound, Books, Shaped

\* The variables keep their types: in particular no more workers leave than
\* there are, the writer never sends a tenth statement or records past its
\* batch, and every row of the graph is one that a package has.
THEOREM TypeCorrect == Spec => []TypeOK
<1>1. IInv /\ Books /\ Typed /\ [Next]_vars => IInv' /\ Books' /\ Typed'
  BY NextIInv, BooksStep, TypedStep
<1>2. IInv /\ Books /\ Typed => TypeOK
  BY TypesFollow
<1> QED BY <1>1, <1>2, InitIInv, BooksInit, TypedInit, PTL DEF Spec

\* The MATCH of every row the writer is about to send finds its nodes.
EveryMatchFinds == writer = "write" => Matched = Sent

\* ingest.go:220-221: "Nodes go before the edges that reference them, because
\* an edge statement is UNWIND MATCH and a MATCH that finds nothing writes
\* nothing and reports no error".  No edge is ever dropped that way, also not
\* in a run that repeats a batch of which an earlier run wrote a part.
THEOREM NoEdgeIsDropped == Spec => []EveryMatchFinds
<1>1. IInv => EveryMatchFinds
  BY NothingIsDropped DEF EveryMatchFinds
<1>2. IInv /\ [Next]_vars => IInv'
  BY NextIInv
<1> QED BY <1>1, <1>2, InitIInv, PTL DEF Spec
=============================================================================
