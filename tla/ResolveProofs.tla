--------------------------- MODULE ResolveProofs ---------------------------
(***************************************************************************)
(* What the resolve pass records it has written, a run that ends well has  *)
(* settled every target, and no window of a declaration that was resolved  *)
(* in step is left stale: for any packages, releases and declarations, any *)
(* number of readers, any chunk size and any number of runs.               *)
(*                                                                         *)
(* The argument for the first.  The rows of a target the writer holds are  *)
(* in the graph or still pending, and once nothing is pending it records.  *)
(* A later chunk replaces the edges with its rows' ids; two rows with one  *)
(* id are of one declaration and one release, so they are the same row and *)
(* nothing that was written is disturbed.  A target that is recorded, or   *)
(* held, is not read again in this run.                                    *)
(*                                                                         *)
(* A line that was torn may claim any target, once another run has         *)
(* completed it.  Such a claim is not a record: the statements are about   *)
(* the targets that a Record claimed, and bound the number of the others.  *)
(***************************************************************************)
EXTENDS Resolve, DataProofs

\* The rows of target n as it was last read.
Rows(n) == RowsOf(timeline[n], read[n])

Held == {names[k] : k \in 1 .. Len(names)}

Shaped ==
    /\ known \in [Names -> SUBSET Release]
    /\ \A n \in Names : known[n] \subseteq Releases[n]
    /\ timeline \in [Names -> SUBSET Release]
    /\ \A n \in Names : timeline[n] \subseteq Releases[n]
    /\ declared \subseteq Declarations
    /\ read \in [Names -> SUBSET Declarations]
    /\ \A n \in Names : \A d \in read[n] : d.on = n
    /\ stage \in [Names -> Stages]
    /\ fed \in 1 .. Len(Targets) + 1
    /\ names \in Seq(Names)
    /\ step \in Nat \ {0}
    /\ done \in SUBSET Names
    /\ file \in Seq(Line)
    /\ synced \in Nat

\* Who is read again, and who is not.
Ordered ==
    /\ \A k \in fed .. Len(Targets) : stage[Targets[k]] = "waiting"
    /\ \A n \in Held : stage[n] = "received"
    /\ Running => /\ SoundClaims(file) \subseteq done
                  /\ \A n \in done : stage[n] \in {"waiting", "skipped", "received"}

\* The targets whose rows are all in the graph.
Full == {n \in Names : Rows(n) \subseteq edges}

\* How far the writer is.
Progress ==
    /\ pending \subseteq UNION {Rows(n) : n \in Held}
    /\ writer = "record" => pending = {}
    /\ \A n \in Held : Rows(n) \subseteq edges \cup pending

\* What the checkpoint says, on disk and in memory.
Sound ==
    /\ Honest(file, Full, run, Running)
    /\ Remembers(done, Full, run)
    /\ \A n \in done : stage[n] = "received" => n \in Full

RInv == Shaped /\ Ordered /\ Progress /\ Sound

-----------------------------------------------------------------------------
(* Rows.                                                                   *)

\* Every window is of a release, and of two windows of one version there is
\* one only.
LEMMA WindowsDistinct ==
    ASSUME NEW R, NEW admits, NEW at,
           \A r, s \in R : r.version = s.version => r = s
    PROVE  /\ \A w \in WindowsOf(R, admits, at) : \E r \in R : r.version = w.version
           /\ \A w, u \in WindowsOf(R, admits, at) : w.version = u.version => w = u
<1> DEFINE steps == StepsOf(Admitted(R, admits))
           after(r) == {s.published : s \in {o \in steps : o.published > r.published}}
           window(r) == [version |-> r.version,
                         from |-> Later(at, r.published),
                         to |-> Least(after(r) \cup {OpenInterval})]
<1>1. steps \subseteq R
  BY DEF StepsOf, Admitted
<1>2. \A w \in WindowsOf(R, admits, at) : \E r \in steps : w = window(r)
  BY DEF WindowsOf
<1>3. \A r : window(r).version = r.version
  OBVIOUS
<1> HIDE DEF steps, window
<1>4. \A w \in WindowsOf(R, admits, at) : \E r \in R : r.version = w.version
  BY <1>1, <1>2, <1>3
<1>5. ASSUME NEW w \in WindowsOf(R, admits, at), NEW u \in WindowsOf(R, admits, at),
             w.version = u.version
      PROVE  w = u
  <2>1. PICK r \in steps : w = window(r)
    BY <1>2
  <2>2. PICK s \in steps : u = window(s)
    BY <1>2
  <2>3. r = s
    BY <1>1, <1>3, <1>5, <2>1, <2>2
  <2> QED BY <2>1, <2>2, <2>3
<1> QED BY <1>4, <1>5

\* The versions of a timeline tell its releases apart.
LEMMA TimelineReleases ==
    ASSUME Shaped, NEW n \in Names
    PROVE  \A r, s \in timeline[n] : r.version = s.version => r = s
BY ResolveAssumption DEF Shaped

\* What a row of target n comes from.
LEMMA RowsFrom ==
    ASSUME Shaped, NEW n \in Names, NEW e \in Rows(n)
    PROVE  \E d \in read[n] :
              \E w \in WindowsOf(timeline[n], d.admits, d.published) :
                 /\ e = RowOf(d, w)
                 /\ \E r \in Releases[n] : r.version = w.version
<1>1. PICK d \in read[n] :
         \E w \in WindowsOf(timeline[n], d.admits, d.published) : e = RowOf(d, w)
  BY DEF Rows, RowsOf
<1>2. PICK w \in WindowsOf(timeline[n], d.admits, d.published) : e = RowOf(d, w)
  BY <1>1
<1>3. \E r \in timeline[n] : r.version = w.version
  BY TimelineReleases, WindowsDistinct
<1> QED BY <1>2, <1>3 DEF Shaped

\* resolve.go:24-26: each resolved version owns one window of a declaration,
\* so the edge's id tells rows apart without a discriminator.
LEMMA RowsAgree ==
    ASSUME Shaped, NEW n \in Names, NEW m \in Names, NEW e \in Rows(n),
           NEW f \in Rows(m), SameEdge(e, f)
    PROVE  e = f
<1>1. PICK d \in read[n] :
         \E w \in WindowsOf(timeline[n], d.admits, d.published) :
            e = RowOf(d, w) /\ \E r \in Releases[n] : r.version = w.version
  BY RowsFrom
<1>2. PICK w \in WindowsOf(timeline[n], d.admits, d.published) :
         e = RowOf(d, w) /\ \E r \in Releases[n] : r.version = w.version
  BY <1>1
<1>3. PICK c \in read[m] :
         \E u \in WindowsOf(timeline[m], c.admits, c.published) :
            f = RowOf(c, u) /\ \E r \in Releases[m] : r.version = u.version
  BY RowsFrom
<1>4. PICK u \in WindowsOf(timeline[m], c.admits, c.published) :
         f = RowOf(c, u) /\ \E r \in Releases[m] : r.version = u.version
  BY <1>3
<1>5. d.by = c.by /\ w.version = u.version
  BY <1>2, <1>4 DEF RowOf, SameEdge
<1>6. n = m
  BY <1>2, <1>4, <1>5, ResolveAssumption
<1>7. d = c
  <2>1. d \in Declarations /\ c \in Declarations /\ d.on = c.on
    BY <1>6 DEF Shaped
  <2> QED BY <1>5, <2>1, ResolveAssumption
<1>8. w = u
  BY <1>5, <1>6, <1>7, TimelineReleases, WindowsDistinct
<1> QED BY <1>2, <1>4, <1>7, <1>8

\* Merging rows of held targets disturbs no row that was written.
LEMMA MergeDisturbsNothing ==
    ASSUME RInv, NEW chunk \in SUBSET pending
    PROVE  /\ chunk \subseteq Merged(edges, chunk)
           /\ \A n \in Names : \A e \in Rows(n) : e \in edges => e \in Merged(edges, chunk)
<1>1. ASSUME NEW n \in Names, NEW e \in Rows(n), e \in edges, NEW f \in chunk,
             SameEdge(e, f)
      PROVE  e = f
  <2>1. PICK m \in Held : f \in Rows(m)
    BY DEF RInv, Progress
  <2>2. m \in Names
    BY <2>1 DEF Held, RInv, Shaped
  <2> QED BY <1>1, <2>1, <2>2, RowsAgree DEF RInv
<1> QED BY <1>1 DEF Merged

\* Once a target's rows are all in the graph, so are its windows.
LEMMA FullHasWindows ==
    ASSUME RInv, NEW n \in Full, NEW d \in read[n]
    PROVE  Wanted(d) \subseteq Present(d)
<1> SUFFICES ASSUME NEW e \in Wanted(d)
             PROVE  e \in Present(d)
  OBVIOUS
<1>1. n \in Names /\ d.on = n
  BY DEF RInv, Shaped, Full
<1>2. PICK w \in WindowsOf(timeline[n], d.admits, d.published) : e = RowOf(d, w)
  BY <1>1 DEF Wanted
<1>3. e \in edges
  <2>1. e \in Rows(n)
    BY <1>1, <1>2 DEF Rows, RowsOf
  <2> QED BY <2>1 DEF Full
<1>4. \E r \in Releases[n] : r.version = w.version
  <2>1. \E r \in timeline[n] : r.version = w.version
    BY <1>1, TimelineReleases, WindowsDistinct DEF RInv
  <2> QED BY <1>1, <2>1 DEF RInv, Shaped
<1>5. e.by = d.by /\ e.version = w.version
  BY <1>2 DEF RowOf
<1> QED BY <1>1, <1>3, <1>4, <1>5 DEF Present

\* Nothing that Full is made of changes.
LEMMA FullStays ==
    ASSUME UNCHANGED <<edges, timeline, read>>
    PROVE  Full' = Full
BY DEF Full, Rows

\* A step that leaves the checkpoint alone, and what was resolved.
LEMMA SoundStays ==
    ASSUME Sound, UNCHANGED <<run, file, done>>, Running' => Running,
           SoundClaims(file) \cap Full \subseteq Full', done \cap Full \subseteq Full',
           \A n \in done : stage'[n] = "received" => stage[n] = "received"
    PROVE  Sound'
<1>1. Honest(file, Full', run, Running) /\ Honest(file, Full', run, FALSE)
  BY HonestStays DEF Sound
<1>2. Honest(file, Full', run, Running')
  <2>1. CASE Running'
    BY <1>1, <2>1 DEF Honest
  <2>2. CASE ~ Running'
    BY <1>1, <2>2 DEF Honest
  <2> QED BY <2>1, <2>2
<1>3. Remembers(done, Full', run)
  <2>1. done \ Full' \subseteq done \ Full
    OBVIOUS
  <2> QED BY <2>1, RemembersStays DEF Sound, Honest
<1> QED BY <1>2, <1>3 DEF Sound

\* A step that ends the run.
LEMMA DyingIsSound ==
    ASSUME Sound, Dies, Honest(file', Full', run, FALSE)
    PROVE  Sound'
<1>1. done' = {} /\ run' = run /\ ~ Running'
  BY DEF Dies, Running
<1>2. Honest(file', Full', run', Running')
  BY <1>1 DEF Honest
<1>3. Remembers(done', Full', run')
  BY <1>1, RemembersStays DEF Sound, Honest
<1> QED BY <1>1, <1>2, <1>3 DEF Sound

-----------------------------------------------------------------------------
(* The feeder, the readers and the ingest around leave the writer's rows   *)
(* alone.                                                                  *)

\* Every target is at one place of the list.
LEMMA TargetsDiffer ==
    /\ Len(Targets) \in Nat
    /\ \A k \in 1 .. Len(Targets) : Targets[k] \in Names
    /\ \A j, k \in 1 .. Len(Targets) : Targets[j] = Targets[k] => j = k
BY ResolveAssumption

\* Only the graph or the feeder's flags change, or the run is cancelled.
LEMMA ElsewhereKeeps ==
    ASSUME RInv, Shaped',
           UNCHANGED <<edges, run, phase, fed, stage, timeline, read, writer, pending, names,
                       done, file>>
    PROVE  RInv'
<1>1. Held' = Held /\ \A n : Rows(n)' = Rows(n)
  BY DEF Held, Rows
<1>2. Ordered'
  BY <1>1 DEF RInv, Ordered, Running
<1>3. Progress'
  BY <1>1 DEF RInv, Progress
<1>4. Sound'
  BY FullStays, SoundStays DEF RInv, Running
<1> QED BY <1>2, <1>3, <1>4 DEF RInv

\* The target at the feeder's position is not held, and waits.
LEMMA NextTarget ==
    ASSUME RInv, fed <= Len(Targets)
    PROVE  /\ fed \in 1 .. Len(Targets) /\ Targets[fed] \in Names
           /\ stage[Targets[fed]] = "waiting"
           /\ Targets[fed] \notin Held
           /\ fed + 1 \in 1 .. Len(Targets) + 1
           /\ \A k \in fed + 1 .. Len(Targets) :
                 /\ k \in fed .. Len(Targets)
                 /\ Targets[k] # Targets[fed] /\ Targets[k] \in Names
<1>1. fed \in 1 .. Len(Targets) /\ fed \in Nat /\ Len(Targets) \in Nat
  BY TargetsDiffer DEF RInv, Shaped
<1>2. stage[Targets[fed]] = "waiting"
  BY <1>1 DEF RInv, Ordered
<1>3. \A k \in fed + 1 .. Len(Targets) : k \in 1 .. Len(Targets) /\ k # fed
                                         /\ k \in fed .. Len(Targets)
  BY <1>1
<1>4. Targets[fed] \notin Held
  BY <1>2 DEF RInv, Ordered
<1> QED BY <1>1, <1>2, <1>3, <1>4, TargetsDiffer

\* The feeder hands over, or passes over, one target.
LEMMA FeederKeeps == ASSUME RInv, Skip \/ Feed PROVE RInv'
<1> DEFINE t == Targets[fed]
<1>1. /\ Running /\ fed <= Len(Targets) /\ fed' = fed + 1
      /\ \/ t \in done /\ stage' = [stage EXCEPT ![t] = "skipped"]
         \/ t \notin done /\ stage' = [stage EXCEPT ![t] = "timeline"]
      /\ UNCHANGED <<known, declared, edges, run, phase, timeline, read, writer, pending,
                     names, step, done, file, synced>>
  BY DEF Skip, Feed, graph, writing, stable
<1>2. /\ fed \in 1 .. Len(Targets) /\ t \in Names /\ stage[t] = "waiting"
      /\ t \notin Held /\ fed' \in 1 .. Len(Targets) + 1
      /\ \A k \in fed' .. Len(Targets) :
            k \in fed .. Len(Targets) /\ Targets[k] # t /\ Targets[k] \in Names
  BY <1>1, NextTarget
<1>3. /\ stage' \in [Names -> Stages]
      /\ \A n \in Names : n # t => stage'[n] = stage[n]
      /\ t \in done => stage'[t] = "skipped"
  BY <1>1, <1>2 DEF RInv, Shaped, Stages
<1> HIDE DEF t
<1>4. Shaped'
  BY <1>1, <1>2, <1>3 DEF RInv, Shaped
<1>5. Held' = Held /\ Held \subseteq Names /\ \A n : Rows(n)' = Rows(n)
  BY <1>1 DEF Held, Rows, RInv, Shaped
<1>6. Ordered'
  <2>1. \A k \in fed' .. Len(Targets) : stage'[Targets[k]] = "waiting"
    BY <1>2, <1>3 DEF RInv, Ordered
  <2>2. \A n \in Held' : stage'[n] = "received"
    BY <1>2, <1>3, <1>5 DEF RInv, Ordered
  <2>3. \A n \in done : stage'[n] \in {"waiting", "skipped", "received"}
    <3>1. \A n \in done : n \in Names /\ stage[n] \in {"waiting", "skipped", "received"}
      BY <1>1 DEF RInv, Ordered, Shaped
    <3> QED BY <1>3, <3>1
  <2> QED BY <1>1, <2>1, <2>2, <2>3 DEF RInv, Ordered, Running
<1>7. Progress'
  BY <1>1, <1>5 DEF RInv, Progress
<1>8. Sound'
  <2>1. \A n \in done : stage'[n] = "received" => stage[n] = "received"
    BY <1>1, <1>2, <1>3 DEF RInv, Shaped
  <2> QED BY <1>1, <2>1, FullStays, SoundStays DEF RInv, Running
<1> QED BY <1>4, <1>6, <1>7, <1>8 DEF RInv

\* A reader works on its target only, which is neither held nor recorded.
LEMMA ReaderKeeps == ASSUME RInv, NEW n \in Names, Reader(n) PROVE RInv'
<1>1. /\ Running /\ stage[n] \in {"timeline", "dependents", "offered"}
      /\ \E s \in {"dependents", "offered", "failed", "dropped"} :
            stage' = [stage EXCEPT ![n] = s]
      /\ UNCHANGED <<known, declared, edges, run, phase, fed, writer, pending, names,
                     step, done, file, synced>>
  BY DEF Reader, ReadTimeline, ReadDependents, ReadFails, DropRows,
         graph, feeder, writing, stable
<1>2. /\ timeline' = timeline \/ timeline' = [timeline EXCEPT ![n] = known[n]]
      /\ \/ read' = read
         \/ read' = [read EXCEPT ![n] = {d \in declared : d.on = n}]
  BY DEF Reader, ReadTimeline, ReadDependents, ReadFails, DropRows
<1>3. /\ stage' \in [Names -> Stages]
      /\ \A m \in Names : m # n => stage'[m] = stage[m]
  BY <1>1 DEF RInv, Shaped, Stages
<1>4. /\ timeline' \in [Names -> SUBSET Release]
      /\ \A m \in Names : timeline'[m] \subseteq Releases[m]
      /\ \A m \in Names : m # n => timeline'[m] = timeline[m]
  BY <1>2 DEF RInv, Shaped
<1>5. /\ read' \in [Names -> SUBSET Declarations]
      /\ \A m \in Names : \A d \in read'[m] : d.on = m
      /\ \A m \in Names : m # n => read'[m] = read[m]
  BY <1>2 DEF RInv, Shaped
<1>6. n \notin Held /\ n \notin done /\ n \notin SoundClaims(file)
  BY <1>1 DEF RInv, Ordered
<1>7. Held' = Held /\ Held \subseteq Names /\ done \subseteq Names
  BY <1>1 DEF Held, RInv, Shaped
<1>8. \A m \in Names : m # n => Rows(m)' = Rows(m)
  BY <1>4, <1>5 DEF Rows
<1>9. Shaped'
  BY <1>1, <1>3, <1>4, <1>5 DEF RInv, Shaped
<1>10. Ordered'
  <2>1. \A k \in fed .. Len(Targets) : Targets[k] \in Names /\ Targets[k] # n
    <3>1. \A k \in fed .. Len(Targets) : k \in 1 .. Len(Targets)
      BY TargetsDiffer DEF RInv, Shaped
    <3>2. \A k \in fed .. Len(Targets) : stage[Targets[k]] = "waiting"
      BY DEF RInv, Ordered
    <3> QED BY <1>1, <3>1, <3>2, TargetsDiffer
  <2>2. \A k \in fed' .. Len(Targets) : stage'[Targets[k]] = "waiting"
    BY <1>1, <1>3, <2>1 DEF RInv, Ordered
  <2>3. \A m \in Held' : stage'[m] = "received"
    BY <1>3, <1>6, <1>7 DEF RInv, Ordered
  <2>4. \A m \in done : stage'[m] \in {"waiting", "skipped", "received"}
    BY <1>1, <1>3, <1>6 DEF RInv, Ordered, Shaped
  <2> QED BY <1>1, <2>2, <2>3, <2>4 DEF RInv, Ordered, Running
<1>11. Progress'
  <2>1. \A m \in Held : Rows(m)' = Rows(m)
    BY <1>6, <1>7, <1>8
  <2> QED BY <1>1, <1>7, <2>1 DEF RInv, Progress
<1>12. Sound'
  <2>1. /\ SoundClaims(file) \cap Full \subseteq Full'
        /\ done \cap Full \subseteq Full'
    BY <1>1, <1>6, <1>8 DEF Full
  <2>2. \A m \in done : stage'[m] = stage[m]
    BY <1>3, <1>6, <1>7
  <2> QED BY <1>1, <2>1, <2>2, SoundStays DEF RInv, Running
<1> QED BY <1>9, <1>10, <1>11, <1>12 DEF RInv

-----------------------------------------------------------------------------
(* The writer.                                                             *)

LEMMA ReceiveKeeps == ASSUME RInv, NEW n \in Names, Receive(n) PROVE RInv'
<1>1. /\ Running /\ writer = "receive" /\ stage[n] = "offered"
      /\ stage' = [stage EXCEPT ![n] = "received"]
      /\ pending' = pending \cup Rows(n)
      /\ names' = Append(names, n)
      /\ writer' \in {"receive", "write"}
      /\ UNCHANGED <<known, declared, edges, run, phase, fed, timeline, read, step, done,
                     file, synced>>
  BY DEF Receive, Rows, graph, feeder, stable
<1>2. /\ stage' \in [Names -> Stages]
      /\ stage'[n] = "received"
      /\ \A m \in Names : m # n => stage'[m] = stage[m]
  BY <1>1 DEF RInv, Shaped, Stages
<1>3. /\ names' \in Seq(Names)
      /\ Held' = Held \cup {n}
  <2>1. names \in Seq(Names) /\ Len(names) \in Nat
    BY DEF RInv, Shaped
  <2>2. /\ names' \in Seq(Names) /\ Len(names') = Len(names) + 1
        /\ \A k \in 1 .. Len(names) : names'[k] = names[k]
        /\ names'[Len(names) + 1] = n
    BY <1>1, <2>1
  <2>3. \A k : k \in 1 .. Len(names') <=> k \in 1 .. Len(names) \/ k = Len(names) + 1
    BY <2>1, <2>2
  <2> QED BY <2>2, <2>3 DEF Held
<1>4. Shaped'
  BY <1>1, <1>2, <1>3 DEF RInv, Shaped
<1>5. \A m : Rows(m)' = Rows(m)
  BY <1>1 DEF Rows
<1>6. Ordered'
  <2>1. \A k \in fed .. Len(Targets) : Targets[k] \in Names /\ Targets[k] # n
    <3>1. \A k \in fed .. Len(Targets) : k \in 1 .. Len(Targets)
      BY TargetsDiffer DEF RInv, Shaped
    <3>2. \A k \in fed .. Len(Targets) : stage[Targets[k]] = "waiting"
      BY DEF RInv, Ordered
    <3> QED BY <1>1, <3>1, <3>2, TargetsDiffer
  <2>2. \A k \in fed' .. Len(Targets) : stage'[Targets[k]] = "waiting"
    BY <1>1, <1>2, <2>1 DEF RInv, Ordered
  <2>3. \A m \in Held' : stage'[m] = "received"
    <3>1. Held \subseteq Names
      BY DEF Held, RInv, Shaped
    <3> QED BY <1>2, <1>3, <3>1 DEF RInv, Ordered
  <2>4. \A m \in done : stage'[m] \in {"waiting", "skipped", "received"}
    BY <1>1, <1>2 DEF RInv, Ordered, Shaped
  <2> QED BY <1>1, <2>2, <2>3, <2>4 DEF RInv, Ordered, Running
<1>7. Progress'
  BY <1>1, <1>3, <1>5 DEF RInv, Progress
<1>8. Sound'
  <2>1. n \notin done /\ done \subseteq Names
    BY <1>1 DEF RInv, Ordered, Shaped
  <2>2. \A m \in done : stage'[m] = stage[m]
    BY <1>2, <2>1
  <2> QED BY <1>1, <2>2, FullStays, SoundStays DEF RInv, Running
<1> QED BY <1>4, <1>6, <1>7, <1>8 DEF RInv

LEMMA ChannelClosesKeeps == ASSUME RInv, ChannelCloses PROVE RInv'
<1>1. /\ Running
      /\ writer' = "record" => pending = {}
      /\ UNCHANGED <<known, declared, edges, run, fed, stage, timeline, read, pending,
                     names, step, done, file, synced>>
  BY DEF ChannelCloses, graph, feeder, readers, stable, RInv, Progress
<1>2. Held' = Held /\ \A n : Rows(n)' = Rows(n)
  BY <1>1 DEF Held, Rows
<1>3. Shaped'
  BY <1>1 DEF RInv, Shaped
<1>4. Ordered'
  BY <1>1, <1>2 DEF RInv, Ordered
<1>5. Progress'
  BY <1>1, <1>2 DEF RInv, Progress
<1>6. Sound'
  BY <1>1, FullStays, SoundStays DEF RInv
<1> QED BY <1>3, <1>4, <1>5, <1>6 DEF RInv

LEMMA WriteChunkKeeps == ASSUME RInv, WriteChunk PROVE RInv'
<1>1. PICK chunk \in SUBSET pending :
         edges' = Merged(edges, chunk) /\ pending' = pending \ chunk
  BY DEF WriteChunk, Chunks, kSubset
<1>2. /\ writer' = "record" => pending' = {}
      /\ UNCHANGED <<known, declared, run, phase, fed, stage, timeline, read, names,
                     step, done, file, synced>>
  BY DEF WriteChunk, graph, feeder, readers, stable
<1>3. /\ chunk \subseteq edges'
      /\ \A n \in Names : \A e \in Rows(n) : e \in edges => e \in edges'
  BY <1>1, MergeDisturbsNothing
<1>4. Held' = Held /\ Held \subseteq Names /\ \A n : Rows(n)' = Rows(n)
  BY <1>2 DEF Held, Rows, RInv, Shaped
<1>5. Shaped'
  BY <1>2 DEF RInv, Shaped
<1>6. Ordered'
  BY <1>2, <1>4 DEF RInv, Ordered, Running
<1>7. Progress'
  <2>1. \A n \in Held : Rows(n) \subseteq edges' \cup pending'
    BY <1>1, <1>3, <1>4 DEF RInv, Progress
  <2> QED BY <1>1, <1>2, <1>4, <2>1 DEF RInv, Progress
<1>8. Sound'
  <2>1. Full \subseteq Full'
    BY <1>3, <1>4 DEF Full
  <2> QED BY <1>2, <2>1, SoundStays DEF RInv, Running
<1> QED BY <1>5, <1>6, <1>7, <1>8 DEF RInv

LEMMA RecordNameKeeps == ASSUME RInv, RecordName PROVE RInv'
<1> DEFINE n == names[step]
<1>1. /\ Running /\ writer = "record" /\ step \in 1 .. Len(names)
      /\ file' = WriteLine(file, n)
      /\ done' = done \cup {n}
      /\ step' = step + 1
      /\ Running'
      /\ UNCHANGED <<known, declared, edges, run, phase, fed, stage, timeline, read,
                     writer, pending, names, synced>>
  BY DEF RecordName, graph, feeder, readers, RInv, Shaped, Running
<1>2. n \in Held /\ n \in Names
  BY <1>1 DEF Held, RInv, Shaped
<1>3. n \in Full /\ stage[n] = "received"
  BY <1>1, <1>2 DEF RInv, Progress, Ordered, Full
<1> HIDE DEF n
<1>4. Held' = Held /\ (\A m : Rows(m)' = Rows(m)) /\ Full' = Full
  BY <1>1, FullStays DEF Held, Rows
<1>5. Sound'
  <2>1. Honest(file, Full, run, TRUE)
    BY <1>1 DEF RInv, Sound, Honest
  <2>2. Honest(file', Full', run', Running')
    <3>1. Honest(file', Full, run, TRUE)
      BY <1>1, <1>2, <1>3, <2>1, HonestRecord
    <3> QED BY <1>1, <1>4, <3>1 DEF Honest
  <2>3. Remembers(done', Full', run')
    BY <1>1, <1>3, <1>4, <2>1, RemembersStays DEF RInv, Sound, Honest
  <2> QED BY <1>1, <1>3, <1>4, <2>2, <2>3 DEF RInv, Sound
<1>6. file' \in Seq(Line) /\ SoundClaims(file') \subseteq SoundClaims(file) \cup {n}
  BY <1>1, <1>2, <1>5, ClaimsOneMore DEF Sound, Honest, WellFormed, RInv
<1>7. Shaped'
  BY <1>1, <1>2, <1>6 DEF RInv, Shaped
<1>8. Ordered'
  BY <1>1, <1>3, <1>4, <1>6 DEF RInv, Ordered, Running
<1>9. Progress'
  BY <1>1, <1>4 DEF RInv, Progress
<1> QED BY <1>5, <1>7, <1>8, <1>9 DEF RInv

LEMMA SyncFileKeeps == ASSUME RInv, SyncFile PROVE RInv'
<1>1. /\ Running /\ writer = "record" /\ names' = << >> /\ step' = 1
      /\ writer' = "receive"
      /\ UNCHANGED <<known, declared, edges, run, fed, stage, timeline, read, pending,
                     done, file>>
  BY DEF SyncFile, graph, feeder, readers
<1>2. Held' = {} /\ names' \in Seq(Names) /\ \A n : Rows(n)' = Rows(n)
  BY <1>1 DEF Held, Rows
<1>3. pending' = {}
  BY <1>1 DEF RInv, Progress
<1>4. Shaped'
  <2>1. synced' \in Nat
    BY DEF SyncFile, RInv, Shaped
  <2> QED BY <1>1, <1>2, <2>1 DEF RInv, Shaped
<1>5. Ordered'
  BY <1>1, <1>2 DEF RInv, Ordered
<1>6. Progress'
  BY <1>1, <1>2, <1>3 DEF RInv, Progress
<1>7. Sound'
  BY <1>1, FullStays, SoundStays DEF RInv
<1> QED BY <1>4, <1>5, <1>6, <1>7 DEF RInv

\* The process is gone or starts again, and the checkpoint is sound.
LEMMA RestartKeeps ==
    ASSUME Shaped, Volatile, UNCHANGED <<known, declared>>,
           synced' = synced, done' \in SUBSET Names,
           Running' => SoundClaims(file') \subseteq done', Sound'
    PROVE  RInv'
<1>1. /\ fed' = 1 /\ stage' = [n \in Names |-> "waiting"] /\ writer' = "receive"
      /\ pending' = {} /\ names' = << >> /\ step' = 1
      /\ timeline' = timeline /\ read' = read
  BY DEF Volatile
<1>2. Held' = {} /\ names' \in Seq(Names)
  BY <1>1 DEF Held
<1>3. stage' \in [Names -> Stages] /\ \A n \in Names : stage'[n] = "waiting"
  BY <1>1 DEF Stages
<1>4. 1 \in 1 .. Len(Targets) + 1 /\ \A k \in 1 .. Len(Targets) : Targets[k] \in Names
  BY TargetsDiffer
<1>5. file' \in Seq(Line)
  BY DEF Sound, Honest, WellFormed
<1>6. Shaped'
  BY <1>1, <1>2, <1>3, <1>4, <1>5 DEF Shaped
<1>7. Ordered'
  BY <1>1, <1>2, <1>3, <1>4 DEF Ordered
<1>8. Progress'
  BY <1>1, <1>2 DEF Progress
<1> QED BY <1>6, <1>7, <1>8 DEF RInv

LEMMA DyingKeeps ==
    ASSUME RInv,
           WriteFails \/ RecordFails \/ SyncFails \/ Kill \/ PowerLoss \/ Start
    PROVE  RInv'
<1>1. /\ Volatile /\ UNCHANGED <<known, declared, synced, timeline, read>>
      /\ Honest(file, Full, run, Running) /\ Sound /\ Shaped
  BY DEF WriteFails, RecordFails, SyncFails, Kill, PowerLoss, Start, Dies, graph,
         stable, Volatile, RInv, Sound
<1>2. CASE Start
  <2>1. /\ Running' /\ run' = run + 1 /\ done' = Claims(file)
        /\ UNCHANGED <<edges, file>>
    BY <1>2 DEF Start, stable, Running
  <2>2. Full' = Full
    BY <1>1, <2>1, FullStays
  <2>3. Honest(file, Full, run + 1, TRUE)
    BY <1>1, HonestStays
  <2>4. Remembers(Claims(file), Full, run + 1)
    BY <2>3, FewAreWrong
  <2>5. \A n \in Names : stage'[n] = "waiting"
    BY <1>1 DEF Volatile
  <2>6. Claims(file) \subseteq Names /\ SoundClaims(file) \subseteq Claims(file)
    BY DEF Claims, SoundClaims
  <2>7. Sound'
    BY <2>1, <2>2, <2>3, <2>4, <2>5, <2>6 DEF Sound, Honest
  <2> QED BY <1>1, <2>1, <2>6, <2>7, RestartKeeps
<1>3. CASE WriteFails \/ RecordFails \/ SyncFails \/ Kill \/ PowerLoss
  <2>1. Dies /\ done' = {} /\ ~ Running'
    BY <1>3 DEF WriteFails, RecordFails, SyncFails, Kill, PowerLoss, Dies, Running
  <2>2. Honest(file', Full', run, FALSE)
    <3>1. CASE SyncFails \/ Kill
      <4>1. UNCHANGED <<edges, file>>
        BY <3>1 DEF SyncFails, Kill, stable
      <4> QED BY <1>1, <4>1, FullStays, HonestStays
    <3>2. CASE WriteFails
      <4>1. PICK chunk \in SUBSET pending : \E some \in SUBSET chunk :
               edges' = Merged(edges, some)
        BY <3>2 DEF WriteFails, Chunks, kSubset
      <4>2. PICK some \in SUBSET pending : edges' = Merged(edges, some)
        BY <4>1
      <4>3. \A n \in Names : \A e \in Rows(n) : e \in edges => e \in edges'
        BY <4>2, MergeDisturbsNothing
      <4>4. \A n : Rows(n)' = Rows(n)
        BY <1>1 DEF Rows
      <4>5. Full \subseteq Full'
        BY <4>3, <4>4 DEF Full
      <4>6. file' = file
        BY <3>2 DEF WriteFails, stable
      <4> QED BY <1>1, <4>5, <4>6, HonestStays
    <3>3. CASE RecordFails
      <4>1. /\ step \in 1 .. Len(names)
            /\ file' \in {file} \cup TornWrites(file, names[step])
            /\ edges' = edges
        BY <3>3 DEF RecordFails, RInv, Shaped
      <4>2. names[step] \in Names
        BY <4>1 DEF RInv, Shaped
      <4>3. Full' = Full
        BY <1>1, <4>1, FullStays
      <4>4. CASE file' = file
        BY <1>1, <4>3, <4>4, HonestStays
      <4>5. CASE file' \in TornWrites(file, names[step])
        BY <1>1, <4>2, <4>3, <4>5, HonestTornWrite
      <4> QED BY <4>1, <4>4, <4>5
    <3>4. CASE PowerLoss
      <4>1. file' \in AfterPowerLoss(file, synced) /\ edges' = edges
        BY <3>4 DEF PowerLoss
      <4>2. Full' = Full /\ synced \in Nat
        BY <1>1, <4>1, FullStays DEF Shaped
      <4> QED BY <1>1, <4>1, <4>2, HonestPowerLoss
    <3> QED BY <1>3, <3>1, <3>2, <3>3, <3>4
  <2>3. Sound'
    BY <1>1, <2>1, <2>2, DyingIsSound
  <2> QED BY <1>1, <2>1, <2>3, RestartKeeps
<1> QED BY <1>2, <1>3

-----------------------------------------------------------------------------
(* The whole.                                                              *)

LEMMA RInvInit == Init => RInv
<1> SUFFICES ASSUME Init PROVE RInv
  OBVIOUS
<1>1. SoundClaims(file) = {} /\ Held = {} /\ done = {} /\ pending = {}
  BY EmptyFile DEF Init, Held
<1>2. << >> \in Seq(Names) /\ << >> \in Seq(Line)
  OBVIOUS
<1>3. 1 \in 1 .. Len(Targets) + 1 /\ \A k \in 1 .. Len(Targets) : Targets[k] \in Names
  BY TargetsDiffer
<1>4. Shaped
  BY <1>2, <1>3, ResolveAssumption DEF Init, Shaped, Stages
<1>5. Ordered
  BY <1>1, <1>3 DEF Init, Ordered
<1>6. Sound
  <2>1. Honest(<< >>, Full, 1, Running) /\ Remembers({}, Full, 1)
    BY HonestAtFirst
  <2> QED BY <2>1 DEF Init, Sound
<1>7. Progress
  BY <1>1 DEF Init, Progress
<1> QED BY <1>4, <1>5, <1>6, <1>7 DEF RInv

LEMMA RInvStep == ASSUME RInv, [Next]_vars PROVE RInv'
<1>1. CASE Skip \/ Feed
  BY <1>1, FeederKeeps
<1>2. CASE FeederEnds \/ Cancel \/ UNCHANGED vars
  <2>1. UNCHANGED <<known, declared, edges, run, phase, fed, stage, timeline, read, writer,
                    pending, names, step, done, file, synced>>
    BY <1>2 DEF FeederEnds, Cancel, vars, graph, feeder, readers, writing, stable
  <2>2. Shaped'
    BY <2>1 DEF RInv, Shaped
  <2> QED BY <2>1, <2>2, ElsewhereKeeps
<1>3. ASSUME NEW n \in Names, Learn(n) PROVE RInv'
  <2>1. UNCHANGED <<declared, edges, run, phase, fed, stage, timeline, read, writer,
                    pending, names, step, done, file, synced>>
    BY <1>3 DEF Learn, feeder, readers, writing, stable
  <2>2. PICK r \in Releases[n] : known' = [known EXCEPT ![n] = known[n] \cup {r}]
    BY <1>3 DEF Learn
  <2>3. r \in Release
    BY <2>2, ResolveAssumption
  <2>4. /\ known' \in [Names -> SUBSET Release]
        /\ \A m \in Names : known'[m] \subseteq Releases[m]
    BY <2>2, <2>3 DEF RInv, Shaped
  <2>5. Shaped'
    BY <2>1, <2>4 DEF RInv, Shaped
  <2> QED BY <2>1, <2>5, ElsewhereKeeps
<1>4. CASE Declare
  <2>1. UNCHANGED <<known, edges, run, phase, fed, stage, timeline, read, writer,
                    pending, names, step, done, file, synced>>
    BY <1>4 DEF Declare, feeder, readers, writing, stable
  <2>2. Shaped'
    BY <1>4, <2>1 DEF Declare, RInv, Shaped
  <2> QED BY <2>1, <2>2, ElsewhereKeeps
<1>5. CASE Forget
  <2>1. /\ ~ Running /\ file' = << >> /\ synced' = 0
        /\ UNCHANGED <<known, declared, edges, run, phase, fed, stage, timeline, read,
                       writer, pending, names, step, done>>
    BY <1>5 DEF Forget, graph, feeder, readers, writing
  <2>2. file' \in Seq(Line)
    BY <2>1
  <2>3. Held' = Held /\ \A n : Rows(n)' = Rows(n)
    BY <2>1 DEF Held, Rows
  <2>4. Shaped'
    BY <2>1, <2>2 DEF RInv, Shaped
  <2>5. Ordered'
    BY <2>1, <2>3 DEF RInv, Ordered, Running
  <2>6. Progress'
    BY <2>1, <2>3 DEF RInv, Progress
  <2>7. Sound'
    <3>1. Full' = Full /\ ~ Running' /\ Remembers(done, Full, run) /\ run \in Nat
      BY <2>1, FullStays DEF RInv, Sound, Running, Honest
    <3>2. run \in Nat \ {0}
      BY <3>1, FS_CardinalityType DEF Remembers
    <3>3. Honest(file', Full', run', Running')
      BY <2>1, <3>2, HonestAtFirst
    <3> QED BY <2>1, <3>1, <3>3 DEF RInv, Sound
  <2> QED BY <2>4, <2>5, <2>6, <2>7 DEF RInv
<1>6. CASE \E n \in Names : Reader(n)
  BY <1>6, ReaderKeeps
<1>7. CASE Kill \/ PowerLoss \/ Start
  BY <1>7, DyingKeeps
<1>8. CASE Writer
  BY <1>8, ReceiveKeeps, ChannelClosesKeeps, WriteChunkKeeps, RecordNameKeeps,
     SyncFileKeeps, DyingKeeps DEF Writer
<1> QED BY <1>1, <1>2, <1>3, <1>4, <1>5, <1>6, <1>7, <1>8 DEF Next

\* What was recorded was resolved in full, and few of the other claims were not.
LEMMA FewAreMissing ==
    ASSUME RInv
    PROVE  /\ Recorded \subseteq Full
           /\ Cardinality(Missing(Claims(file))) <= run
           /\ Cardinality(Missing(done)) < run
<1>1. Recorded \subseteq Full
  BY DEF RInv, Sound, Honest, Recorded
<1>2. ASSUME NEW S \in SUBSET Names, IsFiniteSet(S \ Full)
      PROVE  /\ Cardinality(Missing(S)) <= Cardinality(S \ Full)
             /\ Cardinality(Missing(S)) \in Nat /\ Cardinality(S \ Full) \in Nat
  <2>1. Missing(S) \subseteq S \ Full
    BY FullHasWindows DEF Missing
  <2> QED BY <1>2, <2>1, FS_Subset, FS_CardinalityType
<1>3. Claims(file) \subseteq Names /\ done \subseteq Names /\ run \in Nat
  BY DEF Claims, RInv, Shaped, Sound, Honest
<1>4. /\ IsFiniteSet(Claims(file) \ Full) /\ Cardinality(Claims(file) \ Full) <= run
      /\ IsFiniteSet(done \ Full) /\ Cardinality(done \ Full) < run
  BY FewAreWrong DEF RInv, Sound, Remembers
<1>5. Cardinality(Missing(Claims(file))) <= run
  BY <1>2, <1>3, <1>4
<1>6. Cardinality(Missing(done)) < run
  BY <1>2, <1>3, <1>4
<1> QED BY <1>1, <1>5, <1>6

\* checkpoint.go:16-18 for the resolve pass, as far as it is true: whatever
\* fails, is killed or started again, and whatever an ingest adds meanwhile, a
\* target that a Record claimed has every window of every declaration it was
\* read with in the graph.  Only lines that were torn can claim more, and in
\* its r-th run the program takes fewer than r targets for recorded of which a
\* window is missing.
THEOREM RecordsAreWritten == Spec => []RecordedIsWritten
<1>1. RInv => RecordedIsWritten
  <2>1. SUFFICES ASSUME RInv PROVE RecordedIsWritten
    OBVIOUS
  <2>2. Missing(Recorded) = {}
    BY <2>1, FewAreMissing, FullHasWindows DEF Missing
  <2> QED BY <2>1, <2>2, FewAreMissing DEF RecordedIsWritten
<1>2. RInv /\ [Next]_vars => RInv'
  BY RInvStep
<1> QED BY <1>1, <1>2, RInvInit, PTL DEF Spec

-----------------------------------------------------------------------------
(* Every target is settled.  This needs the types and Settling only.       *)

Placed ==
    /\ stage \in [Names -> Stages]
    /\ fed \in 1 .. Len(Targets) + 1
    /\ names \in Seq(Names)
    /\ step \in Nat
    /\ writer # "record" => step = 1

\* Where the targets are that the feeder is done with.
Settling ==
    /\ \A n \in Names : stage[n] = "skipped" => n \in done
    /\ \A n \in Names : stage[n] = "received" =>
          \/ n \in done
          \/ \E k \in 1 .. Len(names) :
                names[k] = n /\ (writer = "record" => step <= k)
    /\ ~ cancelled => \A n \in Names : stage[n] # "dropped"
    /\ \A k \in 1 .. fed - 1 : stage[Targets[k]] # "waiting"
    /\ ~ feeding /\ ~ cancelled => fed = Len(Targets) + 1
    /\ final /\ ~ cancelled =>
          ~ feeding /\ In({"timeline", "dependents", "offered"}) = {}
    /\ phase = "ok" => final /\ names = << >>

SInv == Placed /\ Settling

\* The process is gone, or has just been started: everything waits.
LEMMA NothingSettledYet ==
    ASSUME ~ cancelled, feeding, fed = 1, stage = [n \in Names |-> "waiting"], ~ final,
           names = << >>, step = 1, writer = "receive", phase # "ok"
    PROVE  SInv
<1>1. \A n \in Names : stage[n] = "waiting"
  OBVIOUS
<1>2. Placed
  BY TargetsDiffer DEF Placed, Stages
<1>3. Settling
  BY <1>1 DEF Settling
<1> QED BY <1>2, <1>3 DEF SInv

LEMMA RestartSettles == ASSUME Volatile, phase' # "ok" PROVE SInv'
<1>1. ASSUME Volatile, phase' # "ok"
      PROVE  /\ (~ cancelled)' /\ feeding' /\ (fed = 1)'
             /\ (stage = [n \in Names |-> "waiting"])' /\ (~ final)'
             /\ (names = << >>)' /\ (step = 1)'
             /\ (writer = "receive")' /\ (phase # "ok")'
  BY <1>1 DEF Volatile
<1> QED BY <1>1, NothingSettledYet, PTL

\* The feeder's steps.
LEMMA FeederSettles == ASSUME SInv, Skip \/ Feed \/ FeederEnds PROVE SInv'
<1>1. CASE FeederEnds
  <2>1. /\ feeding' = FALSE
        /\ fed > Len(Targets) \/ cancelled
        /\ feeding
        /\ UNCHANGED <<cancelled, phase, fed, stage, writer, final, names, step, done>>
    BY <1>1 DEF FeederEnds, readers, writing
  <2>2. fed > Len(Targets) => fed = Len(Targets) + 1
    BY TargetsDiffer DEF SInv, Placed
  <2>3. Placed'
    BY <2>1 DEF SInv, Placed
  <2>4. In({"timeline", "dependents", "offered"})'
          = In({"timeline", "dependents", "offered"})
    BY <2>1 DEF In
  <2>5. Settling'
    BY <2>1, <2>2, <2>4 DEF SInv, Settling
  <2> QED BY <2>3, <2>5 DEF SInv
<1>2. CASE Skip \/ Feed
  <2> DEFINE t == Targets[fed]
  <2>1. /\ fed <= Len(Targets) /\ fed' = fed + 1 /\ feeding
        /\ \/ t \in done /\ stage' = [stage EXCEPT ![t] = "skipped"]
           \/ stage' = [stage EXCEPT ![t] = "timeline"]
        /\ UNCHANGED <<cancelled, phase, feeding, writer, final, names, step, done>>
    BY <1>2 DEF Skip, Feed, writing
  <2>2. /\ fed \in 1 .. Len(Targets) /\ t \in Names
        /\ fed' \in 1 .. Len(Targets) + 1
        /\ \A k \in 1 .. fed' - 1 : k \in 1 .. fed - 1 \/ k = fed
        /\ \A k \in 1 .. fed - 1 : k \in 1 .. Len(Targets)
    BY <2>1, TargetsDiffer DEF SInv, Placed
  <2>3. /\ stage' \in [Names -> Stages]
        /\ \A n \in Names : n # t => stage'[n] = stage[n]
        /\ stage'[t] \in {"skipped", "timeline"}
        /\ stage'[t] = "skipped" => t \in done
    BY <2>1, <2>2 DEF SInv, Placed, Stages
  <2> HIDE DEF t
  <2>4. Placed'
    BY <2>1, <2>2, <2>3 DEF SInv, Placed
  <2>5. \A k \in 1 .. fed' - 1 : stage'[Targets[k]] # "waiting"
    <3>1. SUFFICES ASSUME NEW k \in 1 .. fed' - 1
                   PROVE  stage'[Targets[k]] # "waiting"
      OBVIOUS
    <3>2. CASE Targets[k] = t
      BY <2>3, <3>2
    <3>3. CASE Targets[k] # t
      <4>1. k \in 1 .. fed - 1
        BY <2>2, <3>3 DEF t
      <4>2. Targets[k] \in Names /\ stage[Targets[k]] # "waiting"
        BY <2>2, <4>1, TargetsDiffer DEF SInv, Settling
      <4> QED BY <2>3, <3>3, <4>2
    <3> QED BY <3>2, <3>3
  <2>6. \A n \in Names : stage'[n] = "skipped" => n \in done
    BY <2>3 DEF SInv, Settling
  <2>7. /\ \A n \in Names : stage'[n] = "received" => stage[n] = "received"
        /\ \A n \in Names : stage'[n] = "dropped" => stage[n] = "dropped"
    BY <2>3
  <2>8. ~ (final /\ ~ cancelled)
    BY <2>1 DEF SInv, Settling
  <2>9. Settling'
    BY <2>1, <2>5, <2>6, <2>7, <2>8 DEF SInv, Settling
  <2> QED BY <2>4, <2>9 DEF SInv
<1> QED BY <1>1, <1>2

\* A reader's target goes on, fails, or is dropped on the cancellation.
LEMMA ReaderSettles == ASSUME SInv, NEW n \in Names, Reader(n) PROVE SInv'
<1>1. /\ stage[n] \in {"timeline", "dependents", "offered"}
      /\ \/ \E s \in {"dependents", "offered", "failed"} :
               stage' = [stage EXCEPT ![n] = s]
         \/ cancelled /\ stage' = [stage EXCEPT ![n] = "dropped"]
      /\ UNCHANGED <<cancelled, phase, fed, feeding, writer, final, names, step, done>>
  BY DEF Reader, ReadTimeline, ReadDependents, ReadFails, DropRows, feeder, writing
<1>2. /\ stage' \in [Names -> Stages]
      /\ \A m \in Names : m # n => stage'[m] = stage[m]
      /\ stage'[n] \in {"dependents", "offered", "failed", "dropped"}
      /\ stage'[n] = "dropped" => cancelled
  BY <1>1 DEF SInv, Placed, Stages
<1>3. Placed'
  BY <1>1, <1>2 DEF SInv, Placed
<1>4. n \in In({"timeline", "dependents", "offered"})
  BY <1>1 DEF In
<1>5. \A k \in 1 .. fed - 1 : stage'[Targets[k]] # "waiting"
  <2>1. \A k \in 1 .. fed - 1 : k \in 1 .. Len(Targets)
    BY TargetsDiffer DEF SInv, Placed
  <2> QED BY <1>2, <2>1, TargetsDiffer DEF SInv, Settling
<1>6. /\ \A m \in Names : stage'[m] = "skipped" => stage[m] = "skipped"
      /\ \A m \in Names : stage'[m] = "received" => stage[m] = "received"
      /\ \A m \in Names : stage'[m] = "dropped" => stage[m] = "dropped" \/ cancelled
  BY <1>2
<1>7. ~ (final /\ ~ cancelled)
  BY <1>4 DEF SInv, Settling
<1>8. Settling'
  BY <1>1, <1>5, <1>6, <1>7 DEF SInv, Settling
<1> QED BY <1>3, <1>8 DEF SInv

LEMMA ReceiveSettles == ASSUME SInv, NEW n \in Names, Receive(n) PROVE SInv'
<1>1. /\ ~ final /\ Running /\ writer = "receive"
      /\ stage' = [stage EXCEPT ![n] = "received"]
      /\ names' = Append(names, n)
      /\ writer' \in {"receive", "write"}
      /\ UNCHANGED <<cancelled, phase, fed, feeding, final, step, done>>
  BY DEF Receive, feeder
<1>2. /\ stage' \in [Names -> Stages]
      /\ \A m \in Names : m # n => stage'[m] = stage[m]
      /\ stage'[n] = "received"
  BY <1>1 DEF SInv, Placed, Stages
<1>3. /\ names' \in Seq(Names) /\ Len(names) \in Nat
      /\ Len(names') = Len(names) + 1
      /\ \A k \in 1 .. Len(names) : names'[k] = names[k]
      /\ names'[Len(names) + 1] = n
  BY <1>1 DEF SInv, Placed
<1>4. Placed'
  BY <1>1, <1>2, <1>3 DEF SInv, Placed
<1>5. \A m \in Names : stage'[m] = "received" =>
         m \in done \/ \E k \in 1 .. Len(names') : names'[k] = m
  <2>1. Len(names) + 1 \in 1 .. Len(names')
    BY <1>3
  <2>2. \A k \in 1 .. Len(names) : k \in 1 .. Len(names')
    BY <1>3
  <2>3. \A m \in Names : stage[m] = "received" =>
           m \in done \/ \E k \in 1 .. Len(names) : names[k] = m
    BY DEF SInv, Settling
  <2> QED BY <1>2, <1>3, <2>1, <2>2, <2>3
<1>6. \A k \in 1 .. fed - 1 : stage'[Targets[k]] # "waiting"
  <2>1. \A k \in 1 .. fed - 1 : k \in 1 .. Len(Targets)
    BY TargetsDiffer DEF SInv, Placed
  <2> QED BY <1>2, <2>1, TargetsDiffer DEF SInv, Settling
<1>7. /\ \A m \in Names : stage'[m] = "skipped" => stage[m] = "skipped"
      /\ \A m \in Names : stage'[m] = "dropped" => stage[m] = "dropped"
  BY <1>2
<1>8. Settling'
  BY <1>1, <1>5, <1>6, <1>7 DEF SInv, Settling, Running
<1> QED BY <1>4, <1>8 DEF SInv

\* The channel closes of itself only when the feeder is through and no reader
\* works on a target.
LEMMA ChannelClosesSettles == ASSUME SInv, ChannelCloses PROVE SInv'
<1>1. /\ final' = TRUE /\ writer = "receive" /\ AllReturned /\ Running
      /\ phase' = "ok" => names = << >>
      /\ step' = step /\ step = 1
      /\ UNCHANGED <<cancelled, fed, feeding, stage, names, done>>
  BY DEF ChannelCloses, feeder, readers, Running, SInv, Placed
<1>2. \A k \in 1 .. Len(names) : 1 <= k
  BY DEF SInv, Placed
<1>3. ~ cancelled =>
         ~ feeding /\ In({"timeline", "dependents", "offered"}) = {}
  <2>1. SUFFICES ASSUME ~ cancelled
                 PROVE  Cardinality(In({"dropped"})) # Readers
    BY <1>1 DEF AllReturned
  <2>2. In({"dropped"}) = {}
    BY <2>1 DEF SInv, Settling, In
  <2> QED BY <2>2, FS_EmptySet, ResolveAssumption
<1>4. In({"timeline", "dependents", "offered"})'
        = In({"timeline", "dependents", "offered"})
  BY <1>1 DEF In
<1>5. Placed'
  BY <1>1 DEF SInv, Placed
<1>6. Settling'
  BY <1>1, <1>2, <1>3, <1>4 DEF SInv, Settling
<1> QED BY <1>5, <1>6 DEF SInv

LEMMA WriteChunkSettles == ASSUME SInv, WriteChunk PROVE SInv'
<1>1. /\ writer = "write" /\ step = 1
      /\ UNCHANGED <<cancelled, phase, fed, feeding, stage, final, names, step, done>>
  BY DEF WriteChunk, feeder, readers, SInv, Placed
<1>2. In({"timeline", "dependents", "offered"})'
        = In({"timeline", "dependents", "offered"})
  BY <1>1 DEF In
<1>3. \A k \in 1 .. Len(names) : 1 <= k
  BY DEF SInv, Placed
<1>4. Placed'
  BY <1>1 DEF SInv, Placed
<1>5. Settling'
  BY <1>1, <1>2, <1>3 DEF SInv, Settling
<1> QED BY <1>4, <1>5 DEF SInv

LEMMA RecordNameSettles == ASSUME SInv, RecordName PROVE SInv'
<1>1. /\ writer = "record" /\ Running /\ step \in Nat
      /\ done' = done \cup {names[step]}
      /\ step' = step + 1
      /\ UNCHANGED <<cancelled, phase, fed, feeding, stage, writer, final, names>>
  BY DEF RecordName, feeder, readers, SInv, Placed
<1>2. ASSUME NEW n \in Names, stage[n] = "received", n \notin done'
      PROVE  \E k \in 1 .. Len(names) : names[k] = n /\ step + 1 <= k
  <2>1. PICK k \in 1 .. Len(names) : names[k] = n /\ step <= k
    BY <1>1, <1>2 DEF SInv, Settling
  <2>2. k # step
    BY <1>1, <1>2, <2>1
  <2>3. step + 1 <= k
    BY <1>1, <2>1, <2>2
  <2> QED BY <2>1, <2>3
<1>3. In({"timeline", "dependents", "offered"})'
        = In({"timeline", "dependents", "offered"})
  BY <1>1 DEF In
<1>4. Placed'
  BY <1>1 DEF SInv, Placed
<1>5. Settling'
  BY <1>1, <1>2, <1>3 DEF SInv, Settling
<1> QED BY <1>4, <1>5 DEF SInv

LEMMA SyncFileSettles == ASSUME SInv, SyncFile PROVE SInv'
<1>1. /\ writer = "record" /\ step > Len(names) /\ Running
      /\ names' = << >> /\ step' = 1 /\ writer' = "receive"
      /\ phase' = IF final THEN "ok" ELSE phase
      /\ UNCHANGED <<cancelled, fed, feeding, stage, final, done>>
  BY DEF SyncFile, feeder, readers
<1>2. \A n \in Names : stage[n] = "received" => n \in done
  <2>1. \A k \in 1 .. Len(names) : ~ (step <= k)
    BY <1>1 DEF SInv, Placed
  <2> QED BY <1>1, <2>1 DEF SInv, Settling
<1>3. In({"timeline", "dependents", "offered"})'
        = In({"timeline", "dependents", "offered"})
  BY <1>1 DEF In
<1>4. Placed'
  BY <1>1 DEF SInv, Placed
<1>5. Settling'
  BY <1>1, <1>2, <1>3 DEF SInv, Settling, Running
<1> QED BY <1>4, <1>5 DEF SInv

LEMMA SInvStep == ASSUME SInv, [Next]_vars PROVE SInv'
<1>1. CASE Skip \/ Feed \/ FeederEnds
  BY <1>1, FeederSettles
<1>2. CASE \E n \in Names : Reader(n)
  BY <1>2, ReaderSettles
<1>3. CASE WriteFails \/ RecordFails \/ SyncFails \/ Kill \/ PowerLoss \/ Start
  <2>1. Volatile /\ phase' # "ok"
    BY <1>3 DEF WriteFails, RecordFails, SyncFails, Kill, PowerLoss, Start, Dies
  <2> QED BY <2>1, RestartSettles
<1>4. CASE (\E n \in Names : Learn(n)) \/ Declare \/ Forget \/ Cancel \/ UNCHANGED vars
  <2>1. /\ cancelled' = cancelled \/ cancelled' = TRUE
        /\ UNCHANGED <<phase, fed, feeding, stage, writer, final, names, step, done>>
    BY <1>4 DEF Learn, Declare, Forget, Cancel, vars, feeder, readers, writing
  <2>2. In({"timeline", "dependents", "offered"})'
          = In({"timeline", "dependents", "offered"})
    BY <2>1 DEF In
  <2> QED BY <2>1, <2>2 DEF SInv, Placed, Settling
<1>5. CASE Writer
  BY <1>3, <1>5, ReceiveSettles, ChannelClosesSettles, WriteChunkSettles,
     RecordNameSettles, SyncFileSettles DEF Writer
<1> QED BY <1>1, <1>2, <1>3, <1>4, <1>5 DEF Next

\* When a run ended well the feeder is through, nobody works on a target, and
\* the writer holds none.
LEMMA SInvImplies == SInv => SettlesEveryTarget
<1> SUFFICES ASSUME SInv, phase = "ok", ~ cancelled, NEW k \in 1 .. Len(Targets)
             PROVE  stage[Targets[k]] = "failed" \/ Targets[k] \in done
  BY DEF SettlesEveryTarget
<1>1. /\ final /\ names = << >> /\ ~ feeding /\ fed = Len(Targets) + 1
      /\ In({"timeline", "dependents", "offered"}) = {}
  BY DEF SInv, Settling
<1>2. Targets[k] \in Names /\ k \in 1 .. fed - 1
  BY <1>1, TargetsDiffer
<1>3. stage[Targets[k]] \in Stages \ {"waiting", "timeline", "dependents", "offered",
                                      "dropped"}
  BY <1>1, <1>2 DEF SInv, Placed, Settling, In
<1>4. Len(names) = 0
  BY <1>1
<1>5. stage[Targets[k]] \in {"skipped", "received"} => Targets[k] \in done
  BY <1>2, <1>4 DEF SInv, Settling
<1> QED BY <1>3, <1>5 DEF Stages

\* resolve.go, Run: a run that ends without an error and was not interrupted
\* leaves no target out: it is recorded, or its reads failed.
THEOREM EveryTargetSettles == Spec => []SettlesEveryTarget
<1>1. Init => SInv
  BY NothingSettledYet DEF Init
<1>2. SInv /\ [Next]_vars => SInv'
  BY SInvStep
<1> QED BY <1>1, <1>2, SInvImplies, PTL DEF Spec

-----------------------------------------------------------------------------
(* No window of a declaration that was resolved in step is left behind.    *)

\* d's range opens a window of version v on the timeline R.
Opens(d, R, v) == \E w \in WindowsOf(R, d.admits, d.published) : w.version = v

\* Edge e is of declaration d.
Of(d, e) == e.by = d.by /\ \E r \in Releases[d.on] : r.version = e.version

\* A window that was opened in step with the declaration is not withdrawn:
\* what the timeline gains is younger than all of it, so a step stays a step
\* and its window ends later than it begins.
LEMMA WindowStays ==
    ASSUME NEW d \in Declarations, NEW T \in SUBSET Releases[d.on], NEW R \in SUBSET T,
           InStep(d, R), NEW v, Opens(d, R, v)
    PROVE  Opens(d, T, v)
<1> DEFINE at == d.published
           A == Admitted(R, d.admits)
           B == Admitted(T, d.admits)
           After(S, r) == {s.published : s \in {o \in S : o.published > r.published}}
                            \cup {OpenInterval}
           window(S, r) == [version |-> r.version,
                            from |-> Later(at, r.published),
                            to |-> Least(After(S, r))]
<1>1. at \in Nat /\ Releases[d.on] \subseteq Release
  BY ResolveAssumption DEF Declaration
<1>2. /\ A \subseteq R /\ B \subseteq T /\ A \subseteq B
      /\ \A r \in B : r.published \in Nat
      /\ \A r \in B \ A : r.published > at /\ \A s \in A : s.published < r.published
  BY <1>1 DEF Admitted, InStep, Release
<1>3. PICK r \in StepsOf(A) : ~ Empty(window(StepsOf(A), r)) /\ r.version = v
  <2>1. PICK w \in WindowsOf(R, d.admits, d.published) : w.version = v
    BY DEF Opens
  <2>2. /\ ~ Empty(w)
        /\ \E r \in StepsOf(A) : w = window(StepsOf(A), r)
    BY <2>1 DEF WindowsOf
  <2>3. PICK r \in StepsOf(A) : w = window(StepsOf(A), r)
    BY <2>2
  <2>4. window(StepsOf(A), r).version = r.version
    OBVIOUS
  <2> HIDE DEF window
  <2> QED BY <2>1, <2>2, <2>3, <2>4
<1>4. StepsOf(A) \subseteq A /\ StepsOf(B) \subseteq B /\ r \in A /\ r \in B
  BY <1>2 DEF StepsOf
<1>5. r \in StepsOf(B)
  BY <1>2, <1>3, <1>4 DEF StepsOf
<1>6. \A S \in SUBSET B : /\ After(S, r) \in SUBSET Nat /\ After(S, r) # {}
                          /\ OpenInterval \in After(S, r)
  BY <1>2, OpenIntervalAssumption
<1>7. Later(at, r.published) \in Int
  BY <1>1, <1>2, <1>4 DEF Later
<1>8. \A x \in After(StepsOf(A), r) : Later(at, r.published) < x
  <2>1. /\ After(StepsOf(A), r) \in SUBSET Nat
        /\ Least(After(StepsOf(A), r)) \in After(StepsOf(A), r)
        /\ \A x \in After(StepsOf(A), r) : Least(After(StepsOf(A), r)) <= x
    <3>1. After(StepsOf(A), r) \in SUBSET Nat /\ After(StepsOf(A), r) # {}
      BY <1>2, <1>4, <1>6
    <3> HIDE DEF After
    <3> QED BY <3>1, LeastNatural
  <2>2. Later(at, r.published) < Least(After(StepsOf(A), r))
    BY <1>3, <1>7, <2>1 DEF Empty
  <2> HIDE DEF After
  <2> QED BY <1>7, <2>1, <2>2
<1>9. \A s \in StepsOf(B) : s.published > r.published => Later(at, r.published) < s.published
  <2>1. SUFFICES ASSUME NEW s \in StepsOf(B), s.published > r.published
                 PROVE  Later(at, r.published) < s.published
    OBVIOUS
  <2>2. CASE s \in A
    <3>1. s \in StepsOf(A)
      BY <1>2, <2>1, <2>2 DEF StepsOf
    <3>2. s.published \in After(StepsOf(A), r)
      BY <2>1, <3>1
    <3> QED BY <1>8, <3>2
  <2>3. CASE s \notin A
    BY <1>1, <1>2, <1>4, <2>1, <2>3 DEF Later
  <2> QED BY <2>2, <2>3
<1>10. \A x \in After(StepsOf(B), r) : Later(at, r.published) < x
  <2>1. OpenInterval \in After(StepsOf(A), r)
    OBVIOUS
  <2> QED BY <1>8, <1>9, <2>1
<1>11. ~ Empty(window(StepsOf(B), r))
  <2>1. Least(After(StepsOf(B), r)) \in After(StepsOf(B), r)
        /\ After(StepsOf(B), r) \in SUBSET Nat
    <3>1. After(StepsOf(B), r) \in SUBSET Nat /\ After(StepsOf(B), r) # {}
      BY <1>2, <1>4, <1>6
    <3> HIDE DEF After
    <3> QED BY <3>1, LeastNatural
  <2> QED BY <1>7, <1>10, <2>1 DEF Empty
<1>12. window(StepsOf(B), r) \in WindowsOf(T, d.admits, d.published)
  BY <1>5, <1>11 DEF WindowsOf
<1>13. window(StepsOf(B), r).version = v
  BY <1>3
<1> QED BY <1>12, <1>13 DEF Opens

\* No two edges have one id.
OneEdge == \A e, f \in edges : SameEdge(e, f) => e = f

\* A timeline was read from the graph, which forgets no release.
Grown == \A n \in Names : timeline[n] \subseteq known[n]

\* What is offered was resolved in step, or is known to be late.
Noted ==
    \A n \in Names : stage[n] = "offered" =>
        \A d \in read[n] \ late : InStep(d, timeline[n])

\* Each edge of a declaration that was always in step was opened in step, on
\* a timeline no longer than the one last read.
Opened ==
    \A d \in Declarations \ late : \A e \in edges \cup pending :
        Of(d, e) => \E R \in SUBSET timeline[d.on] :
                        InStep(d, R) /\ Opens(d, R, e.version)

WInv == OneEdge /\ Grown /\ Noted /\ Opened

LEMMA WInvInit == Init => WInv
<1> SUFFICES ASSUME Init PROVE WInv
  OBVIOUS
<1>1. \A n \in Names : timeline[n] = {} /\ stage[n] = "waiting"
  BY DEF Init
<1> QED BY <1>1 DEF Init, WInv, OneEdge, Grown, Noted, Opened

\* A step that opens nothing.
LEMMA NothingOpens ==
    ASSUME WInv, late \subseteq late', edges' \cup pending' \subseteq edges \cup pending,
           \A n \in Names : timeline[n] \subseteq timeline'[n]
    PROVE  Opened'
<1> SUFFICES ASSUME NEW d \in Declarations \ late', NEW e \in edges' \cup pending', Of(d, e)
             PROVE  \E R \in SUBSET timeline'[d.on] : InStep(d, R) /\ Opens(d, R, e.version)
  BY DEF Opened
<1>1. d.on \in Names
  BY ResolveAssumption DEF Declaration
<1>2. PICK R \in SUBSET timeline[d.on] : InStep(d, R) /\ Opens(d, R, e.version)
  BY DEF WInv, Opened
<1> QED BY <1>1, <1>2

\* Nothing is read, and nobody comes to offer.
LEMMA NothingIsRead ==
    ASSUME WInv, UNCHANGED <<timeline, read, late>>,
           \A n \in Names : known[n] \subseteq known'[n],
           \A n \in Names : stage'[n] = "offered" => stage[n] = "offered"
    PROVE  Grown' /\ Noted'
BY DEF WInv, Grown, Noted

\* The rows that wait to be written have distinct ids.
LEMMA MergeKeepsOneEdge ==
    ASSUME RInv, OneEdge, NEW chunk \in SUBSET pending, edges' = Merged(edges, chunk)
    PROVE  OneEdge'
<1>1. ASSUME NEW e \in chunk, NEW f \in chunk, SameEdge(e, f) PROVE e = f
  <2>1. PICK n \in Held : e \in Rows(n)
    BY DEF RInv, Progress
  <2>2. PICK m \in Held : f \in Rows(m)
    BY DEF RInv, Progress
  <2>3. n \in Names /\ m \in Names
    BY <2>1, <2>2 DEF Held, RInv, Shaped
  <2> QED BY <1>1, <2>1, <2>2, <2>3, RowsAgree DEF RInv
<1>2. \A e, f : SameEdge(e, f) <=> SameEdge(f, e)
  BY DEF SameEdge
<1> QED BY <1>1, <1>2 DEF OneEdge, Merged

LEMMA WriteKeepsWindows == ASSUME RInv, WInv, WriteChunk \/ WriteFails PROVE WInv'
<1>1. PICK chunk \in SUBSET pending :
         /\ edges' = Merged(edges, chunk)
         /\ pending' \subseteq pending
  <2>1. CASE WriteChunk
    BY <2>1 DEF WriteChunk, Chunks, kSubset
  <2>2. CASE WriteFails
    BY <2>2 DEF WriteFails, Dies, Volatile, Chunks, kSubset
  <2> QED BY <2>1, <2>2
<1>2. UNCHANGED <<known, timeline, read, late>>
  BY DEF WriteChunk, WriteFails, Dies, Volatile, graph, readers
<1>3. \A n \in Names : stage'[n] = "offered" => stage[n] = "offered"
  BY DEF WriteChunk, WriteFails, Dies, Volatile, readers
<1>4. edges' \cup pending' \subseteq edges \cup pending
  BY <1>1 DEF Merged
<1>5. OneEdge'
  BY <1>1, MergeKeepsOneEdge DEF WInv
<1>6. Opened'
  BY <1>2, <1>4, NothingOpens
<1>7. Grown' /\ Noted'
  BY <1>2, <1>3, NothingIsRead
<1> QED BY <1>5, <1>6, <1>7 DEF WInv

\* The rows of a target are of the declarations it was read with, and each of
\* those was in step or is late.
LEMMA ReceiveKeepsWindows == ASSUME RInv, WInv, NEW n \in Names, Receive(n) PROVE WInv'
<1>1. /\ stage[n] = "offered" /\ stage' = [stage EXCEPT ![n] = "received"]
      /\ pending' = pending \cup Rows(n)
      /\ UNCHANGED <<known, edges, timeline, read, late>>
  BY DEF Receive, Rows, graph
<1>2. ASSUME NEW d \in Declarations \ late, NEW e \in Rows(n), Of(d, e)
      PROVE  \E R \in SUBSET timeline[d.on] : InStep(d, R) /\ Opens(d, R, e.version)
  <2>1. PICK c \in read[n] :
           \E w \in WindowsOf(timeline[n], c.admits, c.published) :
              e = RowOf(c, w) /\ \E r \in Releases[n] : r.version = w.version
    BY RowsFrom DEF RInv
  <2>2. PICK w \in WindowsOf(timeline[n], c.admits, c.published) :
           e = RowOf(c, w) /\ \E r \in Releases[n] : r.version = w.version
    BY <2>1
  <2>3. e.by = c.by /\ e.version = w.version
    BY <2>2 DEF RowOf
  <2>4. d.on = n
    <3>1. d.on \in Names
      BY ResolveAssumption DEF Declaration
    <3>2. PICK r \in Releases[n] : r.version = w.version
      BY <2>2
    <3>3. PICK s \in Releases[d.on] : s.version = e.version
      BY <1>2 DEF Of
    <3> QED BY <2>3, <3>1, <3>2, <3>3, ResolveAssumption
  <2>5. c = d
    <3>1. c \in Declarations /\ c.on = n
      BY <2>1 DEF RInv, Shaped
    <3>2. d \in Declarations /\ c.by = d.by /\ c.on = d.on
      BY <1>2, <2>3, <2>4, <3>1 DEF Of
    <3> QED BY <3>1, <3>2, ResolveAssumption
  <2>6. InStep(d, timeline[n])
    BY <1>1, <1>2, <2>1, <2>5 DEF WInv, Noted
  <2>7. Opens(d, timeline[n], e.version)
    BY <2>2, <2>3, <2>5 DEF Opens
  <2> QED BY <2>4, <2>6, <2>7
<1>3. Opened'
  BY <1>1, <1>2 DEF WInv, Opened
<1>4. \A m \in Names : stage'[m] = "offered" => stage[m] = "offered"
  BY <1>1 DEF RInv, Shaped
<1>5. Grown' /\ Noted'
  BY <1>1, <1>4, NothingIsRead
<1> QED BY <1>1, <1>3, <1>5 DEF WInv, OneEdge

\* A reader reads the graph, and notes what is late when it has both reads.
LEMMA ReaderKeepsWindows == ASSUME RInv, WInv, NEW n \in Names, Reader(n) PROVE WInv'
<1>1. /\ UNCHANGED <<known, declared, edges, pending>>
      /\ stage[n] \in {"timeline", "dependents", "offered"}
  BY DEF Reader, ReadTimeline, ReadDependents, ReadFails, DropRows, graph, writing
<1>2. OneEdge'
  BY <1>1 DEF WInv, OneEdge
<1>3. CASE ReadTimeline(n)
  <2>1. /\ timeline' = [timeline EXCEPT ![n] = known[n]]
        /\ stage' = [stage EXCEPT ![n] = "dependents"]
        /\ UNCHANGED <<read, late>>
    BY <1>3 DEF ReadTimeline
  <2>2. /\ timeline'[n] = known[n]
        /\ \A m \in Names : m # n => timeline'[m] = timeline[m] /\ stage'[m] = stage[m]
        /\ stage'[n] = "dependents"
    BY <2>1 DEF RInv, Shaped
  <2>3. \A m \in Names : timeline[m] \subseteq timeline'[m]
    BY <2>2 DEF WInv, Grown
  <2>4. Opened'
    BY <1>1, <2>1, <2>3, NothingOpens
  <2>5. Grown' /\ Noted'
    BY <1>1, <2>1, <2>2 DEF WInv, Grown, Noted
  <2> QED BY <1>2, <2>4, <2>5 DEF WInv
<1>4. CASE ReadDependents(n)
  <2> DEFINE found == {d \in declared : d.on = n}
  <2>1. /\ read' = [read EXCEPT ![n] = found]
        /\ late' = late \cup {d \in found : ~ InStep(d, timeline[n])}
        /\ stage' = [stage EXCEPT ![n] = "offered"]
        /\ timeline' = timeline
    BY <1>4 DEF ReadDependents
  <2>2. /\ read'[n] = found
        /\ \A m \in Names : m # n => read'[m] = read[m] /\ stage'[m] = stage[m]
    BY <2>1 DEF RInv, Shaped
  <2>3. \A d \in found \ late' : InStep(d, timeline[n])
    BY <2>1
  <2> HIDE DEF found
  <2>4. late \subseteq late'
    BY <2>1
  <2>5. Opened'
    BY <1>1, <2>1, <2>4, NothingOpens
  <2>6. Noted'
    BY <2>1, <2>2, <2>3, <2>4 DEF WInv, Noted
  <2>7. Grown'
    BY <1>1, <2>1 DEF WInv, Grown
  <2> QED BY <1>2, <2>5, <2>6, <2>7 DEF WInv
<1>5. CASE ReadFails(n) \/ DropRows(n)
  <2>1. /\ UNCHANGED <<timeline, read, late>>
        /\ \E s \in {"failed", "dropped"} : stage' = [stage EXCEPT ![n] = s]
    BY <1>5 DEF ReadFails, DropRows
  <2>2. \A m \in Names : stage'[m] = "offered" => stage[m] = "offered"
    BY <2>1 DEF RInv, Shaped
  <2>3. Opened'
    BY <1>1, <2>1, NothingOpens
  <2>4. Grown' /\ Noted'
    BY <1>1, <2>1, <2>2, NothingIsRead
  <2> QED BY <1>2, <2>3, <2>4 DEF WInv
<1> QED BY <1>3, <1>4, <1>5 DEF Reader

\* Whatever else happens reads nothing, offers nothing and adds no row.
LEMMA OthersKeepWindows ==
    ASSUME WInv, UNCHANGED <<edges, timeline, read, late>>, pending' \subseteq pending,
           \A n \in Names : known[n] \subseteq known'[n],
           \A n \in Names : stage'[n] = "offered" => stage[n] = "offered"
    PROVE  WInv'
<1>1. OneEdge'
  BY DEF WInv, OneEdge
<1>2. Opened'
  BY NothingOpens
<1> QED BY <1>1, <1>2, NothingIsRead DEF WInv

LEMMA WInvStep == ASSUME RInv, WInv, [Next]_vars PROVE WInv'
<1>1. CASE \E n \in Names : Reader(n)
  BY <1>1, ReaderKeepsWindows
<1>2. CASE \E n \in Names : Receive(n)
  BY <1>2, ReceiveKeepsWindows
<1>3. CASE WriteChunk \/ WriteFails
  BY <1>3, WriteKeepsWindows
<1>4. CASE \/ FeederEnds \/ ChannelCloses \/ RecordName \/ SyncFile
           \/ Declare \/ Forget \/ Cancel \/ UNCHANGED vars
  <2>1. UNCHANGED <<known, edges, timeline, read, late, stage, pending>>
    BY <1>4 DEF FeederEnds, ChannelCloses, RecordName, SyncFile, Declare, Forget, Cancel,
                vars, graph, readers, writing
  <2> QED BY <2>1, OthersKeepWindows
<1>5. CASE RecordFails \/ SyncFails \/ Kill \/ PowerLoss \/ Start
  <2>1. UNCHANGED <<known, edges, timeline, read, late>> /\ pending' = {}
    BY <1>5 DEF RecordFails, SyncFails, Kill, PowerLoss, Start, Dies, Volatile, graph
  <2>2. stage' = [n \in Names |-> "waiting"]
    BY <1>5 DEF RecordFails, SyncFails, Kill, PowerLoss, Start, Dies, Volatile
  <2>3. \A n \in Names : stage'[n] = "waiting"
    BY <2>2
  <2> QED BY <2>1, <2>3, OthersKeepWindows
<1>6. CASE Skip \/ Feed
  <2>1. /\ UNCHANGED <<known, edges, timeline, read, late, pending>>
        /\ \E s \in {"skipped", "timeline"} : stage' = [stage EXCEPT ![Targets[fed]] = s]
    BY <1>6 DEF Skip, Feed, graph, writing
  <2>2. \A n \in Names : stage'[n] = "offered" => stage[n] = "offered"
    BY <2>1 DEF RInv, Shaped
  <2> QED BY <2>1, <2>2, OthersKeepWindows
<1>7. ASSUME NEW n \in Names, Learn(n) PROVE WInv'
  <2>1. UNCHANGED <<edges, timeline, read, late, stage, pending>>
    BY <1>7 DEF Learn, readers, writing
  <2>2. \A m \in Names : known[m] \subseteq known'[m]
    BY <1>7 DEF Learn, RInv, Shaped
  <2> QED BY <2>1, <2>2, OthersKeepWindows
<1> QED BY <1>1, <1>2, <1>3, <1>4, <1>5, <1>6, <1>7 DEF Next, Writer

\* An edge of a recorded declaration has the id of one of its windows, which
\* is in the graph; so it is that window.
LEMMA WInvImplies ==
    ASSUME RInv, WInv, NEW n \in Full, NEW d \in read[n] \ late
    PROVE  Present(d) = Wanted(d)
<1>1. n \in Names /\ d.on = n /\ d \in Declarations
  BY DEF RInv, Shaped, Full
<1>2. Wanted(d) \subseteq Present(d)
  BY FullHasWindows
<1>3. ASSUME NEW e \in Present(d) PROVE e \in Wanted(d)
  <2>1. e \in edges /\ Of(d, e)
    BY DEF Present, Of
  <2>2. PICK R \in SUBSET timeline[n] : InStep(d, R) /\ Opens(d, R, e.version)
    BY <1>1, <2>1 DEF WInv, Opened
  <2>3. Opens(d, timeline[n], e.version)
    <3>1. timeline[n] \in SUBSET Releases[d.on]
      BY <1>1 DEF RInv, Shaped
    <3> QED BY <1>1, <2>2, <3>1, WindowStays
  <2>4. PICK w \in WindowsOf(timeline[n], d.admits, d.published) : w.version = e.version
    BY <2>3 DEF Opens
  <2>5. RowOf(d, w) \in Wanted(d) /\ SameEdge(e, RowOf(d, w))
    BY <1>1, <2>1, <2>4 DEF Wanted, SameEdge, RowOf, Of
  <2>6. RowOf(d, w) \in edges
    BY <1>2, <2>5 DEF Present
  <2> QED BY <2>1, <2>5, <2>6 DEF WInv, OneEdge
<1> QED BY <1>2, <1>3

\* resolve.go:24-26: re-running updates windows in place.  A declaration that
\* was only ever resolved in step with the timeline has, once a Record claimed
\* its target, exactly the windows of its last pass in the graph.
THEOREM NothingIsStale == Spec => []NoStaleWindow
<1>1. RInv /\ WInv => NoStaleWindow
  BY FewAreMissing, WInvImplies DEF NoStaleWindow
<1>2. RInv /\ [Next]_vars => RInv'
  BY RInvStep
<1>3. RInv /\ WInv /\ [Next]_vars => WInv'
  BY WInvStep
<1> QED BY <1>1, <1>2, <1>3, RInvInit, WInvInit, PTL DEF Spec

-----------------------------------------------------------------------------
(* What the edges' ids tell apart, and what a restart reads again.         *)

\* Two edges, or two rows that wait for a statement, of one dependent and one
\* version are one.
IdsTellApart == OneEdge /\ \A e, f \in pending : SameEdge(e, f) => e = f

\* No reader has a target that was recorded, or that this run takes for it.
RecordedStaysAway ==
    Running => \A n \in SoundClaims(file) \cup done :
                  stage[n] \notin {"timeline", "dependents", "offered"}

\* resolve.go:24-26: "The edge needs no discriminator in its id".  A dependent
\* has one edge to a version at most, and no chunk holds two rows with one
\* id, so the graph does not depend on how the rows are chunked and ordered.
THEOREM EdgesNeedNoDiscriminator == Spec => []IdsTellApart
<1>1. RInv /\ WInv => IdsTellApart
  <2>1. SUFFICES ASSUME RInv, WInv, NEW e \in pending, NEW f \in pending, SameEdge(e, f)
                 PROVE  e = f
    BY DEF IdsTellApart, WInv
  <2>2. PICK n \in Held : e \in Rows(n)
    BY <2>1 DEF RInv, Progress
  <2>3. PICK m \in Held : f \in Rows(m)
    BY <2>1 DEF RInv, Progress
  <2>4. n \in Names /\ m \in Names
    BY <2>1, <2>2, <2>3 DEF Held, RInv, Shaped
  <2> QED BY <2>1, <2>2, <2>3, <2>4, RowsAgree DEF RInv
<1>2. RInv /\ [Next]_vars => RInv'
  BY RInvStep
<1>3. RInv /\ WInv /\ [Next]_vars => WInv'
  BY WInvStep
<1> QED BY <1>1, <1>2, <1>3, RInvInit, WInvInit, PTL DEF Spec

\* resolve.go, Run: a target that a Record claimed, in this run or before any
\* restart, is not read, so its rows are never offered a second time.
THEOREM RecordedIsNotRead == Spec => []RecordedStaysAway
<1>1. RInv => RecordedStaysAway
  <2>1. SUFFICES ASSUME RInv, Running, NEW n \in SoundClaims(file) \cup done
                 PROVE  stage[n] \notin {"timeline", "dependents", "offered"}
    BY DEF RecordedStaysAway
  <2>2. stage[n] \in {"waiting", "skipped", "received"}
    BY <2>1 DEF RInv, Ordered
  <2> QED BY <2>2
<1>2. RInv /\ [Next]_vars => RInv'
  BY RInvStep
<1> QED BY <1>1, <1>2, RInvInit, PTL DEF Spec

-----------------------------------------------------------------------------
(* Types.                                                                  *)

\* What the invariants above do not say of the variables.
Typed ==
    /\ run \in 1 .. MaxRuns
    /\ phase \in {"running", "ok", "down"}
    /\ cancelled \in BOOLEAN /\ feeding \in BOOLEAN /\ final \in BOOLEAN
    /\ writer \in {"receive", "write", "record"}
    /\ writer # "record" => step = 1
    /\ step <= Len(names) + 1
    /\ late \subseteq Declarations
    /\ edges \subseteq Edge

\* A window begins at an instant a release or the dependent was published at
\* and ends at another or never.
LEMMA WindowsAreWindows ==
    ASSUME NEW R \in SUBSET Release, NEW admits, NEW at \in Nat
    PROVE  WindowsOf(R, admits, at) \subseteq Window
<1> DEFINE steps == StepsOf(Admitted(R, admits))
           after(r) == {s.published : s \in {o \in steps : o.published > r.published}}
           window(r) == [version |-> r.version,
                         from |-> Later(at, r.published),
                         to |-> Least(after(r) \cup {OpenInterval})]
<1>1. \A w \in WindowsOf(R, admits, at) : \E r \in steps : w = window(r)
  BY DEF WindowsOf
<1>2. \A r \in steps : r.version \in Versions /\ r.published \in Nat
  BY DEF StepsOf, Admitted, Release
<1>3. ASSUME NEW r \in steps PROVE window(r) \in Window
  <2>1. after(r) \cup {OpenInterval} \in SUBSET Nat /\ after(r) \cup {OpenInterval} # {}
    BY <1>2, OpenIntervalAssumption
  <2>2. Least(after(r) \cup {OpenInterval}) \in Nat
    <3> HIDE DEF after
    <3> QED BY <2>1, LeastNatural
  <2>3. Later(at, r.published) \in Int
    BY <1>2 DEF Later
  <2> HIDE DEF after, steps
  <2> QED BY <1>2, <2>2, <2>3 DEF Window
<1> QED BY <1>1, <1>3

\* The rows of a target are edges.
LEMMA RowsAreEdges ==
    ASSUME Shaped, NEW n \in Names
    PROVE  Rows(n) \subseteq Edge
<1> SUFFICES ASSUME NEW d \in read[n],
                    NEW w \in WindowsOf(timeline[n], d.admits, d.published)
             PROVE  RowOf(d, w) \in Edge
  BY DEF Rows, RowsOf
<1>1. d \in Declaration
  BY ResolveAssumption DEF Shaped
<1>2. timeline[n] \in SUBSET Release /\ d.published \in Nat /\ d.by \in STRING
  BY <1>1 DEF Shaped, Declaration
<1>3. w \in Window
  BY <1>2, WindowsAreWindows
<1> QED BY <1>2, <1>3 DEF RowOf, Window, Edge

LEMMA PendingAreEdges == ASSUME RInv PROVE pending \subseteq Edge
<1>1. Held \subseteq Names
  BY DEF Held, RInv, Shaped
<1> QED BY <1>1, RowsAreEdges DEF RInv, Progress

LEMMA TypedInit == Init => Typed
<1> SUFFICES ASSUME Init PROVE Typed
  OBVIOUS
<1>1. run \in 1 .. MaxRuns
  BY ResolveAssumption DEF Init
<1>2. step = 1 /\ Len(names) = 0
  BY DEF Init
<1>3. /\ phase \in {"running", "ok", "down"}
      /\ cancelled \in BOOLEAN /\ feeding \in BOOLEAN /\ final \in BOOLEAN
      /\ writer \in {"receive", "write", "record"}
      /\ late = {} /\ edges = {}
  BY DEF Init
<1> QED BY <1>1, <1>2, <1>3 DEF Typed

LEMMA TypedStep == ASSUME RInv, Typed, [Next]_vars PROVE Typed'
<1>1. CASE \/ Skip \/ Feed \/ FeederEnds \/ Cancel \/ Declare \/ Forget \/ UNCHANGED vars
           \/ \E n \in Names : Learn(n)
  <2>1. /\ UNCHANGED <<run, phase, final, writer, step, names, late, edges>>
        /\ cancelled' \in BOOLEAN /\ feeding' \in BOOLEAN
    BY <1>1 DEF Skip, Feed, FeederEnds, Cancel, Declare, Forget, Learn, vars, feeder,
                readers, writing, Typed
  <2> QED BY <2>1 DEF Typed
<1>2. ASSUME NEW n \in Names, Reader(n) PROVE Typed'
  <2>1. UNCHANGED <<run, phase, cancelled, feeding, final, writer, step, names, edges>>
    BY <1>2 DEF Reader, ReadTimeline, ReadDependents, ReadFails, DropRows, feeder, writing
  <2>2. late' \subseteq Declarations
    BY <1>2 DEF Reader, ReadTimeline, ReadDependents, ReadFails, DropRows, Typed, RInv,
                Shaped
  <2> QED BY <2>1, <2>2 DEF Typed
<1>3. ASSUME NEW n \in Names, Receive(n) PROVE Typed'
  <2>1. /\ UNCHANGED <<run, phase, cancelled, feeding, final, step, late, edges>>
        /\ writer = "receive" /\ writer' \in {"receive", "write"}
        /\ names' = Append(names, n) /\ names \in Seq(Names)
    BY <1>3 DEF Receive, feeder, RInv, Shaped
  <2>2. step = 1 /\ Len(names') = Len(names) + 1 /\ Len(names) \in Nat
    BY <2>1 DEF Typed
  <2> QED BY <2>1, <2>2 DEF Typed
<1>4. CASE ChannelCloses \/ WriteChunk
  <2>1. /\ UNCHANGED <<run, cancelled, feeding, step, names, late>>
        /\ phase' \in {phase, "ok"} /\ final' \in {final, TRUE}
        /\ writer' \in {writer, "write", "record"} /\ writer # "record"
    BY <1>4 DEF ChannelCloses, WriteChunk, feeder, readers, Typed
  <2>2. edges' \subseteq edges \cup pending
    BY <1>4 DEF ChannelCloses, WriteChunk, Chunks, kSubset, Merged
  <2> QED BY <2>1, <2>2, PendingAreEdges DEF Typed
<1>5. CASE RecordName
  <2>1. /\ UNCHANGED <<run, phase, cancelled, feeding, final, writer, names, late, edges>>
        /\ writer = "record" /\ step' = step + 1 /\ step \in 1 .. Len(names)
    BY <1>5 DEF RecordName, feeder, readers, RInv, Shaped
  <2> QED BY <2>1 DEF Typed
<1>6. CASE SyncFile
  <2>1. /\ UNCHANGED <<run, cancelled, feeding, final, late, edges>>
        /\ writer' = "receive" /\ step' = 1 /\ Len(names') = 0
        /\ phase' \in {phase, "ok"}
    BY <1>6 DEF SyncFile, feeder, readers
  <2> QED BY <2>1 DEF Typed
<1>7. CASE WriteFails \/ RecordFails \/ SyncFails \/ Kill \/ PowerLoss \/ Start
  <2>1. Dies \/ Start
    BY <1>7 DEF WriteFails, RecordFails, SyncFails, Kill, PowerLoss
  <2>2. edges' \subseteq edges \cup pending
    BY <1>7 DEF WriteFails, RecordFails, SyncFails, Kill, PowerLoss, Start, Dies, Chunks,
                kSubset, Merged
  <2>3. run' \in 1 .. MaxRuns
    BY <2>1, ResolveAssumption DEF Dies, Start, Typed
  <2>4. phase' \in {"running", "down"}
    BY <2>1 DEF Dies, Start
  <2>5. /\ cancelled' = FALSE /\ feeding' = TRUE /\ final' = FALSE
        /\ writer' = "receive" /\ step' = 1 /\ names' = << >> /\ late' = late
    BY <2>1 DEF Dies, Start, Volatile
  <2>6. edges' \subseteq Edge
    BY <2>2, PendingAreEdges DEF Typed
  <2>7. step' <= Len(names') + 1
    BY <2>5
  <2>8. late' \subseteq Declarations
    BY <2>5 DEF Typed
  <2> QED BY <2>3, <2>4, <2>5, <2>6, <2>7, <2>8 DEF Typed
<1> QED BY <1>1, <1>2, <1>3, <1>4, <1>5, <1>6, <1>7 DEF Next, Writer

LEMMA TypesFollow == RInv /\ Typed => TypeOK
<1> SUFFICES ASSUME RInv, Typed PROVE TypeOK
  OBVIOUS
<1>1. step \in 1 .. Len(names) + 1
  BY DEF Typed, RInv, Shaped
<1> QED BY <1>1, PendingAreEdges DEF TypeOK, Typed, RInv, Shaped

\* The variables keep their types: in particular every row and every edge has
\* a version of a known release and instants for its ends, and the writer
\* never records past its batch.
THEOREM TypeCorrect == Spec => []TypeOK
<1>1. RInv /\ Typed /\ [Next]_vars => RInv' /\ Typed'
  BY RInvStep, TypedStep
<1> QED BY <1>1, RInvInit, TypedInit, TypesFollow, PTL DEF Spec
=============================================================================
