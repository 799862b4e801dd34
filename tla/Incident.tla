------------------------------ MODULE Incident ------------------------------
(***************************************************************************)
(* The incident questions (internal/incident) about the releases of one    *)
(* package, on the graph that three writers leave: the resolve pass, whose *)
(* windows module Windows computes for one dependent version; the          *)
(* recording of a project's lockfile (internal/query/record.go); and the   *)
(* advisory pass (internal/advisory).                                      *)
(*                                                                         *)
(* The project locks members of Pins: versions of the package itself; the  *)
(* dependent version Uses, whose windows lead to them; and other versions, *)
(* which Links connect with each other, with Uses and with the package.    *)
(* The questions are reads, made here at once: what they read one after    *)
(* the other is written by different programs, in any order.               *)
(***************************************************************************)
EXTENDS Windows, Sequences

Sets == INSTANCE FiniteSetsExt

CONSTANTS
    Uses,           \* the dependent version whose windows these are, of another package
    Pins,           \* what a lockfile may pin
    Ingested,       \* the pins that have a Version node
    Named,          \* the pins with a URN that npmURN matches
    Links,          \* the RESOLVES_TO edges that do not lead into the package
    PublishedAt,    \* when the pins of other packages were published; 0 is unknown
    MaxDepth,       \* the depth the audit of a recorded project is given
    Lockfiles,      \* the lockfiles the project may have had
    LockTimes,      \* when they may have been written
    Advisories,     \* the advisories there may be about the package
    Zero,           \* the place of 0.0.0 among the versions
    MaxRecords      \* bound: how often the project is recorded

\* An event of a range: what it does, and where.  "first" is introduced with
\* the sentinel "0".
Event == [kind : {"first", "introduced", "fixed", "last_affected"}, place : Int]

\* One block of an advisory: its ranges, or the versions it lists.
Block == [ranges : Seq(Seq(Event)), versions : SUBSET Versions]

ASSUME IncidentAssumption ==
    /\ Uses \in Pins /\ Uses \notin Versions
    /\ Ingested \subseteq Pins
    /\ Named \subseteq Pins
    /\ Links \subseteq [from : Pins, to : Pins \ Versions, valid : Span]
    /\ PublishedAt \in [Pins \ (Versions \cup {Uses}) -> Nat]
    /\ MaxDepth \in Nat \ {0}
    /\ Lockfiles \subseteq SUBSET Pins
    /\ LockTimes \subseteq Nat
    /\ Advisories \subseteq Seq(Block)
    /\ Zero \in Int
    /\ MaxRecords \in Nat

VARIABLES
    lockedAt,   \* Project.locked_at; 0 before the first recording
    locks,      \* the LOCKS edges: what is pinned and locked_at
    unwritten,  \* the rows of LOCKS that Record still has to send
    records,    \* how often Record was called
    lockfile,   \* history: the pins of the last lockfile recorded
    whole,      \* history: no recording was cut short
    advisory,   \* the advisory, as a set; {} before the advisory pass
    affects     \* the versions its AFFECTS edges lead to

projectVars  == <<lockedAt, locks, unwritten, records, lockfile, whole>>
advisoryVars == <<advisory, affects>>
incidentVars == <<vars, projectVars, advisoryVars>>

-----------------------------------------------------------------------------
(* Record.                                                                 *)

\* The project node is written first, with the new locked_at.
RecordProject(pins, at) ==
    /\ phase = "done" /\ unwritten = {} /\ records < MaxRecords
    /\ records' = records + 1
    /\ lockedAt' = at
    /\ unwritten' = pins
    /\ lockfile' = pins
    /\ UNCHANGED <<vars, locks, whole, advisoryVars>>

\* The edge of pin p as of now, in place of one it may have had.
Relocked(L, P) == {l \in L : l.pin \notin P} \cup {[pin |-> p, at |-> lockedAt] : p \in P}

\* One batch of edges.  A pin without a Version node matches nothing and is
\* dropped; the edges of an older lockfile stay.
RecordLocks(P) ==
    /\ P \subseteq unwritten
    /\ locks' = Relocked(locks, P \cap Ingested)
    /\ unwritten' = unwritten \ P
    /\ UNCHANGED <<vars, lockedAt, records, lockfile, whole, advisoryVars>>

\* The recording fails or is killed after the project was written.
RecordStops ==
    /\ unwritten # {}
    /\ unwritten' = {}
    /\ whole' = FALSE
    /\ UNCHANGED <<vars, lockedAt, locks, records, lockfile, advisoryVars>>

-----------------------------------------------------------------------------
(* The advisory pass.                                                      *)

Place(v) == Precedence[v]

\* Where an event stands among the versions.
Where(e) == IF e.kind = "first" THEN Zero ELSE e.place

\* Event j is walked before event k; the sort keeps the order of events at one
\* version, as it does for the few that ranges have.
Precedes(events, j, k) ==
    \/ Where(events[j]) < Where(events[k])
    \/ Where(events[j]) = Where(events[k]) /\ j < k

\* Of the events with the indices K, the one that is walked last.
LastWalked(events, K) ==
    CHOOSE k \in K : \A j \in K \ {k} : Precedes(events, j, k)

\* Mutant: last_affected revokes the version it names, too.
AfterCapping(v, affected, e) ==
    IF Where(e) > Place(v) THEN affected
    ELSE e.kind \in {"first", "introduced"}

\* What one event makes of the status of v; events past v do nothing.
After(v, affected, e) ==
    IF Where(e) > Place(v) THEN affected
    ELSE CASE e.kind \in {"first", "introduced"} -> TRUE
           [] e.kind = "fixed" -> FALSE
           [] e.kind = "last_affected" -> affected /\ Where(e) = Place(v)

IsAffected(v, events) ==
    Sets!MapThenFoldSet(LAMBDA e, affected : After(v, affected, e), FALSE,
                        LAMBDA k : events[k],
                        LAMBDA K : LastWalked(events, K), DOMAIN events)

\* matchAffected: through the ranges if there are any.
Matched(block) ==
    {r.version : r \in {o \in releases :
        IF block.ranges = << >>
        THEN o.version \in block.versions
        ELSE \E k \in DOMAIN block.ranges : IsAffected(o.version, block.ranges[k])}}

\* One run of the pass.  The advisory is written before its edges.
Advise(blocks) ==
    /\ phase = "done" /\ advisory = {} /\ records = 0
    /\ advisory' = {blocks}
    /\ affects' = UNION {Matched(blocks[k]) : k \in DOMAIN blocks}
    /\ UNCHANGED <<vars, projectVars>>

-----------------------------------------------------------------------------
(* The questions.                                                          *)

\* Mutant: the last instant of a window counts as outside of it, and the
\* first instant after it as inside.
LiveClosed(bad) ==
    {w \in windows : w.version = bad /\
        \E l \in locks : l.pin = Uses /\ w.from < l.at /\ l.at <= w.to}

\* ResolvedWhileLive: the windows into bad that were in force when the
\* project locked their dependent.
Live(bad) ==
    {w \in windows : w.version = bad /\
        \E l \in locks : l.pin = Uses /\ w.from <= l.at /\ l.at < w.to}

\* Pins: what the project locks, by all its LOCKS edges.
Locked == {l.pin : l \in locks}

\* Mutant: an edge is in force if it is now.
GraphNow ==
    {e \in Links \cup {[from |-> Uses, to |-> w.version,
                        valid |-> [from |-> 0, to |-> w.to]] : w \in windows} :
        e.valid.to = OpenInterval}

\* The RESOLVES_TO edges.
Graph ==
    Links \cup {[from |-> Uses, to |-> w.version,
                 valid |-> [from |-> w.from, to |-> w.to]] : w \in windows}

\* The Version nodes that were published at t or before, or nobody knows when.
Existing(t) ==
    {r.version : r \in {o \in releases : o.published <= t}}
        \cup {u \in {Uses} : declaredAt <= t}
        \cup {p \in DOMAIN PublishedAt : PublishedAt[p] <= t}

\* What an edge in force at t leads to from N.
StepFrom(N, t) ==
    {e.to : e \in {g \in Graph : g.from \in N \cap Named /\ Contains(g.valid, t)}}

\* Ball(P, t)[d]: what is at most d edges in force away from the pins P.
Ball(P, t) ==
    LET ball[d \in 0 .. MaxDepth] ==
            IF d = 0 THEN P \cap Named \cap Existing(t)
            ELSE ball[d - 1] \cup StepFrom(ball[d - 1], t)
    IN  ball

\* The audit's reach from the pins P at the instant t, as module Reachability
\* defines it and Reach implements it.
ReachFrom(P, t) == Ball(P, t)[MaxDepth]

\* TransitivelyExposed, for the one project.
Exposed(bad) == bad \in ReachFrom(Locked, lockedAt)

\* Mutant: the timeline is taken in the order of the versions.
FirstsByVersion(A) ==
    {r \in A : \A o \in A : Precedence[r.version] <= Precedence[o.version]}

\* Bisect: the releases it may call the first affected one.  The order of
\* releases of one second is not settled.
Firsts(A) == {r \in A : \A o \in A : r.published <= o.published}

Introductions == Firsts({r \in releases : r.version \in affects})

-----------------------------------------------------------------------------

IncidentInit ==
    /\ Init
    /\ lockedAt = 0
    /\ locks = {}
    /\ unwritten = {}
    /\ records = 0
    /\ lockfile = {}
    /\ whole = TRUE
    /\ advisory = {}
    /\ affects = {}

IncidentNext ==
    \/ Next /\ UNCHANGED <<projectVars, advisoryVars>>
    \/ \E blocks \in Advisories : Advise(blocks)
    \/ \E pins \in Lockfiles, at \in LockTimes : RecordProject(pins, at)
    \/ \E P \in (SUBSET unwritten) \ {{}} : RecordLocks(P)
    \/ RecordStops

IncidentSpec == IncidentInit /\ [][IncidentNext]_incidentVars

-----------------------------------------------------------------------------
(* Properties.                                                             *)

\* What an install of Uses at t takes: nothing before it was declared.
Installs(v, t) == t >= declaredAt /\ IsAnswer(Answered, v, t)

\* resolved_while_live.go:38-40: what the project is said to have resolved
\* while it was live is what an install of what it locked, at the instant its
\* lockfile was written, would have taken; between versions of one precedence
\* either will do.
LiveIsInstall ==
    phase = "done" =>
        LET live == {bad \in Versions : Live(bad) # {}}
            due  == {v \in Versions : \E l \in locks :
                        l.pin = Uses /\ l.at < OpenInterval /\ Installs(v, l.at)}
        IN  live \subseteq due /\ (live = {} => due = {})

\* ranges.go:30-34: a version is affected by a range if it is at or past an
\* introduced event and nothing in between took that back: no fixed event up
\* to it, and no last_affected event short of it.
Undone(events, k, v) ==
    \E j \in DOMAIN events :
        /\ \/ Where(events[j]) > Where(events[k])
           \/ Where(events[j]) = Where(events[k]) /\ j > k
        /\ \/ events[j].kind = "fixed" /\ Where(events[j]) <= Place(v)
           \/ events[j].kind = "last_affected" /\ Where(events[j]) < Place(v)

InRange(events, v) ==
    \E k \in DOMAIN events :
        /\ events[k].kind \in {"first", "introduced"} /\ Where(events[k]) <= Place(v)
        /\ ~ Undone(events, k, v)

AffectsIsTheRanges ==
    \A blocks \in advisory : \A r \in releases :
        r.version \in affects <=>
            \E k \in DOMAIN blocks :
                \/ \E j \in DOMAIN blocks[k].ranges : InRange(blocks[k].ranges[j], r.version)
                \/ blocks[k].ranges = << >> /\ r.version \in blocks[k].versions

\* bisect.go:57-63: nobody was exposed to an affected version before the
\* version that is said to have introduced the fault was published.
IntroducedBeforeExposed ==
    \A bad \in affects : \A w \in Live(bad) : \A r \in Introductions :
        \A l \in locks : l.pin = Uses /\ Contains(w, l.at) => r.published <= l.at

\* The project locks bad itself, which was published by then.
Pinned(bad) == bad \in lockfile \cap Ingested /\ bad \in Existing(lockedAt)

\* The lockfile has all that an install of what it pins, and of any release of
\* the package, took from other packages when it was written.
LocksWholeTree ==
    \A e \in Links :
        /\ e.from \in Locked \cup {r.version : r \in releases}
        /\ Contains(e.valid, lockedAt)
        => e.to \in Locked

\* exposed.go:32-35 and resolved_while_live.go:45-49, for a project recorded
\* once, from end to end.  Who is found to have resolved bad while it was live,
\* or to have locked it, is found to be exposed.  The reverse holds of a
\* lockfile that has the whole tree: the walk may reach bad through a dependent
\* that is not recorded as locked, which the comparison of windows does not
\* see.  Names the walk has to skip are left out.
ExposedAgrees ==
    records = 1 /\ whole /\ unwritten = {} /\ lockedAt < OpenInterval =>
        \A bad \in Versions :
            LET found == Live(bad) # {} \/ Pinned(bad)
            IN  /\ found /\ {bad, Uses} \subseteq Named => Exposed(bad)
                /\ Exposed(bad) /\ LocksWholeTree => found

\* resolved_while_live.go:48-49 as it stands: who locked bad itself is found
\* the same way.
DirectLocksAreLive ==
    records = 1 /\ whole /\ unwritten = {} /\ lockedAt < OpenInterval =>
        \A bad \in Versions : Pinned(bad) => Live(bad) # {}

\* exposed.go:32-35: a project's exposure is that of its lockfile, at the
\* instant it was written.
ExposureIsOfTheLockfile ==
    whole /\ unwritten = {} =>
        \A bad \in Versions : Exposed(bad) => bad \in ReachFrom(lockfile, lockedAt)
=============================================================================
