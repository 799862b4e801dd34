----------------------------- MODULE Maintainers -----------------------------
(***************************************************************************)
(* Who could publish what, and when: the sampling of versions at epochs    *)
(* (internal/ingest/epochs.go), the spells made of the maintainers listed  *)
(* in their documents, and the MAINTAINS edges written for the spells      *)
(* (internal/ingest/rows.go), over one ingest or several.                  *)
(***************************************************************************)
EXTENDS Intervals

CONSTANTS
    Handles, Packages, Versions,
    Worlds,         \* what the registry may hold: releases, and what they resolve to
    EpochSets,      \* the epochs an ingest may be run with
    Fetchable,      \* the packages an ingest may fetch without an error
    MaxIngests      \* bound: the ingests

Release == [urn : Versions, pkg : Packages, published : Nat, pre : BOOLEAN,
            doc : BOOLEAN,              \* the registry has its document
            listed : SUBSET Handles,    \* the maintainers in the document
            by : Handles, provenance : BOOLEAN, script : BOOLEAN]

\* A RESOLVES_TO edge.
Edge == [from : Versions, to : Versions, valid : Span]

\* A version is in nobody's tree before it was published.
ASSUME MaintainersAssumption ==
    /\ \A w \in Worlds :
        /\ w.releases \subseteq Release /\ w.edges \subseteq Edge
        /\ \A e \in w.edges : \A r \in w.releases :
              r.urn \in {e.from, e.to} => r.published <= e.valid.from
    /\ EpochSets \subseteq SUBSET Nat
    /\ Fetchable \subseteq SUBSET Packages
    /\ MaxIngests \in Nat

VARIABLES
    world,
    ingests,        \* how many ingests were run
    sampled,        \* the releases SAMPLED edges lead to
    maintains       \* the MAINTAINS edges

graphVars == <<world, ingests, sampled, maintains>>

-----------------------------------------------------------------------------

ReleasesOf(p) == {r \in world.releases : r.pkg = p}

\* The releases that could be current at t.
Candidates(p, t) ==
    {r \in ReleasesOf(p) : r.published > 0 /\ r.published <= t /\ ~ r.pre}

\* versionAt: the newest of them; of several of one second the same one every
\* time.
VersionAt(p, t) ==
    LET newest == {r \in Candidates(p, t) :
                      \A o \in Candidates(p, t) : o.published <= r.published}
    IN  IF newest = {} THEN {} ELSE {CHOOSE r \in newest : TRUE}

\* The documents read: of the versions current at some epoch.
Observed(p, epochs) == {r \in UNION {VersionAt(p, t) : t \in epochs} : r.doc}

\* Mutant: a spell ends when the account was last seen.
EndOfLastSeen(obs, h, r) ==
    LET gone == {o.published : o \in {x \in obs : x.published > r.published /\ h \notin x.listed}}
        seen == {o.published : o \in {x \in obs : x.published >= r.published /\ h \in x.listed}}
    IN  IF gone = {} THEN OpenInterval
        ELSE Greatest({t \in seen : t <= Least(gone)})

\* A spell that r begins ends at the first observation without the account.
EndOf(obs, h, r) ==
    LET gone == {o.published : o \in {x \in obs : x.published > r.published /\ h \notin x.listed}}
    IN  IF gone = {} THEN OpenInterval ELSE Least(gone)

\* The account is in r's document, and was not in the one before.
Begins(obs, h, r) ==
    /\ h \in r.listed
    /\ \A o \in obs : o.published < r.published /\ h \in o.listed =>
          \E x \in obs : o.published < x.published /\ x.published < r.published
                         /\ h \notin x.listed

\* spells.
Spells(obs, h) ==
    {[from |-> r.published, to |-> EndOf(obs, h, r)] : r \in {o \in obs : Begins(obs, h, o)}}

MaintainsRows(p, epochs) ==
    UNION {{[handle |-> h, pkg |-> p, valid |-> s] : s \in Spells(Observed(p, epochs), h)} :
              h \in Handles}

SameEdge(e, o) == e.handle = o.handle /\ e.pkg = o.pkg /\ e.valid.from = o.valid.from

\* linkMaintains: the start of a spell is part of the edge's id, so an edge is
\* updated only by a spell with the same start.
Merged(old, rows) == {e \in old : \A o \in rows : ~ SameEdge(e, o)} \cup rows

\* One ingest that fetches the packages of P; the others are left out whole.
Ingest(P, epochs) ==
    /\ ingests < MaxIngests
    /\ ingests' = ingests + 1
    /\ sampled' = sampled \cup UNION {Observed(p, epochs) : p \in P}
    /\ maintains' = Merged(maintains, UNION {MaintainsRows(p, epochs) : p \in P})
    /\ UNCHANGED world

-----------------------------------------------------------------------------

\* An edge says that h could publish p at t.
HeldAt(h, p, t) ==
    \E e \in maintains : e.handle = h /\ e.pkg = p /\ Contains(e.valid, t)

Newest(R) == {r \in R : \A o \in R : o.published <= r.published}

\* rows.go:243-251: nobody is credited with a package before a document named
\* them, whichever epochs the ingests sampled; and after one ingest an account
\* is credited at an instant exactly if the last observation up to that
\* instant named it, so that one who left and returned has two edges.
HoldingIsObserved ==
    \A p \in Packages : \A t \in Instants :
        LET before == {r \in sampled : r.pkg = p /\ r.published <= t}
        IN  \A h \in Handles :
              /\ HeldAt(h, p, t) => \E r \in before : h \in r.listed
              /\ ingests = 1 => (HeldAt(h, p, t) <=> \E r \in Newest(before) : h \in r.listed)
=============================================================================
