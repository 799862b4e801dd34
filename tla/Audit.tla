-------------------------------- MODULE Audit --------------------------------
(***************************************************************************)
(* The questions asked of the graph about accounts (internal/query):       *)
(* Audit, WhoIs and HolderChains, as the HTTP server asks them             *)
(* (internal/api), several at once over one Auditor.  The graph is the one *)
(* that the ingests of module Maintainers leave.                           *)
(*                                                                         *)
(* What one search reaches is what Reachability says, which module Reach   *)
(* is shown to implement.  MAINTAINS rows come in any order.  Every        *)
(* request of a search writes what it read of version nodes to one map of  *)
(* the shared expander, without a lock.                                    *)
(***************************************************************************)
EXTENDS Maintainers, FiniteSets, Sequences

Sets == INSTANCE FiniteSetsExt

CONSTANTS
    Clients,        \* the requests that may be served at once
    Requests,       \* what they may ask
    MaxDepth,       \* Options.MaxDepth
    PathLimit       \* pathCount: the paths of one pair that a call returns

\* An audit asks once; a timeline asks at several instants; path asks for the
\* chains to what a handle holds, and who asks about a handle.
Request == [kind : {"audit", "path", "who"},
            pins : SUBSET Versions, withins : Seq(Span), handle : Handles]

\* A URN names one version, published in time, and RESOLVES_TO edges are
\* written only between versions of the graph.
ASSUME AuditAssumption ==
    /\ \A w \in Worlds :
        /\ IsFiniteSet(w.releases)
        /\ \A r, o \in w.releases : r.urn = o.urn => r = o
        /\ \A r \in w.releases : r.published < OpenInterval
        /\ \A e \in w.edges : {e.from, e.to} \subseteq {r.urn : r \in w.releases}
    /\ Requests \subseteq Request
    /\ \A q \in Requests : q.withins # << >>
    /\ MaxDepth \in Nat \ {0} /\ PathLimit \in Nat \ {0}

VARIABLES
    server,     \* "up", or "dead" after a fatal error of the runtime
    asked,      \* asked[c]: what c asked, as a set; {} before that
    pc,         \* where the serving of c is
    turn,       \* turn[c]: which of its instants c is at
    rows,       \* the MAINTAINS rows keyholders has not seen yet
    through     \* Through of every account so far

requestVars == <<server, asked, pc, turn, rows, through>>
vars == <<graphVars, requestVars>>

-----------------------------------------------------------------------------
(* The searches.                                                           *)

PackageOf(v) == (CHOOSE r \in world.releases : r.urn = v).pkg

Known == {r.urn : r \in world.releases}

\* The span over which a version existed.
Existed(r) == IF r.published <= 0 THEN Always ELSE [from |-> r.published, to |-> OpenInterval]

Reversed(E) == {[from |-> e.to, to |-> e.from, valid |-> e.valid] : e \in E}

\* The versions at most MaxDepth live edges of E away from a live entry of S,
\* past none of the blocked ones.
Walked(E, S, blocked, t) ==
    LET ball[d \in 0 .. MaxDepth] ==
            IF d = 0 THEN {s.urn : s \in {x \in S : Contains(x.valid, t)}} \ blocked
            ELSE ball[d - 1] \cup
                 ({e.to : e \in {x \in E : x.from \in ball[d - 1] /\ Contains(x.valid, t)}} \ blocked)
    IN  ball[MaxDepth]

\* The spans that make up a set of instants (Result.Coexistence).
SpansOf(T) ==
    {[from |-> i, to |-> Least({j \in i .. OpenInterval : j \notin T})] :
        i \in {k \in T : k - 1 \notin T}}

Everywhere(E, S) == [t \in Instants |-> Walked(E, S, {}, t)]

\* knownVersions, and the window the search cuts them to.
Sources(pins, within) ==
    {[urn |-> r.urn, valid |-> Intersect(Existed(r), within)] :
        r \in {o \in world.releases : o.urn \in pins}}

\* Set.Insert of all of I.
InsertAll(S, I) == Sets!FoldSet(LAMBDA i, acc : Insert(acc, i), S, I)

\* holdings: the edges of one account to one package, merged.
HeldSpans(h, p) ==
    InsertAll({}, {e.valid : e \in {x \in maintains : x.handle = h /\ x.pkg = p}})

\* Mutant: an account reaches with every version it can publish now.
WhoSourcesOfNow(h, within) ==
    {[urn |-> r.urn, valid |-> Intersect(Existed(r), within)] :
        r \in {o \in world.releases : HeldSpans(h, o.pkg) # {}}}

\* versionsOf: a version of a package counts while it existed and the account
\* held the package.
WhoSources(h, within) ==
    UNION {{[urn |-> r.urn, valid |-> Intersect(Intersect(Existed(r), s), within)] :
              s \in HeldSpans(h, r.pkg)} : r \in world.releases}

-----------------------------------------------------------------------------
(* The proofs.                                                             *)

\* The intersection of Always with the edges of a path (Chain.Valid).
SpanOfAll(c) == [from |-> Greatest({c[k].valid.from : k \in DOMAIN c} \cup {Always.from}),
                 to   |-> Least({c[k].valid.to : k \in DOMAIN c} \cup {Always.to})]

\* The paths of the graph out of S, whatever the times of their edges.
UnionPaths(S) ==
    LET long[k \in 1 .. MaxDepth] ==
            IF k = 1 THEN {<<e>> : e \in {x \in world.edges : x.from \in S}}
            ELSE {Append(p[1], p[2]) : p \in
                    {x \in long[k - 1] \X world.edges : x[1][k - 1].to = x[2].from}}
    IN  UNION {long[k] : k \in 1 .. MaxDepth}

End(x) == x[Len(x)].to

\* Mutant: the edges of a path need not share an instant.
CoexistentOrNot(X) == X

\* coexistenceChain: the paths whose edges share an instant.
Coexistent(X) == {x \in X : ~ Empty(SpanOfAll(x))}

Chains(S) == Coexistent(UnionPaths(S))

\* All the paths from s to v, and whether one call can return them all.
Pair(s, v)    == {x \in UnionPaths({s}) : End(x) = v}
TooMany(s, v) == Cardinality(Pair(s, v)) > PathLimit

\* What algo.MSpaths may return for the targets T: the paths of each pair or,
\* if they are too many, any PathLimit of them.  (resultLimit is never met:
\* a call has at most sourceChunk sources and one target.)
PathsFound(S, T) ==
    {R \in SUBSET {x \in UnionPaths(S) : End(x) \in T} :
        \A s \in S, v \in T :
            IF TooMany(s, v) THEN Cardinality(R \cap Pair(s, v)) = PathLimit
            ELSE Pair(s, v) \subseteq R}

\* ProofPath and HolderChains show a shortest chain of what was returned, and
\* report a missing chain if there is none.
Shown(R) == {x \in Coexistent(R) : \A y \in Coexistent(R) : Len(x) <= Len(y)}

-----------------------------------------------------------------------------
(* One request.                                                            *)

Query(c)   == CHOOSE q \in asked[c] : TRUE
Within(c)  == Query(c).withins[turn[c]]
Entries(c) == IF Query(c).kind = "who" THEN WhoSources(Query(c).handle, Within(c))
              ELSE Sources(Query(c).pins, Within(c))
Searched(c) == IF Query(c).kind = "who" THEN Reversed(world.edges) ELSE world.edges

Reached(c) == Everywhere(Searched(c), Entries(c))

\* Result.Union: whatever edges lead to, at any time.
Union(c) ==
    LET always == {[urn |-> s.urn, valid |-> Always] : s \in Entries(c)}
        edges  == {[e EXCEPT !.valid = Always] : e \in Searched(c)}
    IN  Walked(edges, always, {}, 0)

PackagesOf(V) == {PackageOf(v) : v \in V}

\* Mutant: a package counts as reached from the first time to the last.
CoexistingHull(c, p) ==
    LET T == {t \in Instants : p \in PackagesOf(Reached(c)[t])}
    IN  IF T = {} THEN {} ELSE {[from |-> Least(T), to |-> Greatest(T) + 1]}

\* The spans over which some version of p is reached.
Coexisting(c, p) ==
    InsertAll({}, UNION {SpansOf({t \in Instants : v \in Reached(c)[t]}) :
                            v \in {u \in Known : PackageOf(u) = p}})

NoKeys == [h \in Handles |-> [p \in Packages |-> {}]]

Roster(c)  == {h \in Handles : \E p \in Packages : through[c][h][p] # {}}
Held(c, h) == {p \in Packages : through[c][h][p] # {}}

Init ==
    /\ world \in Worlds
    /\ ingests = 0 /\ sampled = {} /\ maintains = {}
    /\ server = "up"
    /\ asked = [c \in Clients |-> {}]
    /\ pc = [c \in Clients |-> "idle"]
    /\ turn = [c \in Clients |-> 1]
    /\ rows = [c \in Clients |-> {}]
    /\ through = [c \in Clients |-> NoKeys]

Goto(c, l) == pc' = [pc EXCEPT ![c] = l]

\* The graph is written before the server is asked.
Write(P, epochs) ==
    /\ \A c \in Clients : pc[c] = "idle"
    /\ Ingest(P, epochs)
    /\ UNCHANGED requestVars

\* A handler begins, and the Auditor reads what the search starts from.  With
\* nothing to start from the answer is empty.
Begin(c, q) ==
    /\ server = "up" /\ ingests > 0 /\ pc[c] = "idle"
    /\ asked' = [asked EXCEPT ![c] = {q}]
    /\ LET none == IF q.kind = "who" THEN \A p \in Packages : HeldSpans(q.handle, p) = {}
                   ELSE q.pins \cap Known = {}
       IN  Goto(c, IF none THEN "done" ELSE "walking")
    /\ UNCHANGED <<graphVars, server, turn, rows, through>>

\* The search is over.  For an audit, the MAINTAINS rows of every package in
\* the union answer are next.
EndSearch(c) ==
    /\ server = "up" /\ pc[c] = "walking"
    /\ IF Query(c).kind = "who"
       THEN Goto(c, "done") /\ UNCHANGED rows
       ELSE /\ Goto(c, "roster")
            /\ rows' = [rows EXCEPT ![c] = {e \in maintains : e.pkg \in PackagesOf(Union(c))}]
    /\ UNCHANGED <<graphVars, server, asked, turn, through>>

\* keyholders: one row, cut to what was reached.
TakeRow(c, e) ==
    /\ server = "up" /\ pc[c] = "roster" /\ e \in rows[c]
    /\ rows' = [rows EXCEPT ![c] = @ \ {e}]
    /\ through' = [through EXCEPT ![c][e.handle][e.pkg] =
          InsertAll(@, {Intersect(s, e.valid) : s \in Coexisting(c, e.pkg)})]
    /\ UNCHANGED <<graphVars, server, asked, pc, turn>>

\* The sampled versions are read next, for the signals.
EndRoster(c) ==
    /\ server = "up" /\ pc[c] = "roster" /\ rows[c] = {}
    /\ Goto(c, "sampling")
    /\ UNCHANGED <<graphVars, server, asked, turn, rows, through>>

\* The audit is over.  A timeline goes on with its next instant.
EndAudit(c) ==
    /\ server = "up" /\ pc[c] = "sampling"
    /\ IF turn[c] < Len(Query(c).withins)
       THEN /\ turn' = [turn EXCEPT ![c] = @ + 1]
            /\ through' = [through EXCEPT ![c] = NoKeys]
            /\ Goto(c, "walking")
       ELSE Goto(c, "done") /\ UNCHANGED <<turn, through>>
    /\ UNCHANGED <<graphVars, server, asked, rows>>

\* A read of the graph fails, or the client is gone.  What was found is
\* dropped.
Fails(c) ==
    /\ server = "up" /\ pc[c] \in {"walking", "roster", "sampling"}
    /\ Goto(c, "failed")
    /\ asked' = [asked EXCEPT ![c] = {}]
    /\ turn' = [turn EXCEPT ![c] = 1]
    /\ rows' = [rows EXCEPT ![c] = {}]
    /\ through' = [through EXCEPT ![c] = NoKeys]
    /\ UNCHANGED <<graphVars, server>>

\* The shared map of attributes is written to all through a search, and while
\* sampled versions are read.
Writes(c) == pc[c] \in {"walking", "sampling"}

\* Two goroutines that write to one map at once end the process, if the
\* runtime notices.
Collide ==
    /\ server = "up"
    /\ \E c, d \in Clients : c # d /\ Writes(c) /\ Writes(d)
    /\ server' = "dead"
    /\ UNCHANGED <<graphVars, asked, pc, turn, rows, through>>

Serve(c) ==
    \/ \E q \in Requests : Begin(c, q)
    \/ EndSearch(c)
    \/ \E e \in rows[c] : TakeRow(c, e)
    \/ EndRoster(c)
    \/ EndAudit(c)
    \/ Fails(c)

Next ==
    \/ \E P \in Fetchable, epochs \in EpochSets : Write(P, epochs)
    \/ \E c \in Clients : Serve(c)
    \/ Collide

Spec == Init /\ [][Next]_vars

-----------------------------------------------------------------------------
(* What an audit says of its roster.                                       *)

\* signalsFor: of how many, how many.
Solo(c, h) ==
    [of |-> Cardinality(Held(c, h)),
     count |-> Cardinality({p \in Held(c, h) : {k \in Roster(c) : p \in Held(c, k)} = {h}})]

SampledOf(c, h) == {r \in sampled : r.pkg \in Held(c, h)}

NoProvenance(c, h) ==
    [of |-> Cardinality(SampledOf(c, h)),
     count |-> Cardinality({r \in SampledOf(c, h) : ~ r.provenance})]

InstallScript(c, h) ==
    [of |-> Cardinality(SampledOf(c, h)),
     count |-> Cardinality({r \in SampledOf(c, h) : r.script})]

\* staleness, in instants up to the cap; unknown without a publish.
Staleness(c, h) ==
    LET own == {r.published : r \in {o \in SampledOf(c, h) : o.by = h}}
        at  == IF Within(c) # Always /\ Within(c).from > 0 THEN Within(c).from ELSE OpenInterval
    IN  IF own = {} THEN [of |-> 0, count |-> 0]
        ELSE [of |-> OpenInterval, count |-> Later(0, Earlier(at - Greatest(own), OpenInterval))]

\* The code takes a ratio of logarithms, which grows with the number held like
\* the plain ratio taken here.
ReachTerm(c, h) ==
    [of |-> Cardinality({p \in Packages : Coexisting(c, p) # {}}),
     count |-> Cardinality(Held(c, h))]

\* DefaultWeights, in twentieths.
Terms(c, h) ==
    <<[weight |-> 8, value |-> ReachTerm(c, h)],
      [weight |-> 3, value |-> Staleness(c, h)],
      [weight |-> 4, value |-> Solo(c, h)],
      [weight |-> 3, value |-> NoProvenance(c, h)],
      [weight |-> 2, value |-> InstallScript(c, h)]>>

\* The values in sixtieths.
Scale == 60

Value(term) == IF term.value.of = 0 THEN 0 ELSE (term.value.count * Scale) \div term.value.of

\* The weights of the terms in K, and the weighted values.
Weight(terms, K)   == Sets!FoldSet(LAMBDA k, acc : acc + terms[k].weight, 0, K)
Weighted(terms, K) == Sets!FoldSet(LAMBDA k, acc : acc + terms[k].weight * Value(terms[k]), 0, K)

\* Mutant: an unknown term counts as zero.
ScoreOfAll(terms) ==
    [num |-> Weighted(terms, DOMAIN terms), den |-> Weight(terms, DOMAIN terms)]

\* scoreOf: the mean of the known terms, as a fraction.
ScoreOf(terms) ==
    LET known == {k \in DOMAIN terms : terms[k].value.of > 0}
    IN  [num |-> Weighted(terms, known), den |-> Weight(terms, known)]

\* Cuts: what is still reached without the reached versions of what h holds.
Blocked(c, h) ==
    {v \in Known : PackageOf(v) \in Held(c, h) /\ \E t \in Instants : v \in Reached(c)[t]}

\* Mutant: the project's own pins cannot be blocked.
WithoutNotPins(c, h) ==
    UNION {Walked(world.edges, Entries(c), Blocked(c, h) \ Query(c).pins, t) : t \in Instants}

Without(c, h) ==
    UNION {Walked(world.edges, Entries(c), Blocked(c, h), t) : t \in Instants}

ReachedPackages(c) == PackagesOf(UNION {Reached(c)[t] : t \in Instants})

Beyond(c, h) == (ReachedPackages(c) \ PackagesOf(Without(c, h))) \ Held(c, h)

-----------------------------------------------------------------------------
(* Properties.                                                             *)

TypeOK ==
    /\ world \in Worlds /\ ingests \in 0 .. MaxIngests
    /\ sampled \subseteq Release
    /\ maintains \subseteq [handle : Handles, pkg : Packages, valid : Span]
    /\ server \in {"up", "dead"}
    /\ asked \in [Clients -> SUBSET Requests]
    /\ pc \in [Clients -> {"idle", "walking", "roster", "sampling", "done", "failed"}]
    /\ turn \in [Clients -> Nat]
    /\ rows \in [Clients -> SUBSET maintains]
    /\ through \in [Clients -> [Handles -> [Packages -> SUBSET Span]]]

Audited(c) == pc[c] \in {"sampling", "done"} /\ Query(c).kind # "who"
Answered(c) == pc[c] = "done"

\* audit.go:19-23: an account holds a key through a package at an instant
\* exactly if it could publish the package at that instant and some version
\* of it is reached then.  Somebody who left before never held it.
RosterIsPointwise ==
    \A c \in {d \in Clients : Audited(d)} :
        \A h \in Handles, p \in Packages :
            /\ Maximal(through[c][h][p])
            /\ \A t \in Instants :
                  Holds(through[c][h][p], t) <=>
                      HeldAt(h, p, t) /\ p \in PackagesOf(Reached(c)[t])

\* who.go:35-41: who is the audit turned around.  An audit names an account
\* at an instant exactly if the account, asked about, is said to reach one of
\* the pins at that instant.
WhoIsTheAuditReversed ==
    \A c, d \in Clients :
        /\ Answered(c) /\ Query(c).kind = "audit"
        /\ Answered(d) /\ Query(d).kind = "who"
        /\ Within(c) = Within(d)
        => \A t \in Instants :
              (\E p \in Packages : Holds(through[c][Query(d).handle][p], t))
                  <=> Reached(d)[t] \cap Query(c).pins # {}

\* proof.go:80-98, 109-118: for every package an account is on the roster for,
\* and of which no version is itself a pin, there is a chain from a pin.  A
\* chain is missing, or a longer one is shown, only where some version is
\* reached over more paths than one call returns.  A chain that is shown starts
\* at a pin, its edges held at one time, and whenever they did the audit
\* reached its end.
EveryKeyIsProved ==
    \A c \in {d \in Clients : Answered(d) /\ Query(d).kind = "path"} :
        \A p \in Held(c, Query(c).handle) \ PackagesOf(Query(c).pins \cap Known) :
            LET S == Query(c).pins \cap Known
                T == {v \in UNION {Reached(c)[t] : t \in Instants} : PackageOf(v) = p}
                chains == {x \in Chains(S) : End(x) \in T}
            IN  /\ chains # {}
                /\ \A R \in PathsFound(S, T) :
                      /\ \A x \in chains :
                            TooMany(x[1].from, End(x)) \/
                                (Shown(R) # {} /\ \A y \in Shown(R) : Len(y) <= Len(x))
                      /\ Within(c) = Always =>
                            \A x \in Shown(R) :
                                /\ ~ Empty(SpanOfAll(x)) /\ x[1].from \in S
                                /\ \A t \in Instants :
                                      Contains(SpanOfAll(x), t) => End(x) \in Reached(c)[t]

Avoids(x, V) == x[1].from \notin V /\ \A k \in DOMAIN x : x[k].to \notin V

\* cut.go:7-11: what is lost beyond what an account controls is what every
\* path from a pin leads to through a package of the account.
CutIsDominance ==
    \A c \in {d \in Clients : Answered(d) /\ Query(d).kind = "path" /\ Within(d) = Always} :
        \A h \in Roster(c) :
            Beyond(c, h) =
                {p \in ReachedPackages(c) \ Held(c, h) :
                    /\ p \notin PackagesOf(Query(c).pins \cap Known)
                    /\ \A x \in Chains(Query(c).pins) :
                          PackageOf(End(x)) = p => ~ Avoids(x, Blocked(c, h))}

\* risk.go:60-64: an account is ranked higher for what is not known of it than
\* it would be if that were known to be clean.
UnknownIsNotClean ==
    \A c \in {d \in Clients : Answered(d) /\ Query(d).kind = "audit"} :
        \A h \in Roster(c) :
            LET terms == Terms(c, h)
                score == ScoreOf(terms)
            IN  /\ 0 <= score.num /\ score.num <= Scale * score.den
                /\ \A k \in {j \in DOMAIN terms : terms[j].value.of = 0} :
                      LET clean == ScoreOf([terms EXCEPT ![k].value = [of |-> 1, count |-> 0]])
                      IN  score.num > 0 =>
                              score.num * clean.den > clean.num * score.den

\* server.go:18-19: there is no reason to build an auditor for every request.
OneAuditorServesAll == server = "up"
=============================================================================
