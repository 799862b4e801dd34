------------------------------ MODULE Windows ------------------------------
(***************************************************************************)
(* Windows and clamp of internal/resolve/windows.go: the spans over which  *)
(* one declared range resolved to each version of its target.  One action  *)
(* is one turn of the loop; the last one is clamp.                         *)
(***************************************************************************)
EXTENDS Resolution

CONSTANTS
    Timelines,      \* the sets of releases a behaviour may start from
    Ranges,         \* the sets of versions a range may admit
    Declared        \* the instants a dependent may be published at; 0 is unknown

ASSUME WindowsAssumption ==
    /\ Timelines \subseteq SUBSET [version : Versions, published : 0 .. OpenInterval - 1]
    /\ Ranges \subseteq SUBSET Versions
    /\ Declared \subseteq Nat

VARIABLES
    releases,       \* the releases of the target
    range,          \* the versions that parse and satisfy the range
    declaredAt,     \* when the dependent was published
    rest,           \* the admitted releases the loop has not come to
    windows,        \* the windows so far
    best,           \* the release of the last window, as a set; {} before any
    phase           \* "walk" or "done"

inputs == <<releases, range, declaredAt>>
vars == <<inputs, rest, windows, best, phase>>

-----------------------------------------------------------------------------

\* The order the loop takes releases in.  Releases of one second and one
\* precedence come in any order, as sort.Slice is not stable.
Before(a, b) ==
    \/ a.published < b.published
    \/ a.published = b.published /\ Precedence[a.version] <= Precedence[b.version]

\* The window a release opens.
Opened(r) == [version |-> r.version, from |-> r.published, to |-> OpenInterval]

\* What clamp makes of one window; an unknown declaration clamps nothing.
Cut(w, at) == IF at > 0 THEN [w EXCEPT !.from = Later(@, at)] ELSE w

\* Mutant: a window that covers no instant is kept.
ClampKeepsEmpty(W, at) == {Cut(w, at) : w \in {v \in W : at > 0 => v.to > at}}

\* clamp.
Clamp(W, at) ==
    {w \in {Cut(v, at) : v \in {u \in W : at > 0 => u.to > at}} : ~ Empty(w)}

Init ==
    /\ releases \in Timelines
    /\ range \in Ranges
    /\ declaredAt \in Declared
    /\ rest = Admitted(releases, range)
    /\ windows = {}
    /\ best = {}
    /\ phase = "walk"

\* The release changes the answer: nothing before it ranks as high.
IsStep(r) == \A b \in best : Precedence[r.version] > Precedence[b.version]

\* The next release in order changes nothing: a backport or a republish.
Pass(r) ==
    /\ phase = "walk" /\ r \in rest /\ \A o \in rest : Before(r, o)
    /\ ~ IsStep(r)
    /\ rest' = rest \ {r}
    /\ UNCHANGED <<inputs, windows, best, phase>>

\* Mutant: the window before is left open.
TakeLeavesOpen(r) ==
    /\ phase = "walk" /\ r \in rest /\ \A o \in rest : Before(r, o)
    /\ IsStep(r)
    /\ rest' = rest \ {r}
    /\ windows' = windows \cup {Opened(r)}
    /\ best' = {r}
    /\ UNCHANGED <<inputs, phase>>

\* The next release in order closes the last window and opens one.
Take(r) ==
    /\ phase = "walk" /\ r \in rest /\ \A o \in rest : Before(r, o)
    /\ IsStep(r)
    /\ rest' = rest \ {r}
    /\ windows' = (windows \ {Opened(b) : b \in best})
                    \cup {[Opened(b) EXCEPT !.to = r.published] : b \in best}
                    \cup {Opened(r)}
    /\ best' = {r}
    /\ UNCHANGED <<inputs, phase>>

Finish ==
    /\ phase = "walk" /\ rest = {}
    /\ windows' = Clamp(windows, declaredAt)
    /\ phase' = "done"
    /\ UNCHANGED <<inputs, rest, best>>

Next == (\E r \in rest : Pass(r) \/ Take(r)) \/ Finish

Spec == Init /\ [][Next]_vars

-----------------------------------------------------------------------------
(* Properties.                                                             *)

\* The inputs are as assumed, the windows are spans of versions within the
\* instants, and at most one release is the best so far.
TypeOK ==
    /\ releases \in Timelines
    /\ range \in Ranges
    /\ declaredAt \in Declared
    /\ rest \subseteq Admitted(releases, range)
    /\ windows \subseteq [version : Versions, from : Nat, to : 0 .. OpenInterval]
    /\ best \subseteq Admitted(releases, range)
    /\ \A b, c \in best : b = c
    /\ phase \in {"walk", "done"}

Answered == Admitted(releases, range)

\* equivalence_test.go:13-19, for every instant rather than sampled ones:
\* from the declaration on, an instant lies in exactly one window, and its
\* version is what an install at that instant takes; it lies in none when
\* nothing admitted was published yet.  No window reaches before the
\* declaration.
IsResolution ==
    phase = "done" =>
        \A t \in Instants :
            LET there == {w \in windows : Contains(w, t)}
            IN  /\ \A w \in there : t >= declaredAt /\ IsAnswer(Answered, w.version, t)
                /\ \A w, x \in there : w = x
                /\ t >= declaredAt /\ (\E r \in Answered : r.published <= t)
                      => there # {}

\* No two releases of one second rank the same, so the order is settled.
Settled ==
    \A r, o \in Answered :
        r.published = o.published /\ Precedence[r.version] = Precedence[o.version]
            => r = o

\* windows.go:102-104: dropping the windows that cover no time loses nothing
\* and keeps nothing else; what the loop and clamp leave is the span from
\* each change of the answer to the next.  The pass over the graph is
\* modelled on this definition.
MatchesDefinition ==
    phase = "done" /\ Settled => windows = WindowsOf(releases, range, declaredAt)
=============================================================================
