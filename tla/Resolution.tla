----------------------------- MODULE Resolution -----------------------------
(***************************************************************************)
(* What a declared range resolves to, and over which spans: the data of    *)
(* internal/resolve/windows.go and the definition its windows stand for.   *)
(*                                                                         *)
(* A version is a model value; Precedence orders versions as semver does,  *)
(* and two versions that differ in build metadata only have the same       *)
(* precedence.  Whether a version parses and satisfies a range is an       *)
(* input.  Module Windows keeps the loop of the code and is checked to     *)
(* agree with WindowsOf.                                                   *)
(***************************************************************************)
EXTENDS Intervals

CONSTANTS
    Versions,       \* the versions of the target
    Precedence      \* Precedence[v]: its place in the order Compare defines

ASSUME PrecedenceAssumption == Precedence \in [Versions -> Int]

Release == [version : Versions, published : Int]
Window  == [version : Versions, from : Int, to : Int]

\* The releases that have a publish time, parse and satisfy the range.
Admitted(R, admits) == {r \in R : r.published > 0 /\ r.version \in admits}

\* pointResolve: an install at t takes the highest version among those
\* published at or before t.
IsAnswer(A, v, t) ==
    \E r \in A :
        /\ r.version = v /\ r.published <= t
        /\ \A o \in A : o.published <= t => Precedence[o.version] <= Precedence[v]

\* The releases at which the answer changes.
StepsOf(A) ==
    {r \in A : \A o \in A \ {r} :
        o.published <= r.published => Precedence[o.version] < Precedence[r.version]}

\* The span from one step to the next, from the declaration on.
WindowsOf(R, admits, at) ==
    LET steps == StepsOf(Admitted(R, admits))
        after(r) == {s.published : s \in {o \in steps : o.published > r.published}}
        window(r) == [version |-> r.version,
                      from |-> Later(at, r.published),
                      to |-> Least(after(r) \cup {OpenInterval})]
    IN  {w \in {window(r) : r \in steps} : ~ Empty(w)}
=============================================================================
