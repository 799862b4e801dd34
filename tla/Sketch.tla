-------------------------------- MODULE Sketch --------------------------------
(***************************************************************************)
(* The engine of the observatory (internal/sketch): for one epoch, from    *)
(* nothing, the sketch of everything that depends on each package, by      *)
(* rounds of workers that merge along the edges until no count changes.    *)
(*                                                                         *)
(* A sketch is a function of its slots.  A HyperLogLog has registers that  *)
(* hold ranks; an exact set is the sketch that has one slot for each       *)
(* member, of rank one.  What a name hashes to is a parameter.             *)
(***************************************************************************)
EXTENDS Integers, FiniteSets

Sets == INSTANCE FiniteSetsExt

CONSTANTS
    Packages,
    Kinds,          \* what Engine.New may make
    Registers,
    Hash,           \* the register and the rank of a package
    LinearCount,    \* round(m ln(m / zeros)), by the number of zero registers
    AlphaMM,        \* alpha(m) m m, in thousandths
    Workers

\* The highest rank a name hashes to.
MaxRank == Sets!Max({Hash[p].rank : p \in Packages})

ASSUME SketchAssumption ==
    /\ IsFiniteSet(Packages) /\ IsFiniteSet(Registers) /\ IsFiniteSet(Workers)
    /\ Kinds \subseteq {"exact", "hll"}
    /\ Hash \in [Packages -> [reg : Registers, rank : Nat \ {0}]]
    /\ LinearCount \in [1 .. Cardinality(Registers) -> Nat]
    /\ AlphaMM \in Nat

VARIABLES
    kind,           \* what Engine.New makes
    edges,          \* the edges of the epoch in hand: <<dependent, dependency>>
    chunks,         \* chunks[w]: the edges of worker w
    cur,            \* the sketches of the round before
    partials,       \* partials[w]: what w merged this round, once it is done
    stage           \* "idle", "round" or "stable"

engineVars == <<edges, chunks, cur, partials, stage>>

-----------------------------------------------------------------------------

Slots == IF kind = "exact" THEN Packages ELSE Registers

SlotOf(p) == IF kind = "exact" THEN [reg |-> p, rank |-> 1] ELSE Hash[p]

Blank == [i \in Slots |-> 0]

\* Add to an empty sketch.
Single(p) == [Blank EXCEPT ![SlotOf(p).reg] = SlotOf(p).rank]

\* Merge of all of S: the slot-wise maximum.
MergeAll(S) == [i \in Slots |-> Sets!Max({0} \cup {s[i] : s \in S})]

Zeros(s) == Cardinality({i \in Slots : s[i] = 0})

\* The sum of 2^-rank, in units of 2^-MaxRank.
Inverse2(s) == Sets!FoldSet(LAMBDA i, acc : acc + 2 ^ (MaxRank - s[i]), 0, Registers)

\* HLL.Count: linear counting while registers are empty and the estimate is
\* small, the rounded estimate else.
Estimate(s) ==
    LET num == AlphaMM * 2 ^ MaxRank
        den == 1000 * Inverse2(s)
    IN  IF 2 * num <= 5 * Cardinality(Registers) * den /\ Zeros(s) > 0
        THEN LinearCount[Zeros(s)]
        ELSE (2 * num + den) \div (2 * den)

Count(s) == IF kind = "exact" THEN Cardinality(Slots) - Zeros(s) ELSE Estimate(s)

\* splitEdges: chunks of one size, the last one smaller.
Splits(E) ==
    LET size == (Cardinality(E) + Cardinality(Workers) - 1) \div Cardinality(Workers)
    IN  {f \in [E -> Workers] :
            Cardinality({w \in Workers : Cardinality({e \in E : f[e] = w}) \notin {0, size}}) <= 1
            /\ \A w \in Workers : Cardinality({e \in E : f[e] = w}) <= size}

Endpoints(E) == {e[1] : e \in E} \cup {e[2] : e \in E}

NoPartials == [w \in Workers |-> << >>]

\* Mutant: what the last epoch left is where this one starts.
Warm(nodes) == [p \in nodes |-> IF p \in DOMAIN cur THEN cur[p] ELSE Single(p)]

\* Every epoch is cold started.
Seeded(nodes) == [p \in nodes |-> Single(p)]

EngineInit ==
    /\ kind \in Kinds
    /\ edges = {} /\ chunks = NoPartials /\ cur = << >>
    /\ partials = NoPartials /\ stage = "idle"

\* RunEpoch is called.
StartEpoch(nodes, E) ==
    /\ stage = "idle"
    /\ edges' = E
    /\ \E f \in Splits(E) : chunks' = [w \in Workers |-> {e \in E : f[e] = w}]
    /\ cur' = Seeded(nodes \cup Endpoints(E))
    /\ partials' = NoPartials
    /\ stage' = "round"
    /\ UNCHANGED kind

\* mergeChunk: a worker reads the sketches of the round before only.
MergeChunk(w) ==
    /\ stage = "round" /\ partials[w] = << >>
    /\ chunks[w] # {}
    /\ partials' = [partials EXCEPT ![w] =
          [d \in {e[2] : e \in chunks[w]} |->
              MergeAll({cur[e[1]] : e \in {x \in chunks[w] : x[2] = d}})]]
    /\ UNCHANGED <<kind, edges, chunks, cur, stage>>

PartsOf(p) == {partials[w][p] : w \in {x \in Workers : p \in DOMAIN partials[x]}}

\* Mutant: a node is not seeded again.
FoldedBare == [p \in DOMAIN cur |-> MergeAll(PartsOf(p))]

\* The next round's sketches: every node again, with what the workers found.
Folded == [p \in DOMAIN cur |-> MergeAll(PartsOf(p) \cup {Single(p)})]

\* All workers are done.  Another round follows if a count changed.
EndRound ==
    /\ stage = "round"
    /\ \A w \in Workers : chunks[w] # {} => partials[w] # << >>
    /\ cur' = Folded
    /\ partials' = NoPartials
    /\ stage' = IF \A p \in DOMAIN cur : Count(Folded[p]) = Count(cur[p])
                THEN "stable" ELSE "round"
    /\ UNCHANGED <<kind, edges, chunks>>

EngineStep == EndRound \/ \E w \in Workers : MergeChunk(w)

-----------------------------------------------------------------------------

\* The packages that depend on p, through any number of edges of E.
Dependents(E, p) ==
    LET ball[d \in 0 .. Cardinality(Packages)] ==
            IF d = 0 THEN {p}
            ELSE ball[d - 1] \cup {e[1] : e \in {x \in E : x[2] \in ball[d - 1]}}
    IN  ball[Cardinality(Packages)]

SketchOf(S) == MergeAll({Single(p) : p \in S})

\* sketch.go:66-75: whatever epochs were run before, the sketch of a package
\* holds nothing but what depends on it at this epoch, and at least itself and
\* its direct dependents; an exact set holds all of them.
SketchIsOfTheEpoch ==
    stage = "stable" =>
        \A p \in DOMAIN cur :
            LET all  == SketchOf(Dependents(edges, p))
                near == SketchOf({p} \cup {e[1] : e \in {x \in edges : x[2] = p}})
            IN  \A i \in Slots :
                  /\ near[i] <= cur[p][i] /\ cur[p][i] <= all[i]
                  /\ kind = "exact" => cur[p][i] = all[i]
=============================================================================
