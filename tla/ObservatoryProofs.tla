-------------------------- MODULE ObservatoryProofs --------------------------
(***************************************************************************)
(* Proofs about the engine of the observatory (module Sketch) and about    *)
(* what its command leaves in the graph (module Observatory).              *)
(***************************************************************************)
EXTENDS Observatory, DataProofs, SequenceTheorems

-----------------------------------------------------------------------------
(* Sketches of a given kind.                                               *)

SlotsFor(k) == IF k = "exact" THEN Packages ELSE Registers

\* What one package alone sets in slot i.
RankIn(k, p, i) ==
    IF k = "exact" THEN IF i = p THEN 1 ELSE 0
    ELSE IF i = Hash[p].reg THEN Hash[p].rank ELSE 0

\* The sketches of the kind in hand, slot by slot.
LEMMA SingleIs ==
    ASSUME kind \in Kinds, NEW p \in Packages
    PROVE  /\ Single(p) \in [SlotsFor(kind) -> Nat]
           /\ \A i \in SlotsFor(kind) : Single(p)[i] = RankIn(kind, p, i)
           /\ \A i : RankIn(kind, p, i) \in Nat
<1>1. Slots = SlotsFor(kind)
  BY DEF Slots, SlotsFor
<1>2. Hash[p] \in [reg : Registers, rank : Nat \ {0}]
  BY SketchAssumption
<1>3. \A i : RankIn(kind, p, i) \in Nat
  BY <1>2 DEF RankIn
<1>4. \A i \in Slots : Single(p)[i] = IF i = SlotOf(p).reg THEN SlotOf(p).rank ELSE 0
  BY DEF Single, Blank
<1>5. \A i \in Slots : Single(p)[i] = RankIn(kind, p, i)
  BY <1>4 DEF SlotOf, RankIn
<1>6. Single(p) \in [Slots -> Nat]
  <2>1. Single(p) = [i \in Slots |-> Single(p)[i]]
    BY DEF Single, Blank
  <2> QED BY <1>3, <1>5, <2>1
<1> QED BY <1>1, <1>3, <1>5, <1>6

\* A merge is no less than any of what it merges, and no more than the
\* greatest of it (hll.go and exact.go, Merge).
LEMMA MergeIs ==
    ASSUME NEW S, IsFiniteSet(S), S \subseteq [SlotsFor(kind) -> Nat]
    PROVE  /\ MergeAll(S) \in [SlotsFor(kind) -> Nat]
           /\ \A s \in S : \A i \in SlotsFor(kind) : s[i] <= MergeAll(S)[i]
           /\ \A i \in SlotsFor(kind) :
                 MergeAll(S)[i] = 0 \/ \E s \in S : MergeAll(S)[i] = s[i]
<1>1. Slots = SlotsFor(kind)
  BY DEF Slots, SlotsFor
<1> DEFINE At_(i) == {0} \cup {s[i] : s \in S}
<1>2. ASSUME NEW i \in SlotsFor(kind)
      PROVE  /\ MergeAll(S)[i] \in At_(i) /\ \A x \in At_(i) : MergeAll(S)[i] >= x
             /\ At_(i) \subseteq Nat
  <2> DEFINE f == [s \in S |-> s[i]]
             T == {s[i] : s \in S}
  <2>1. f \in Surjection(S, T)
    BY DEF Surjection
  <2> HIDE DEF f, T
  <2>2. IsFiniteSet(T)
    BY <2>1, FS_Surjection
  <2> USE DEF T
  <2>3. IsFiniteSet(At_(i))
    BY <2>2, FS_EmptySet, FS_AddElement, FS_Union
  <2>4. At_(i) \subseteq Nat /\ At_(i) # {}
    OBVIOUS
  <2> HIDE DEF At_, T
  <2>5. \E x \in At_(i) : \A y \in At_(i) : y <= x
    BY <2>3, <2>4, GreatestOfFinite
  <2>6. \E x \in At_(i) : \A y \in At_(i) : x >= y
    BY <2>4, <2>5
  <2>7. MergeAll(S)[i] = Sets!Max(At_(i))
    BY <1>1 DEF MergeAll, At_
  <2> QED BY <2>4, <2>6, <2>7 DEF Sets!Max
<1>3. MergeAll(S) = [i \in SlotsFor(kind) |-> MergeAll(S)[i]]
  BY <1>1 DEF MergeAll
<1>4. MergeAll(S) \in [SlotsFor(kind) -> Nat]
  BY <1>2, <1>3
<1>5. \A s \in S : \A i \in SlotsFor(kind) : s[i] \in At_(i)
  OBVIOUS
<1>6. \A i \in SlotsFor(kind) : \A s \in S : s[i] \in Nat
  OBVIOUS
<1> QED BY <1>2, <1>4, <1>5, <1>6

-----------------------------------------------------------------------------
(* What depends on a package.                                              *)

\* What is reached through the edges E backwards from p, and no more: it is
\* the least set that holds p and whatever depends on a member.
LEMMA DependentsAre ==
    ASSUME NEW E \in SUBSET (Packages \X Packages), NEW p \in Packages
    PROVE  /\ Dependents(E, p) \subseteq Packages /\ p \in Dependents(E, p)
           /\ \A e \in E : e[2] \in Dependents(E, p) => e[1] \in Dependents(E, p)
           /\ \A X : p \in X /\ (\A e \in E : e[2] \in X => e[1] \in X)
                        => Dependents(E, p) \subseteq X
<1> DEFINE n == Cardinality(Packages)
           Grow(B) == B \cup {e[1] : e \in {x \in E : x[2] \in B}}
           D == SUBSET Packages
           F == [x \in Int \X D |-> Grow(x[2])]
<1>1. n \in Nat
  BY SketchAssumption, FS_CardinalityType
<1>2. \A B \in D : Grow(B) \in D
  OBVIOUS
<1>3. F \in [Int \X D -> D] /\ \A k \in Int : \A B \in D : F[<<k, B>>] = Grow(B)
  BY <1>2
<1> HIDE DEF F, Grow, n
<1>4. PICK f : IterationOf(f, 0, n, D, {p}, F)
  <2>1. Iterating(0, n, D, {p}, F)
    BY <1>1, <1>3 DEF Iterating
  <2> HIDE DEF D
  <2> QED BY <2>1, IterationExists
<1> DEFINE IsBall(b) == b = [d \in 0 .. n |-> IF d = 0 THEN {p} ELSE Grow(b[d - 1])]
<1>5. IsBall(f)
  <2>1. f \in [0 .. n -> D] /\ f[0] = {p}
        /\ \A d \in 0 + 1 .. n : f[d] = F[<<d, f[d - 1]>>]
    BY <1>4 DEF IterationOf
  <2>2. \A d \in 0 .. n : d # 0 => d \in 0 + 1 .. n /\ d - 1 \in 0 .. n /\ d \in Int
    BY <1>1
  <2>3. \A d \in 0 .. n : d # 0 => f[d] = Grow(f[d - 1])
    <3> HIDE DEF D
    <3> QED BY <1>3, <2>1, <2>2
  <2>4. f = [d \in 0 .. n |-> f[d]]
    BY <2>1
  <2> QED BY <2>1, <2>3, <2>4
<1>6. Dependents(E, p) = (CHOOSE b : IsBall(b))[n]
  BY DEF Dependents, Grow, n
<1> DEFINE b == CHOOSE c : IsBall(c)
<1>7. IsBall(b)
  BY <1>5
<1> HIDE DEF b
<1>8. b[0] = {p} /\ \A d \in 0 .. n : d # 0 => b[d] = Grow(b[d - 1])
  <2>1. 0 \in 0 .. n
    BY <1>1
  <2>2. \A d \in 0 .. n : b[d] = IF d = 0 THEN {p} ELSE Grow(b[d - 1])
    BY <1>7
  <2> QED BY <2>1, <2>2
<1> HIDE DEF IsBall
<1> DEFINE Shut(B) == \A e \in E : e[2] \in B => e[1] \in B
           Good(d) == /\ b[d] \in D /\ p \in b[d]
                      /\ Shut(b[d]) \/ Cardinality(b[d]) > d
                      /\ \A X : p \in X /\ Shut(X) => b[d] \subseteq X
           Upto == {d \in Nat : d <= n => Good(d)}
<1>9. \A B : B \subseteq Grow(B) /\ (Shut(B) => Grow(B) = B) /\ (Grow(B) = B => Shut(B))
  BY DEF Grow
<1>10. \A B, X : B \subseteq X /\ Shut(X) => Grow(B) \subseteq X
  BY DEF Grow
<1>11. 0 \in Upto
  <2>1. Cardinality({p}) = 1
    BY FS_Singleton
  <2>2. Good(0)
    BY <1>8, <2>1
  <2> QED BY <2>2
<1>12. ASSUME NEW d \in Nat, d \in Upto PROVE d + 1 \in Upto
  <2> SUFFICES ASSUME d + 1 <= n PROVE Good(d + 1)
    OBVIOUS
  <2>1. Good(d)
    BY <1>1, <1>12
  <2>2. d + 1 \in 0 .. n /\ d + 1 # 0 /\ (d + 1) - 1 = d
    BY <1>1
  <2>3. b[d + 1] = Grow(b[d])
    BY <1>8, <2>2
  <2> HIDE DEF Shut
  <2>4. b[d + 1] \in D /\ p \in b[d + 1] /\ \A X : p \in X /\ Shut(X) => b[d + 1] \subseteq X
    BY <1>2, <1>9, <1>10, <2>1, <2>3
  <2>5. CASE Shut(b[d])
    BY <1>9, <2>1, <2>3, <2>4, <2>5
  <2>6. CASE ~ Shut(b[d])
    <3>1. b[d] \subseteq b[d + 1] /\ b[d] # b[d + 1]
      BY <1>9, <2>3, <2>6
    <3>2. IsFiniteSet(b[d + 1])
      BY <2>4, SketchAssumption, FS_Subset
    <3>3. /\ IsFiniteSet(b[d]) /\ Cardinality(b[d]) <= Cardinality(b[d + 1])
          /\ Cardinality(b[d]) # Cardinality(b[d + 1])
      BY <3>1, <3>2, FS_Subset
    <3>4. Cardinality(b[d]) \in Nat /\ Cardinality(b[d + 1]) \in Nat
      BY <3>2, <3>3, FS_CardinalityType
    <3>5. Cardinality(b[d + 1]) > d + 1
      BY <2>1, <2>6, <3>3, <3>4
    <3> QED BY <2>4, <3>5
  <2> QED BY <2>5, <2>6
<1> HIDE DEF Upto
<1>13. Nat \subseteq Upto
  BY <1>11, <1>12, NatInductive
<1>14. Good(n)
  BY <1>1, <1>13 DEF Upto
<1>15. Cardinality(b[n]) <= n /\ Cardinality(b[n]) \in Nat
  BY <1>14, SketchAssumption, FS_Subset, FS_CardinalityType DEF n
<1>16. Shut(b[n])
  BY <1>1, <1>14, <1>15
<1> QED BY <1>6, <1>14, <1>16 DEF b

-----------------------------------------------------------------------------
(* The rounds of an epoch.                                                 *)

\* Sketches c over the edges E: each holds its package, and in each slot what
\* some dependent set there; what is more than its own, a direct dependent
\* has at least as well, so that a round takes nothing away.
CurOk(k, E, c) ==
    /\ DOMAIN c \subseteq Packages /\ c \in [DOMAIN c -> [SlotsFor(k) -> Nat]]
    /\ \A e \in E : e[1] \in DOMAIN c /\ e[2] \in DOMAIN c
    /\ \A p \in DOMAIN c : \A i \in SlotsFor(k) :
          /\ RankIn(k, p, i) <= c[p][i]
          /\ c[p][i] <= RankIn(k, p, i) \/ \E e \in E : e[2] = p /\ c[p][i] <= c[e[1]][i]
          /\ c[p][i] = 0 \/ \E q \in Dependents(E, p) : c[p][i] = RankIn(k, q, i)

\* What a worker merged of the sketches c along the edges C of its chunk.
PartOk(k, C, c, t) ==
    /\ DOMAIN t = {e[2] : e \in C} /\ t \in [DOMAIN t -> [SlotsFor(k) -> Nat]]
    /\ \A e \in C : \A i \in SlotsFor(k) : c[e[1]][i] <= t[e[2]][i]
    /\ \A d \in DOMAIN t : \A i \in SlotsFor(k) :
          t[d][i] = 0 \/ \E e \in C : e[2] = d /\ t[d][i] = c[e[1]][i]

\* What holds once no count changes.
Settled(k, E, c) ==
    \A e \in E : \A i \in SlotsFor(k) :
        /\ RankIn(k, e[1], i) <= c[e[2]][i]
        /\ k = "exact" => c[e[1]][i] <= c[e[2]][i]

EngineInv ==
    /\ kind \in Kinds
    /\ stage \in {"idle", "round", "stable"}
    /\ stage # "idle" =>
          /\ edges \in SUBSET (Packages \X Packages)
          /\ chunks \in [Workers -> SUBSET edges]
          /\ \A e \in edges : \E w \in Workers : e \in chunks[w]
          /\ CurOk(kind, edges, cur)
          /\ partials = [w \in Workers |-> partials[w]]
          /\ \A w \in Workers : partials[w] = << >> \/ PartOk(kind, chunks[w], cur, partials[w])
          /\ stage = "stable" => Settled(kind, edges, cur)

\* A part of the sketches of finitely many packages is finite.
LEMMA FewSketches ==
    ASSUME NEW c, DOMAIN c \subseteq Packages, NEW X, \A e \in X : e[1] \in DOMAIN c
    PROVE  IsFiniteSet({c[e[1]] : e \in X})
<1> DEFINE T == {e[1] : e \in X}
           f == [p \in T |-> c[p]]
           U == {c[e[1]] : e \in X}
<1>1. IsFiniteSet(T)
  BY SketchAssumption, FS_Subset
<1>2. f \in Surjection(T, U)
  BY DEF Surjection
<1> HIDE DEF f, T, U
<1>3. IsFiniteSet(U)
  BY <1>1, <1>2, FS_Surjection
<1> QED BY <1>3 DEF U

\* What a worker leaves is the merge along its own edges (mergeChunk).
LEMMA ChunkIsMerged ==
    ASSUME EngineInv, stage = "round", NEW w \in Workers, MergeChunk(w)
    PROVE  PartOk(kind, chunks[w], cur, partials'[w])
<1> DEFINE C == chunks[w]
           Of(d) == {cur[e[1]] : e \in {x \in C : x[2] = d}}
           t == [d \in {e[2] : e \in C} |-> MergeAll(Of(d))]
<1>1. partials'[w] = t
  BY DEF MergeChunk, EngineInv
<1>2. C \subseteq edges /\ edges \subseteq Packages \X Packages /\ CurOk(kind, edges, cur)
  BY DEF EngineInv
<1>3. ASSUME NEW d \in {e[2] : e \in C}
      PROVE  /\ t[d] \in [SlotsFor(kind) -> Nat]
             /\ \A e \in C : e[2] = d =>
                    \A i \in SlotsFor(kind) : cur[e[1]][i] <= t[d][i]
             /\ \A i \in SlotsFor(kind) :
                    t[d][i] = 0 \/ \E e \in C : e[2] = d /\ t[d][i] = cur[e[1]][i]
  <2>1. IsFiniteSet(Of(d)) /\ Of(d) \subseteq [SlotsFor(kind) -> Nat]
    <3>1. DOMAIN cur \subseteq Packages /\ \A e \in {x \in C : x[2] = d} : e[1] \in DOMAIN cur
      BY <1>2 DEF CurOk
    <3>2. IsFiniteSet(Of(d))
      BY <3>1, FewSketches
    <3>3. cur \in [DOMAIN cur -> [SlotsFor(kind) -> Nat]]
      BY <1>2 DEF CurOk
    <3> QED BY <3>1, <3>2, <3>3
  <2>2. t[d] = MergeAll(Of(d))
    OBVIOUS
  <2> DEFINE O == Of(d)
  <2>3. \A e \in C : e[2] = d => cur[e[1]] \in O
    OBVIOUS
  <2>4. \A s \in O : \E e \in C : e[2] = d /\ s = cur[e[1]]
    OBVIOUS
  <2>5. IsFiniteSet(O) /\ O \subseteq [SlotsFor(kind) -> Nat] /\ t[d] = MergeAll(O)
    BY <2>1, <2>2
  <2> HIDE DEF O, t, C
  <2>6. /\ t[d] \in [SlotsFor(kind) -> Nat]
        /\ \A s \in O : \A i \in SlotsFor(kind) : s[i] <= t[d][i]
        /\ \A i \in SlotsFor(kind) : t[d][i] = 0 \/ \E s \in O : t[d][i] = s[i]
    BY <2>5, MergeIs
  <2> QED BY <2>3, <2>4, <2>6
<1>4. DOMAIN t = {e[2] : e \in C} /\ t = [d \in DOMAIN t |-> t[d]]
  OBVIOUS
<1> HIDE DEF t, C
<1>5. PartOk(kind, C, cur, t)
  BY <1>3, <1>4 DEF PartOk
<1> QED BY <1>1, <1>5 DEF C

\* The workers together found, for a package, what its direct dependents
\* have, and no more.
LEMMA PartsAre ==
    ASSUME EngineInv, stage = "round", NEW p \in DOMAIN cur,
           \A w \in Workers : chunks[w] # {} => partials[w] # << >>
    PROVE  /\ IsFiniteSet(PartsOf(p)) /\ PartsOf(p) \subseteq [SlotsFor(kind) -> Nat]
           /\ \A e \in edges : e[2] = p =>
                 \E s \in PartsOf(p) : \A i \in SlotsFor(kind) : cur[e[1]][i] <= s[i]
           /\ \A s \in PartsOf(p) : \A i \in SlotsFor(kind) :
                 s[i] = 0 \/ \E e \in edges : e[2] = p /\ s[i] = cur[e[1]][i]
<1> DEFINE W == {x \in Workers : p \in DOMAIN partials[x]}
           U == {partials[w][p] : w \in W}
           f == [w \in W |-> partials[w][p]]
<1>1. IsFiniteSet(U)
  <2>1. IsFiniteSet(W)
    BY SketchAssumption, FS_Subset
  <2>2. f \in Surjection(W, U)
    BY DEF Surjection
  <2> HIDE DEF f, W, U
  <2> QED BY <2>1, <2>2, FS_Surjection
<1>2. \A w \in W : PartOk(kind, chunks[w], cur, partials[w])
  <2>1. DOMAIN << >> = {}
    OBVIOUS
  <2> QED BY <2>1 DEF EngineInv
<1>3. \A w \in W : /\ partials[w][p] \in [SlotsFor(kind) -> Nat]
                   /\ \A i \in SlotsFor(kind) : partials[w][p][i] = 0
                         \/ \E e \in chunks[w] : e[2] = p /\ partials[w][p][i] = cur[e[1]][i]
  BY <1>2 DEF PartOk
<1>4. \A w \in Workers : chunks[w] \subseteq edges
  BY DEF EngineInv
<1>5. ASSUME NEW e \in edges, e[2] = p
      PROVE  \E w \in W : \A i \in SlotsFor(kind) : cur[e[1]][i] <= partials[w][p][i]
  <2>1. PICK w \in Workers : e \in chunks[w]
    BY DEF EngineInv
  <2>2. PartOk(kind, chunks[w], cur, partials[w])
    BY <2>1 DEF EngineInv
  <2>3. w \in W
    BY <1>5, <2>1, <2>2 DEF PartOk
  <2> QED BY <1>5, <2>1, <2>2, <2>3 DEF PartOk
<1>6. PartsOf(p) = U
  BY DEF PartsOf
<1> QED BY <1>1, <1>3, <1>4, <1>5, <1>6

\* Every epoch is cold started, and that start is in order.
LEMMA SeedsAreOk ==
    ASSUME kind \in Kinds, NEW E \in SUBSET (Packages \X Packages),
           NEW nodes \in SUBSET Packages
    PROVE  CurOk(kind, E, Seeded(nodes \cup Endpoints(E)))
<1> DEFINE N == nodes \cup Endpoints(E)
           c == Seeded(N)
<1>1. N \subseteq Packages /\ \A e \in E : e[1] \in N /\ e[2] \in N
  BY DEF Endpoints
<1>2. DOMAIN c = N /\ c = [p \in N |-> c[p]] /\ \A p \in N : c[p] = Single(p)
  BY DEF Seeded
<1> HIDE DEF c, N
<1>3. ASSUME NEW p \in N
      PROVE  /\ c[p] \in [SlotsFor(kind) -> Nat]
             /\ \A i \in SlotsFor(kind) :
                   c[p][i] = RankIn(kind, p, i) /\ RankIn(kind, p, i) \in Nat
             /\ p \in Dependents(E, p)
  <2>1. p \in Packages /\ c[p] = Single(p)
    BY <1>1, <1>2
  <2>2. p \in Dependents(E, p)
    BY <2>1, DependentsAre
  <2> QED BY <2>1, <2>2, SingleIs
<1>4. CurOk(kind, E, c)
  BY <1>1, <1>2, <1>3 DEF CurOk
<1> QED BY <1>4 DEF c, N

\* A round keeps the sketches in order, takes nothing away, and brings to a
\* package all that its direct dependents had.
LEMMA RoundGrows ==
    ASSUME EngineInv, stage = "round",
           \A w \in Workers : chunks[w] # {} => partials[w] # << >>
    PROVE  /\ CurOk(kind, edges, Folded) /\ DOMAIN Folded = DOMAIN cur
           /\ \A p \in DOMAIN cur : \A i \in SlotsFor(kind) : cur[p][i] <= Folded[p][i]
           /\ \A e \in edges : \A i \in SlotsFor(kind) : cur[e[1]][i] <= Folded[e[2]][i]
<1> DEFINE new == Folded
<1>1. DOMAIN new = DOMAIN cur /\ new = [p \in DOMAIN new |-> new[p]]
      /\ \A p \in DOMAIN cur : new[p] = MergeAll(PartsOf(p) \cup {Single(p)})
  BY DEF Folded
<1>2. CurOk(kind, edges, cur) /\ edges \in SUBSET (Packages \X Packages) /\ kind \in Kinds
  BY DEF EngineInv
<1>3. /\ DOMAIN cur \subseteq Packages /\ cur \in [DOMAIN cur -> [SlotsFor(kind) -> Nat]]
      /\ \A e \in edges : e[1] \in DOMAIN cur /\ e[2] \in DOMAIN cur
      /\ \A p \in DOMAIN cur : \A i \in SlotsFor(kind) :
            /\ RankIn(kind, p, i) <= cur[p][i]
            /\ cur[p][i] <= RankIn(kind, p, i)
                  \/ \E e \in edges : e[2] = p /\ cur[p][i] <= cur[e[1]][i]
            /\ cur[p][i] = 0 \/ \E q \in Dependents(edges, p) : cur[p][i] = RankIn(kind, q, i)
  BY <1>2 DEF CurOk
<1> HIDE DEF new
<1>4. ASSUME NEW p \in DOMAIN cur
      PROVE  /\ new[p] \in [SlotsFor(kind) -> Nat]
             /\ \A i \in SlotsFor(kind) :
                   RankIn(kind, p, i) \in Nat /\ RankIn(kind, p, i) <= new[p][i]
             /\ \A e \in edges : e[2] = p =>
                   \A i \in SlotsFor(kind) : cur[e[1]][i] <= new[p][i]
             /\ \A i \in SlotsFor(kind) :
                   \/ new[p][i] = 0 \/ new[p][i] = RankIn(kind, p, i)
                   \/ \E e \in edges : e[2] = p /\ new[p][i] = cur[e[1]][i]
  <2> DEFINE S == PartsOf(p) \cup {Single(p)}
  <2>1. /\ Single(p) \in [SlotsFor(kind) -> Nat]
        /\ \A i \in SlotsFor(kind) : Single(p)[i] = RankIn(kind, p, i)
        /\ \A i \in SlotsFor(kind) : RankIn(kind, p, i) \in Nat
    BY <1>2, <1>3, SingleIs
  <2>2. /\ IsFiniteSet(PartsOf(p)) /\ PartsOf(p) \subseteq [SlotsFor(kind) -> Nat]
        /\ \A e \in edges : e[2] = p =>
              \E s \in PartsOf(p) : \A i \in SlotsFor(kind) : cur[e[1]][i] <= s[i]
        /\ \A s \in PartsOf(p) : \A i \in SlotsFor(kind) :
              s[i] = 0 \/ \E e \in edges : e[2] = p /\ s[i] = cur[e[1]][i]
    BY PartsAre
  <2>3. IsFiniteSet(S) /\ S \subseteq [SlotsFor(kind) -> Nat]
    BY <2>1, <2>2, FS_AddElement
  <2>4. new[p] = MergeAll(S)
    BY <1>1
  <2>5. Single(p) \in S /\ PartsOf(p) \subseteq S /\ \A s \in S : s \in PartsOf(p) \/ s = Single(p)
    OBVIOUS
  <2> HIDE DEF S
  <2>6. /\ new[p] \in [SlotsFor(kind) -> Nat]
        /\ \A s \in S : \A i \in SlotsFor(kind) : s[i] <= new[p][i]
        /\ \A i \in SlotsFor(kind) : new[p][i] = 0 \/ \E s \in S : new[p][i] = s[i]
    BY <2>3, <2>4, MergeIs
  <2>7. ASSUME NEW e \in edges, e[2] = p, NEW i \in SlotsFor(kind)
        PROVE  cur[e[1]][i] <= new[p][i]
    <3>1. PICK s \in PartsOf(p) : \A j \in SlotsFor(kind) : cur[e[1]][j] <= s[j]
      BY <2>2, <2>7
    <3>2. cur[e[1]][i] <= s[i] /\ s[i] <= new[p][i]
      BY <2>5, <2>6, <3>1
    <3>3. cur[e[1]][i] \in Nat /\ s[i] \in Nat /\ new[p][i] \in Nat
      BY <1>3, <2>2, <2>6
    <3> QED BY <3>2, <3>3
  <2>8. \A i \in SlotsFor(kind) : RankIn(kind, p, i) <= new[p][i]
    BY <2>1, <2>5, <2>6
  <2>9. ASSUME NEW i \in SlotsFor(kind)
        PROVE  \/ new[p][i] = 0 \/ new[p][i] = RankIn(kind, p, i)
               \/ \E e \in edges : e[2] = p /\ new[p][i] = cur[e[1]][i]
    BY <2>1, <2>2, <2>5, <2>6
  <2> QED BY <2>1, <2>6, <2>7, <2>8, <2>9
<1>5. ASSUME NEW p \in DOMAIN cur, NEW i \in SlotsFor(kind)
      PROVE  cur[p][i] <= new[p][i]
  <2>1. cur[p][i] \in Nat /\ new[p][i] \in Nat /\ RankIn(kind, p, i) \in Nat
    BY <1>3, <1>4
  <2>2. CASE cur[p][i] <= RankIn(kind, p, i)
    BY <1>4, <2>1, <2>2
  <2>3. CASE \E e \in edges : e[2] = p /\ cur[p][i] <= cur[e[1]][i]
    <3>1. PICK e \in edges : e[2] = p /\ cur[p][i] <= cur[e[1]][i]
      BY <2>3
    <3>2. cur[e[1]][i] \in Nat /\ cur[e[1]][i] <= new[p][i]
      BY <1>3, <1>4, <3>1
    <3> QED BY <2>1, <3>1, <3>2
  <2> QED BY <1>3, <2>2, <2>3
<1>6. ASSUME NEW p \in DOMAIN cur, NEW i \in SlotsFor(kind)
      PROVE  /\ new[p][i] <= RankIn(kind, p, i)
                   \/ \E e \in edges : e[2] = p /\ new[p][i] <= new[e[1]][i]
             /\ new[p][i] = 0 \/ \E q \in Dependents(edges, p) : new[p][i] = RankIn(kind, q, i)
  <2>1. CASE new[p][i] = 0
    BY <1>4, <2>1
  <2>2. CASE new[p][i] = RankIn(kind, p, i)
    BY <1>2, <1>3, <1>4, <2>2, DependentsAre
  <2>3. CASE \E e \in edges : e[2] = p /\ new[p][i] = cur[e[1]][i]
    <3>1. PICK e \in edges : e[2] = p /\ new[p][i] = cur[e[1]][i]
      BY <2>3
    <3>2. e[1] \in DOMAIN cur /\ new[p][i] <= new[e[1]][i]
      BY <1>3, <1>5, <3>1
    <3>3. Dependents(edges, e[1]) \subseteq Dependents(edges, p)
      <4>1. e[1] \in Packages /\ p \in Packages
        BY <1>3, <3>2
      <4>2. e[1] \in Dependents(edges, p)
            /\ \A x \in edges : x[2] \in Dependents(edges, p) => x[1] \in Dependents(edges, p)
        BY <1>2, <3>1, <4>1, DependentsAre
      <4> QED BY <1>2, <4>1, <4>2, DependentsAre
    <3>4. cur[e[1]][i] = 0 \/ \E q \in Dependents(edges, e[1]) : cur[e[1]][i] = RankIn(kind, q, i)
      BY <1>3, <3>2
    <3> QED BY <3>1, <3>2, <3>3, <3>4
  <2> QED BY <1>4, <2>1, <2>2, <2>3
<1>7. CurOk(kind, edges, new)
  BY <1>1, <1>3, <1>4, <1>6 DEF CurOk
<1>8. \A e \in edges : \A i \in SlotsFor(kind) : cur[e[1]][i] <= new[e[2]][i]
  BY <1>3, <1>4
<1> QED BY <1>1, <1>5, <1>7, <1>8 DEF new

\* If no count changed, every package has what its direct dependents have: of
\* exact sets, because a set that only grew and has as many members is the same.
LEMMA RoundSettles ==
    ASSUME EngineInv, stage = "round",
           \A w \in Workers : chunks[w] # {} => partials[w] # << >>,
           \A p \in DOMAIN cur : Count(Folded[p]) = Count(cur[p])
    PROVE  Settled(kind, edges, Folded)
<1> DEFINE new == Folded
<1>1. /\ CurOk(kind, edges, new) /\ DOMAIN new = DOMAIN cur
      /\ \A p \in DOMAIN cur : \A i \in SlotsFor(kind) : cur[p][i] <= new[p][i]
      /\ \A e \in edges : \A i \in SlotsFor(kind) : cur[e[1]][i] <= new[e[2]][i]
  BY RoundGrows
<1>2. CurOk(kind, edges, cur) /\ edges \in SUBSET (Packages \X Packages) /\ kind \in Kinds
  BY DEF EngineInv
<1> HIDE DEF new
<1>3. \A e \in edges : e[1] \in DOMAIN cur /\ e[2] \in DOMAIN cur /\ e[1] \in Packages
  BY <1>2 DEF CurOk
<1>4. \A p \in DOMAIN cur : \A i \in SlotsFor(kind) : cur[p][i] \in Nat /\ new[p][i] \in Nat
  BY <1>1, <1>2 DEF CurOk
<1>5. ASSUME NEW e \in edges, NEW i \in SlotsFor(kind)
      PROVE  RankIn(kind, e[1], i) <= new[e[2]][i]
  <2>1. RankIn(kind, e[1], i) <= cur[e[1]][i]
    BY <1>2, <1>3 DEF CurOk
  <2>2. RankIn(kind, e[1], i) \in Nat
    BY <1>2, <1>3, SingleIs
  <2>3. cur[e[1]][i] <= new[e[2]][i] /\ cur[e[1]][i] \in Nat /\ new[e[2]][i] \in Nat
    BY <1>1, <1>3, <1>4
  <2> QED BY <2>1, <2>2, <2>3
<1>6. ASSUME kind = "exact", NEW p \in DOMAIN cur, NEW i \in SlotsFor(kind)
      PROVE  new[p][i] <= cur[p][i]
  <2> DEFINE Z(s) == {j \in Slots : s[j] = 0}
  <2>1. Slots = Packages /\ SlotsFor(kind) = Packages
    BY <1>6 DEF Slots, SlotsFor
  <2>2. Cardinality(Packages) - Cardinality(Z(new[p])) = Cardinality(Packages) - Cardinality(Z(cur[p]))
    BY <1>6, <2>1 DEF Count, Zeros, new
  <2>3. IsFiniteSet(Z(new[p])) /\ IsFiniteSet(Z(cur[p]))
    BY <2>1, SketchAssumption, FS_Subset
  <2>4. Cardinality(Packages) \in Nat /\ Cardinality(Z(new[p])) \in Nat /\ Cardinality(Z(cur[p])) \in Nat
    BY <2>3, SketchAssumption, FS_CardinalityType
  <2>5. Cardinality(Z(new[p])) = Cardinality(Z(cur[p]))
    BY <2>2, <2>4
  <2>6. \A j \in SlotsFor(kind) : cur[p][j] <= new[p][j]
    BY <1>1, <1>6
  <2>7. \A j \in SlotsFor(kind) : cur[p][j] \in Nat /\ new[p][j] \in Nat
    BY <1>4, <1>6
  <2>8. Z(new[p]) \subseteq Z(cur[p])
    BY <2>1, <2>6, <2>7
  <2>9. Z(new[p]) = Z(cur[p])
    BY <2>3, <2>5, <2>8, FS_Subset
  <2>10. new[p][i] \in {0, 1}
    BY <1>1, <1>6 DEF CurOk, RankIn
  <2>11. i \in Slots
    BY <2>1, <1>6
  <2>12. new[p][i] = 0 <=> cur[p][i] = 0
    BY <2>9, <2>11
  <2> QED BY <2>7, <2>10, <2>12, <1>6
<1>7. ASSUME kind = "exact", NEW e \in edges, NEW i \in SlotsFor(kind)
      PROVE  new[e[1]][i] <= new[e[2]][i]
  <2>1. new[e[1]][i] <= cur[e[1]][i] /\ cur[e[1]][i] <= new[e[2]][i]
    BY <1>1, <1>3, <1>6, <1>7
  <2>2. new[e[1]][i] \in Nat /\ cur[e[1]][i] \in Nat /\ new[e[2]][i] \in Nat
    BY <1>3, <1>4, <1>7
  <2> QED BY <2>1, <2>2
<1> QED BY <1>5, <1>7 DEF Settled, new

-----------------------------------------------------------------------------
(* The engine within the command.                                          *)

\* The command's part of the state.
CommandOK ==
    /\ graph \in Ingests /\ run \in RunsOf
    /\ pc \in {"ended", "failed", "snapshots", "epochs", "writing"}
    /\ stage # "idle" => pc = "epochs"

\* A snapshot has edges between packages only.
LEMMA SnapshotIsEdges ==
    ASSUME graph \in Ingests, NEW names \in SUBSET Packages, NEW t
    PROVE  Snapshot(names, t) \in SUBSET (Packages \X Packages)
<1>1. graph.releases \subseteq Release
  BY ObservatoryAssumption
<1>2. \A p : Current(p, t) \subseteq Release
  BY <1>1 DEF Current
<1> QED BY <1>2 DEF Snapshot, Release

\* The start of an epoch.
LEMMA StartKeepsEngine ==
    ASSUME EngineInv, NEW nodes \in SUBSET Packages,
           NEW E \in SUBSET (Packages \X Packages), StartEpoch(nodes, E)
    PROVE  EngineInv'
<1>1. PICK f \in Splits(E) : chunks' = [w \in Workers |-> {e \in E : f[e] = w}]
  BY DEF StartEpoch
<1>2. f \in [E -> Workers]
  BY DEF Splits
<1>3. edges' = E /\ cur' = Seeded(nodes \cup Endpoints(E)) /\ partials' = NoPartials
      /\ stage' = "round" /\ kind' = kind /\ kind \in Kinds
  BY DEF StartEpoch, EngineInv
<1>4. chunks' \in [Workers -> SUBSET E] /\ \A e \in E : \E w \in Workers : e \in chunks'[w]
  BY <1>1, <1>2
<1>5. CurOk(kind, E, cur')
  BY <1>3, SeedsAreOk
<1>6. partials' = [w \in Workers |-> partials'[w]] /\ \A w \in Workers : partials'[w] = << >>
  BY <1>3 DEF NoPartials
<1> QED BY <1>3, <1>4, <1>5, <1>6 DEF EngineInv

\* A worker ends, or a round does.
LEMMA EngineStepKeeps ==
    ASSUME EngineInv, EngineStep
    PROVE  EngineInv' /\ stage = "round" /\ stage' # "idle"
<1>1. ASSUME NEW w \in Workers, MergeChunk(w)
      PROVE  EngineInv' /\ stage = "round" /\ stage' # "idle"
  <2>1. stage = "round" /\ UNCHANGED <<kind, edges, chunks, cur, stage>>
    BY <1>1 DEF MergeChunk
  <2>2. PartOk(kind, chunks[w], cur, partials'[w])
    BY <1>1, <2>1, ChunkIsMerged
  <2>3. partials = [x \in Workers |-> partials[x]]
    BY <2>1 DEF EngineInv
  <2>4. partials' = [x \in Workers |-> partials'[x]]
        /\ \A x \in Workers : x # w => partials'[x] = partials[x]
    BY <1>1, <2>3 DEF MergeChunk
  <2>5. \A x \in Workers : partials'[x] = << >> \/ PartOk(kind, chunks[x], cur, partials'[x])
    BY <2>1, <2>2, <2>4 DEF EngineInv
  <2> QED BY <2>1, <2>4, <2>5 DEF EngineInv
<1>2. ASSUME EndRound
      PROVE  EngineInv' /\ stage = "round" /\ stage' # "idle"
  <2>1. /\ stage = "round" /\ UNCHANGED <<kind, edges, chunks>> /\ cur' = Folded
        /\ partials' = NoPartials /\ stage' \in {"round", "stable"}
        /\ \A w \in Workers : chunks[w] # {} => partials[w] # << >>
        /\ stage' = "stable" => \A p \in DOMAIN cur : Count(Folded[p]) = Count(cur[p])
    BY <1>2 DEF EndRound
  <2>2. CurOk(kind, edges, Folded)
    BY <2>1, RoundGrows
  <2>3. stage' = "stable" => Settled(kind, edges, Folded)
    BY <2>1, RoundSettles
  <2>4. partials' = [w \in Workers |-> partials'[w]] /\ \A w \in Workers : partials'[w] = << >>
    BY <2>1 DEF NoPartials
  <2> QED BY <2>1, <2>2, <2>3, <2>4 DEF EngineInv
<1> QED BY <1>1, <1>2 DEF EngineStep

\* Every step of the command keeps the engine's invariant.
LEMMA EngineInvHolds ==
    Spec => [](EngineInv /\ CommandOK)
<1>1. Init => EngineInv /\ CommandOK
  BY DEF Init, EngineInit, EngineInv, CommandOK
<1>2. ASSUME EngineInv, CommandOK, [Next]_vars
      PROVE  EngineInv' /\ CommandOK'
  <2> USE <1>2
  <2>1. ASSUME UNCHANGED <<engineVars, kind>> PROVE EngineInv'
    BY <2>1 DEF engineVars, EngineInv
  <2>2. CASE Reingest
    BY <2>1, <2>2 DEF Reingest, CommandOK, engineVars
  <2>3. ASSUME NEW r \in RunsOf, Start(r) PROVE EngineInv' /\ CommandOK'
    BY <2>1, <2>3 DEF Start, CommandOK, engineVars
  <2>4. CASE Compute
    BY <2>1, <2>4 DEF Compute, CommandOK, engineVars
  <2>5. CASE CallEngine
    <3>1. run.names \in SUBSET Packages
      BY ObservatoryAssumption DEF CommandOK
    <3>2. Snapshot(run.names, Epoch) \in SUBSET (Packages \X Packages)
      BY <3>1, SnapshotIsEdges DEF CommandOK
    <3>3. EngineInv'
      BY <2>5, <3>1, <3>2, StartKeepsEngine DEF CallEngine
    <3>4. CommandOK'
      BY <2>5 DEF CallEngine, CommandOK
    <3> QED BY <3>3, <3>4
  <2>6. CASE Propagate
    <3>1. EngineInv' /\ stage = "round"
      BY <2>6, EngineStepKeeps DEF Propagate
    <3>2. CommandOK'
      BY <2>6, <3>1 DEF Propagate, CommandOK
    <3> QED BY <3>1, <3>2
  <2>7. CASE EndEpoch
    BY <2>7 DEF EndEpoch, CommandOK, EngineInv
  <2>8. CASE WriteRow
    BY <2>1, <2>8 DEF WriteRow, CommandOK, engineVars
  <2>9. CASE EndCall
    <3>1. UNCHANGED <<engineVars, kind, graph, run>>
          /\ (pc' = pc \/ (pc = "writing" /\ pc' = "ended"))
      BY <2>9 DEF EndCall
    <3>2. CommandOK'
      BY <3>1 DEF CommandOK, engineVars
    <3> QED BY <2>1, <3>1, <3>2
  <2>10. CASE Fail
    BY <2>10 DEF Fail, CommandOK, EngineInv
  <2>11. CASE UNCHANGED vars
    BY <2>1, <2>11 DEF vars, CommandOK, engineVars
  <2> QED BY <2>2, <2>3, <2>4, <2>5, <2>6, <2>7, <2>8, <2>9, <2>10, <2>11 DEF Next
<1> QED BY <1>1, <1>2, PTL DEF Spec

\* The slots of the sketches of a set of packages, merged.
LEMMA SketchOfIs ==
    ASSUME kind \in Kinds, NEW S \in SUBSET Packages
    PROVE  /\ SketchOf(S) \in [SlotsFor(kind) -> Nat]
           /\ \A q \in S : \A i \in SlotsFor(kind) : RankIn(kind, q, i) <= SketchOf(S)[i]
           /\ \A i \in SlotsFor(kind) :
                 SketchOf(S)[i] = 0 \/ \E q \in S : SketchOf(S)[i] = RankIn(kind, q, i)
<1> DEFINE T == {Single(p) : p \in S}
           f == [p \in S |-> Single(p)]
<1>1. IsFiniteSet(T)
  <2>1. f \in Surjection(S, T) /\ IsFiniteSet(S)
    BY SketchAssumption, FS_Subset DEF Surjection
  <2> HIDE DEF f, T
  <2> QED BY <2>1, FS_Surjection
<1>2. \A p \in S : /\ Single(p) \in T /\ Single(p) \in [SlotsFor(kind) -> Nat]
                   /\ \A i \in SlotsFor(kind) : Single(p)[i] = RankIn(kind, p, i)
  BY SingleIs
<1>3. \A s \in T : \E p \in S : s = Single(p)
  OBVIOUS
<1>4. SketchOf(S) = MergeAll(T)
  BY DEF SketchOf
<1> HIDE DEF T
<1>5. T \subseteq [SlotsFor(kind) -> Nat]
  BY <1>2, <1>3
<1>6. /\ SketchOf(S) \in [SlotsFor(kind) -> Nat]
      /\ \A s \in T : \A i \in SlotsFor(kind) : s[i] <= SketchOf(S)[i]
      /\ \A i \in SlotsFor(kind) : SketchOf(S)[i] = 0 \/ \E s \in T : SketchOf(S)[i] = s[i]
  BY <1>1, <1>4, <1>5, MergeIs
<1> QED BY <1>2, <1>3, <1>6

\* sketch.go:66-75: the sketch a package has at the end of an epoch is of that
\* epoch, whatever was run before.
LEMMA StableIsOfTheEpoch ==
    ASSUME EngineInv
    PROVE  SketchIsOfTheEpoch
<1> SUFFICES ASSUME stage = "stable", NEW p \in DOMAIN cur, NEW i \in Slots
             PROVE  LET all  == SketchOf(Dependents(edges, p))
                        near == SketchOf({p} \cup {e[1] : e \in {x \in edges : x[2] = p}})
                    IN  /\ near[i] <= cur[p][i] /\ cur[p][i] <= all[i]
                        /\ kind = "exact" => cur[p][i] = all[i]
  BY DEF SketchIsOfTheEpoch
<1> DEFINE D == Dependents(edges, p)
           C == {p} \cup {e[1] : e \in {x \in edges : x[2] = p}}
<1>1. /\ kind \in Kinds /\ edges \in SUBSET (Packages \X Packages)
      /\ CurOk(kind, edges, cur) /\ Settled(kind, edges, cur)
      /\ Slots = SlotsFor(kind)
  BY DEF EngineInv, Slots, SlotsFor
<1>2. /\ DOMAIN cur \subseteq Packages /\ cur \in [DOMAIN cur -> [SlotsFor(kind) -> Nat]]
      /\ \A e \in edges : e[1] \in DOMAIN cur /\ e[2] \in DOMAIN cur
      /\ \A q \in DOMAIN cur : \A j \in SlotsFor(kind) :
            /\ RankIn(kind, q, j) <= cur[q][j]
            /\ cur[q][j] = 0 \/ \E d \in Dependents(edges, q) : cur[q][j] = RankIn(kind, d, j)
  BY <1>1 DEF CurOk
<1>3. D \subseteq Packages /\ C \subseteq Packages
  <2>1. p \in Packages
    BY <1>2
  <2>2. D \subseteq Packages
    BY <1>1, <2>1, DependentsAre
  <2>3. C \subseteq Packages
    BY <1>1, <2>1
  <2> QED BY <2>2, <2>3
<1>4. \A q \in Packages : RankIn(kind, q, i) \in Nat
  BY <1>1, SingleIs
<1>5. cur[p][i] \in Nat /\ i \in SlotsFor(kind)
  BY <1>1, <1>2
<1>6. SketchOf(C)[i] <= cur[p][i]
  <2>1. SketchOf(C)[i] = 0 \/ \E q \in C : SketchOf(C)[i] = RankIn(kind, q, i)
    BY <1>1, <1>3, <1>5, SketchOfIs
  <2>2. \A q \in C : RankIn(kind, q, i) <= cur[p][i]
    BY <1>1, <1>2, <1>5 DEF Settled
  <2> QED BY <1>5, <2>1, <2>2
<1> HIDE DEF C, D
<1>7. /\ SketchOf(D)[i] \in Nat
      /\ \A q \in D : RankIn(kind, q, i) <= SketchOf(D)[i]
      /\ SketchOf(D)[i] = 0 \/ \E q \in D : SketchOf(D)[i] = RankIn(kind, q, i)
  BY <1>1, <1>3, <1>5, SketchOfIs
<1>8. cur[p][i] <= SketchOf(D)[i]
  <2>1. cur[p][i] = 0 \/ \E d \in D : cur[p][i] = RankIn(kind, d, i)
    BY <1>2, <1>5 DEF D
  <2> QED BY <1>5, <1>7, <2>1
<1>9. ASSUME kind = "exact" PROVE SketchOf(D)[i] <= cur[p][i]
  <2> DEFINE X == {q \in DOMAIN cur : \A j \in SlotsFor(kind) : cur[q][j] <= cur[p][j]}
  <2>1. p \in X
    BY <1>2
  <2>2. ASSUME NEW e \in edges, e[2] \in X PROVE e[1] \in X
    <3>1. e[1] \in DOMAIN cur
      BY <1>2
    <3>2. ASSUME NEW j \in SlotsFor(kind) PROVE cur[e[1]][j] <= cur[p][j]
      <4>1. cur[e[1]][j] <= cur[e[2]][j] /\ cur[e[2]][j] <= cur[p][j]
        BY <1>1, <1>9, <2>2 DEF Settled
      <4>2. cur[e[1]][j] \in Nat /\ cur[e[2]][j] \in Nat /\ cur[p][j] \in Nat
        BY <1>2
      <4> QED BY <4>1, <4>2
    <3> QED BY <3>1, <3>2
  <2>3. D \subseteq X
    <3>1. p \in Packages
      BY <1>2
    <3> HIDE DEF X
    <3> QED BY <1>1, <2>1, <2>2, <3>1, DependentsAre DEF D
  <2>4. \A q \in D : RankIn(kind, q, i) <= cur[p][i]
    <3>1. \A q \in X : RankIn(kind, q, i) <= cur[q][i] /\ cur[q][i] <= cur[p][i]
                       /\ RankIn(kind, q, i) \in Nat /\ cur[q][i] \in Nat
      BY <1>2, <1>4, <1>5
    <3> QED BY <1>5, <2>3, <3>1
  <2> QED BY <1>5, <1>7, <2>4
<1> QED BY <1>5, <1>6, <1>7, <1>8, <1>9 DEF C, D

\* Whatever epochs were run before, whoever the workers are and however the
\* edges are split among them, the sketch of a package at the end of an epoch
\* holds itself and its direct dependents, and nothing that does not depend on
\* it at this epoch; an exact set holds all that does (sketch.go, RunEpoch).
THEOREM SketchesAreOfTheEpoch ==
    Spec => []SketchIsOfTheEpoch
BY EngineInvHolds, StableIsOfTheEpoch, PTL

-----------------------------------------------------------------------------
(* A finished epoch.                                                       *)

\* Who holds p at t, of the graph g.
HeldIn(g, p, t) ==
    {h \in Handles : \E m \in g.holdings :
        m.handle = h /\ m.pkg = p /\ m.from <= t /\ m.to > t}

Sketches(k, D) == UNION {[N -> [SlotsFor(k) -> Nat]] : N \in SUBSET D}

EpochRuns(k) ==
    [epoch : Nat, packages : Sketches(k, Packages), maintainers : Sketches(k, Handles),
     orphaned : SUBSET Packages]

\* An epoch r finished at t, over the names and the graph g.
RunOk(g, names, t, r) ==
    /\ r.epoch = t
    /\ names \subseteq DOMAIN r.packages
    /\ \A p \in DOMAIN r.packages : \A h \in DOMAIN r.maintainers :
          h \in HeldIn(g, p, t) =>
              \A i \in DOMAIN r.packages[p] : r.packages[p][i] <= r.maintainers[h][i]
    /\ r.orphaned = {p \in DOMAIN r.packages : HeldIn(g, p, t) = {}}

\* Aggregate: a maintainer has what each of the packages has.
LEMMA MaintainersAre ==
    ASSUME NEW c \in Sketches(kind, Packages), NEW t
    PROVE  /\ Maintainers(c, t) \in Sketches(kind, Handles)
           /\ \A p \in DOMAIN c : \A h \in DOMAIN Maintainers(c, t) :
                 h \in HoldersAt(p, t) =>
                     \A i \in SlotsFor(kind) : c[p][i] <= Maintainers(c, t)[h][i]
<1> DEFINE H == UNION {HoldersAt(p, t) : p \in DOMAIN c}
           N(h) == {x \in DOMAIN c : h \in HoldersAt(x, t)}
           Of(h) == {c[p] : p \in N(h)}
           m == Maintainers(c, t)
<1>1. DOMAIN c \subseteq Packages /\ c \in [DOMAIN c -> [SlotsFor(kind) -> Nat]]
  BY DEF Sketches
<1>2. DOMAIN m = H /\ m = [h \in H |-> m[h]] /\ \A h \in H : m[h] = MergeAll(Of(h))
  BY DEF Maintainers
<1>3. H \subseteq Handles
  BY DEF HoldersAt
<1> HIDE DEF m, H
<1>4. ASSUME NEW h \in H
      PROVE  /\ m[h] \in [SlotsFor(kind) -> Nat]
             /\ \A p \in DOMAIN c : h \in HoldersAt(p, t) =>
                    \A i \in SlotsFor(kind) : c[p][i] <= m[h][i]
  <2> DEFINE T == N(h)
             U == {c[p] : p \in T}
             f == [p \in T |-> c[p]]
  <2>1. IsFiniteSet(T)
    BY <1>1, SketchAssumption, FS_Subset
  <2>2. f \in Surjection(T, U)
    BY DEF Surjection
  <2>3. \A p \in DOMAIN c : h \in HoldersAt(p, t) => c[p] \in U
    OBVIOUS
  <2>4. U \subseteq [SlotsFor(kind) -> Nat]
    BY <1>1
  <2>5. m[h] = MergeAll(U)
    BY <1>2
  <2> HIDE DEF T, U, f
  <2>6. IsFiniteSet(U)
    BY <2>1, <2>2, FS_Surjection
  <2>7. /\ m[h] \in [SlotsFor(kind) -> Nat]
        /\ \A s \in U : \A i \in SlotsFor(kind) : s[i] <= m[h][i]
    BY <2>4, <2>5, <2>6, MergeIs
  <2> QED BY <2>3, <2>7
<1>5. m \in [H -> [SlotsFor(kind) -> Nat]]
  BY <1>2, <1>4
<1>6. m \in Sketches(kind, Handles)
  BY <1>3, <1>5 DEF Sketches
<1> QED BY <1>2, <1>4, <1>6 DEF m

\* What EndEpoch appends.
LEMMA EpochRunIsOk ==
    ASSUME EngineInv, stage = "stable", NEW names \in SUBSET (DOMAIN cur), NEW t \in Nat
    PROVE  EpochRun(cur, t) \in EpochRuns(kind) /\ RunOk(graph, names, t, EpochRun(cur, t))
<1> DEFINE r == EpochRun(cur, t)
           m == Maintainers(cur, t)
<1>1. DOMAIN cur \subseteq Packages /\ cur \in [DOMAIN cur -> [SlotsFor(kind) -> Nat]]
  BY DEF EngineInv, CurOk
<1>2. cur \in Sketches(kind, Packages)
  BY <1>1 DEF Sketches
<1>3. /\ m \in Sketches(kind, Handles)
      /\ \A p \in DOMAIN cur : \A h \in DOMAIN m :
            h \in HoldersAt(p, t) => \A i \in SlotsFor(kind) : cur[p][i] <= m[h][i]
  BY <1>2, MaintainersAre
<1>4. \A p : HoldersAt(p, t) = HeldIn(graph, p, t)
  BY DEF HoldersAt, HeldIn
<1>5. /\ r = [epoch |-> t, packages |-> cur, maintainers |-> m, orphaned |-> r.orphaned]
      /\ r.epoch = t /\ r.packages = cur /\ r.maintainers = m
      /\ r.orphaned = {p \in DOMAIN cur : HeldIn(graph, p, t) = {}}
  BY <1>4 DEF EpochRun
<1> HIDE DEF r, m
<1>6. r.orphaned \in SUBSET Packages
  BY <1>1, <1>5
<1>7. r \in EpochRuns(kind)
  BY <1>2, <1>3, <1>5, <1>6 DEF EpochRuns
<1>8. \A p \in DOMAIN cur : DOMAIN cur[p] = SlotsFor(kind)
  BY <1>1
<1>9. RunOk(graph, names, t, r)
  BY <1>3, <1>4, <1>5, <1>8 DEF RunOk
<1> QED BY <1>7, <1>9 DEF r

-----------------------------------------------------------------------------
(* The rows that a run writes.                                             *)

AllRows == UNION {Writes(runs)[k] : k \in DOMAIN Writes(runs)}

KriRow(n, t, s) ==
    [to |-> "kri", node |-> n, epoch |-> t, kri |-> Count(s), orphaned |-> FALSE]

HistoryRow(n, t, s, o) ==
    [to |-> "history", node |-> n, epoch |-> t, kri |-> Count(s), orphaned |-> o]

\* Every node of the last epoch has a row for its kri, and every node of every
\* epoch one for its history; there are no other rows.
RowsAreThese ==
    \A row : row \in AllRows <=>
        \/ \E n \in DOMAIN Last(runs).packages :
              row = KriRow(n, Last(runs).epoch, Last(runs).packages[n])
        \/ \E n \in DOMAIN Last(runs).maintainers :
              row = KriRow(n, Last(runs).epoch, Last(runs).maintainers[n])
        \/ \E k \in 1 .. Len(runs) : \E n \in DOMAIN runs[k].packages :
              row = HistoryRow(n, runs[k].epoch, runs[k].packages[n],
                               n \in runs[k].orphaned)
        \/ \E k \in 1 .. Len(runs) : \E n \in DOMAIN runs[k].maintainers :
              row = HistoryRow(n, runs[k].epoch, runs[k].maintainers[n], n \in {})

\* The calls write these rows.
LEMMA RowsAre ==
    Len(runs) \in Nat \ {0} => RowsAreThese /\ Writes(runs) \in Seq(SUBSET AllRows)
<1> SUFFICES ASSUME Len(runs) \in Nat \ {0}
             PROVE  RowsAreThese /\ Writes(runs) \in Seq(SUBSET AllRows)
  OBVIOUS
<1> DEFINE len == Len(runs)
           A == BackRows(Last(runs).packages, Last(runs).epoch)
           B == BackRows(Last(runs).maintainers, Last(runs).epoch)
           P(k) == HistoryRows(runs[k].packages, runs[k].orphaned, runs[k].epoch)
           M(k) == HistoryRows(runs[k].maintainers, {}, runs[k].epoch)
           Call(k) == IF k % 2 = 1 THEN P((k + 1) \div 2) ELSE M((k + 1) \div 2)
           calls == [k \in 1 .. 2 * len |-> Call(k)]
           head == <<A, B>>
           w == Writes(runs)
<1>1. w = head \o calls
  BY DEF Writes
<1>2. \A row : /\ row \in A <=> \E n \in DOMAIN Last(runs).packages :
                     row = KriRow(n, Last(runs).epoch, Last(runs).packages[n])
               /\ row \in B <=> \E n \in DOMAIN Last(runs).maintainers :
                     row = KriRow(n, Last(runs).epoch, Last(runs).maintainers[n])
  BY DEF BackRows, KriRow
<1>3. \A k, row : row \in P(k) <=> \E n \in DOMAIN runs[k].packages :
          row = HistoryRow(n, runs[k].epoch, runs[k].packages[n], n \in runs[k].orphaned)
  BY DEF HistoryRows, HistoryRow
<1>4. \A k, row : row \in M(k) <=> \E n \in DOMAIN runs[k].maintainers :
          row = HistoryRow(n, runs[k].epoch, runs[k].maintainers[n], n \in {})
  BY DEF HistoryRows, HistoryRow
<1>5. len \in Nat \ {0}
  OBVIOUS
<1>6. head \in Seq({A, B}) /\ Len(head) = 2 /\ head[1] = A /\ head[2] = B
  OBVIOUS
<1>7. Len(calls) = 2 * len /\ \A k \in 1 .. 2 * len : calls[k] = Call(k)
  BY <1>5
<1>8. calls \in Seq({Call(k) : k \in 1 .. 2 * len})
  BY <1>5
<1> HIDE DEF w, A, B, P, M, calls, head, len
<1>9. /\ DOMAIN w = 1 .. 2 * len + 2 /\ w[1] = A /\ w[2] = B
      /\ \A k \in 1 .. 2 * len : w[k + 2] = Call(k)
      /\ \E S : w \in Seq(S)
  <2>1. \E S : head \in Seq(S) /\ calls \in Seq(S)
    <3>1. head \in Seq({A, B} \cup {Call(k) : k \in 1 .. 2 * len})
      BY <1>6
    <3>2. calls \in Seq({A, B} \cup {Call(k) : k \in 1 .. 2 * len})
      BY <1>8
    <3> QED BY <3>1, <3>2
  <2> HIDE DEF Call
  <2>2. PICK S : head \in Seq(S) /\ calls \in Seq(S)
    BY <2>1
  <2>3. w \in Seq(S) /\ Len(w) = 2 + 2 * len
        /\ \A k \in 1 .. 2 + 2 * len : w[k] = IF k <= 2 THEN head[k] ELSE calls[k - 2]
    <3>1. /\ head \o calls \in Seq(S) /\ Len(head \o calls) = Len(head) + Len(calls)
          /\ \A k \in 1 .. Len(head) + Len(calls) :
                (head \o calls)[k] = IF k <= Len(head) THEN head[k] ELSE calls[k - Len(head)]
      BY <2>2, ConcatProperties, Zenon
    <3>2. Len(head) = 2 /\ Len(calls) = 2 * len
      BY <1>6, <1>7
    <3> QED BY <1>1, <3>1, <3>2, Zenon
  <2>4. DOMAIN w = 1 .. 2 * len + 2
    BY <1>5, <2>3
  <2>5. \A k \in 1 .. 2 * len : k + 2 \in 1 .. 2 + 2 * len /\ ~ (k + 2 <= 2) /\ (k + 2) - 2 = k
    BY <1>5
  <2>6. 1 \in 1 .. 2 + 2 * len /\ 2 \in 1 .. 2 + 2 * len
    BY <1>5
  <2>7. w[1] = A /\ w[2] = B
    BY <1>6, <2>3, <2>6
  <2>8. \A k \in 1 .. 2 * len : w[k + 2] = Call(k)
    BY <1>7, <2>3, <2>5
  <2> QED BY <2>3, <2>4, <2>7, <2>8
<1>10. ASSUME NEW row
       PROVE  row \in AllRows <=> \/ row \in A \/ row \in B
                                  \/ \E k \in 1 .. len : row \in P(k)
                                  \/ \E k \in 1 .. len : row \in M(k)
  <2>1. row \in AllRows <=> \E k \in 1 .. 2 * len + 2 : row \in w[k]
    BY <1>9 DEF AllRows, w
  <2>2. ASSUME NEW k \in 1 .. 2 * len + 2, row \in w[k]
        PROVE  \/ row \in A \/ row \in B
               \/ \E j \in 1 .. len : row \in P(j)
               \/ \E j \in 1 .. len : row \in M(j)
    <3>1. k = 1 \/ k = 2 \/ (k - 2 \in 1 .. 2 * len /\ (k - 2) + 2 = k)
      BY <1>5
    <3>2. CASE k - 2 \in 1 .. 2 * len /\ (k - 2) + 2 = k
      <4>1. row \in Call(k - 2)
        BY <1>9, <2>2, <3>2
      <4>2. ((k - 2) + 1) \div 2 \in 1 .. len
        BY <1>5, <3>2
      <4> QED BY <4>1, <4>2
    <3> QED BY <1>9, <2>2, <3>1, <3>2
  <2>3. ASSUME row \in A \/ row \in B PROVE \E k \in 1 .. 2 * len + 2 : row \in w[k]
    <3>1. 1 \in 1 .. 2 * len + 2 /\ 2 \in 1 .. 2 * len + 2
      BY <1>5
    <3> QED BY <1>9, <2>3, <3>1
  <2>4. ASSUME NEW j \in 1 .. len
        PROVE  row \in P(j) \/ row \in M(j) => \E k \in 1 .. 2 * len + 2 : row \in w[k]
    <3>1. /\ 2 * j - 1 \in 1 .. 2 * len /\ (2 * j - 1) % 2 = 1 /\ ((2 * j - 1) + 1) \div 2 = j
          /\ 2 * j \in 1 .. 2 * len /\ (2 * j) % 2 # 1 /\ (2 * j + 1) \div 2 = j
          /\ (2 * j - 1) + 2 \in 1 .. 2 * len + 2 /\ 2 * j + 2 \in 1 .. 2 * len + 2
      BY <1>5
    <3>2. w[(2 * j - 1) + 2] = P(j) /\ w[2 * j + 2] = M(j)
      BY <1>9, <3>1
    <3> QED BY <3>1, <3>2
  <2> QED BY <2>1, <2>2, <2>3, <2>4
<1> HIDE DEF Call
<1>11. ASSUME NEW row
       PROVE  row \in AllRows <=>
        \/ \E n \in DOMAIN Last(runs).packages :
              row = KriRow(n, Last(runs).epoch, Last(runs).packages[n])
        \/ \E n \in DOMAIN Last(runs).maintainers :
              row = KriRow(n, Last(runs).epoch, Last(runs).maintainers[n])
        \/ \E k \in 1 .. len : \E n \in DOMAIN runs[k].packages :
              row = HistoryRow(n, runs[k].epoch, runs[k].packages[n],
                               n \in runs[k].orphaned)
        \/ \E k \in 1 .. len : \E n \in DOMAIN runs[k].maintainers :
              row = HistoryRow(n, runs[k].epoch, runs[k].maintainers[n], n \in {})
  BY <1>2, <1>3, <1>4, <1>10
<1>12. w \in Seq(SUBSET AllRows)
  <2>1. \A k \in 1 .. 2 * len + 2 : w[k] \in SUBSET AllRows
    BY <1>9 DEF AllRows, w
  <2>2. 2 * len + 2 \in Nat /\ w = [k \in 1 .. 2 * len + 2 |-> w[k]]
    BY <1>5, <1>9
  <2> QED BY <2>1, <2>2
<1> QED BY <1>11, <1>12 DEF RowsAreThese, len, w

\* The state of the runs.
RunsInv ==
    /\ runs \in Seq(EpochRuns(kind))
    /\ Len(runs) <= Len(run.epochs)
    /\ \A k \in 1 .. Len(runs) : RunOk(graph, run.names, run.epochs[k], runs[k])

\* The runs of a request that are finished, and its last epoch.
LEMMA RunsAre ==
    ASSUME CommandOK, RunsInv, Len(runs) \in Nat \ {0}
    PROVE  /\ \A k \in 1 .. Len(runs) :
                 /\ runs[k] \in EpochRuns(kind) /\ runs[k].epoch = run.epochs[k]
                 /\ runs[k].epoch \in Nat /\ runs[k].epoch <= Last(run.epochs)
                 /\ DOMAIN runs[k].packages \subseteq Packages
                 /\ DOMAIN runs[k].maintainers \subseteq Handles
           /\ \A j, k \in 1 .. Len(runs) : runs[j].epoch = runs[k].epoch => j = k
           /\ Len(runs) \in 1 .. Len(runs) /\ Last(runs) = runs[Len(runs)]
<1>1. /\ run.epochs \in Seq(Nat)
      /\ \A j, k \in DOMAIN run.epochs : j < k => run.epochs[j] < run.epochs[k]
  BY ObservatoryAssumption DEF CommandOK
<1>2. Len(run.epochs) \in Nat /\ DOMAIN run.epochs = 1 .. Len(run.epochs)
      /\ \A k \in 1 .. Len(run.epochs) : run.epochs[k] \in Nat
  BY <1>1
<1>3. \A k \in 1 .. Len(runs) : runs[k] \in EpochRuns(kind) /\ runs[k].epoch = run.epochs[k]
                                /\ k \in 1 .. Len(run.epochs)
  <2>1. \A k \in 1 .. Len(runs) : runs[k].epoch = run.epochs[k]
    BY DEF RunsInv, RunOk
  <2>2. runs \in Seq(EpochRuns(kind)) /\ Len(runs) <= Len(run.epochs)
    BY DEF RunsInv
  <2> QED BY <1>2, <2>1, <2>2
<1>4. \A k \in 1 .. Len(run.epochs) : run.epochs[k] <= Last(run.epochs)
  <2> SUFFICES ASSUME NEW k \in 1 .. Len(run.epochs)
               PROVE  run.epochs[k] <= run.epochs[Len(run.epochs)]
    BY DEF Last
  <2>1. /\ Len(run.epochs) \in 1 .. Len(run.epochs)
        /\ k = Len(run.epochs) \/ k < Len(run.epochs)
    BY <1>2
  <2>2. /\ run.epochs[k] \in Nat /\ run.epochs[Len(run.epochs)] \in Nat
        /\ k \in DOMAIN run.epochs /\ Len(run.epochs) \in DOMAIN run.epochs
    BY <1>2, <2>1
  <2>3. k < Len(run.epochs) => run.epochs[k] < run.epochs[Len(run.epochs)]
    BY <1>1, <2>2
  <2> QED BY <2>1, <2>2, <2>3
<1>5. \A r \in EpochRuns(kind) :
          DOMAIN r.packages \subseteq Packages /\ DOMAIN r.maintainers \subseteq Handles
  <2>1. \A r \in EpochRuns(kind) : r.packages \in Sketches(kind, Packages)
                                   /\ r.maintainers \in Sketches(kind, Handles)
    BY DEF EpochRuns
  <2>2. \A D : \A f \in Sketches(kind, D) : DOMAIN f \subseteq D
    BY DEF Sketches
  <2> QED BY <2>1, <2>2
<1>6. \A j, k \in 1 .. Len(runs) : runs[j].epoch = runs[k].epoch => j = k
  <2> SUFFICES ASSUME NEW j \in 1 .. Len(runs), NEW k \in 1 .. Len(runs),
                      runs[j].epoch = runs[k].epoch
               PROVE  j = k
    OBVIOUS
  <2>1. j = k \/ j < k \/ k < j
    OBVIOUS
  <2>2. run.epochs[j] = run.epochs[k] /\ run.epochs[j] \in Nat
        /\ j \in DOMAIN run.epochs /\ k \in DOMAIN run.epochs
    BY <1>2, <1>3
  <2>3. (j < k => run.epochs[j] < run.epochs[k]) /\ (k < j => run.epochs[k] < run.epochs[j])
    BY <1>1, <2>2
  <2> QED BY <2>1, <2>2, <2>3
<1>7. \A k \in 1 .. Len(runs) : runs[k].epoch \in Nat /\ runs[k].epoch <= Last(run.epochs)
  BY <1>2, <1>3, <1>4
<1>8. Len(runs) \in 1 .. Len(runs) /\ Last(runs) = runs[Len(runs)]
  BY DEF Last
<1> QED BY <1>3, <1>5, <1>6, <1>7, <1>8

\* No two rows write the same: one of them would undo the other.
LEMMA KeysDiffer ==
    ASSUME CommandOK, RunsInv, Len(runs) \in Nat \ {0},
           NEW r \in AllRows, NEW q \in AllRows, r.to = q.to, r.node = q.node,
           r.to = "kri" \/ r.epoch = q.epoch
    PROVE  r = q
<1>1. RowsAreThese
  BY RowsAre
<1>2. /\ \A k \in 1 .. Len(runs) : DOMAIN runs[k].packages \subseteq Packages
                                   /\ DOMAIN runs[k].maintainers \subseteq Handles
      /\ \A j, k \in 1 .. Len(runs) : runs[j].epoch = runs[k].epoch => j = k
      /\ Len(runs) \in 1 .. Len(runs) /\ Last(runs) = runs[Len(runs)]
  BY RunsAre
<1> DEFINE P == DOMAIN Last(runs).packages
           M == DOMAIN Last(runs).maintainers
           KP(x) == \E n \in P : x = KriRow(n, Last(runs).epoch, Last(runs).packages[n])
           KM(x) == \E n \in M : x = KriRow(n, Last(runs).epoch, Last(runs).maintainers[n])
           HP(x) == \E k \in 1 .. Len(runs) : \E n \in DOMAIN runs[k].packages :
                        x = HistoryRow(n, runs[k].epoch, runs[k].packages[n],
                                       n \in runs[k].orphaned)
           HM(x) == \E k \in 1 .. Len(runs) : \E n \in DOMAIN runs[k].maintainers :
                        x = HistoryRow(n, runs[k].epoch, runs[k].maintainers[n], n \in {})
<1>3. \A x \in AllRows : KP(x) \/ KM(x) \/ HP(x) \/ HM(x)
  BY <1>1 DEF RowsAreThese
<1>4. /\ \A n, t, s : KriRow(n, t, s).to = "kri" /\ KriRow(n, t, s).node = n
      /\ \A n, t, s, o : /\ HistoryRow(n, t, s, o).to = "history"
                         /\ HistoryRow(n, t, s, o).node = n
                         /\ HistoryRow(n, t, s, o).epoch = t
  BY DEF KriRow, HistoryRow
<1>5. "kri" # "history" /\ Handles \cap Packages = {}
  BY ObservatoryAssumption
<1>6. CASE KP(r)
  <2>1. KP(q)
    BY <1>2, <1>3, <1>4, <1>5, <1>6
  <2> QED BY <1>4, <1>6, <2>1
<1>7. CASE KM(r)
  <2>1. KM(q)
    BY <1>2, <1>3, <1>4, <1>5, <1>7
  <2> QED BY <1>4, <1>7, <2>1
<1>8. CASE HP(r)
  <2>1. HP(q)
    BY <1>2, <1>3, <1>4, <1>5, <1>8
  <2>2. PICK k \in 1 .. Len(runs) : \E n \in DOMAIN runs[k].packages :
            r = HistoryRow(n, runs[k].epoch, runs[k].packages[n], n \in runs[k].orphaned)
    BY <1>8
  <2>3. PICK j \in 1 .. Len(runs) : \E n \in DOMAIN runs[j].packages :
            q = HistoryRow(n, runs[j].epoch, runs[j].packages[n], n \in runs[j].orphaned)
    BY <2>1
  <2>4. j = k
    BY <1>2, <1>4, <1>5, <2>2, <2>3
  <2> QED BY <1>4, <2>2, <2>3, <2>4
<1>9. CASE HM(r)
  <2>1. HM(q)
    BY <1>2, <1>3, <1>4, <1>5, <1>9
  <2>2. PICK k \in 1 .. Len(runs) : \E n \in DOMAIN runs[k].maintainers :
            r = HistoryRow(n, runs[k].epoch, runs[k].maintainers[n], n \in {})
    BY <1>9
  <2>3. PICK j \in 1 .. Len(runs) : \E n \in DOMAIN runs[j].maintainers :
            q = HistoryRow(n, runs[j].epoch, runs[j].maintainers[n], n \in {})
    BY <2>1
  <2>4. j = k
    BY <1>2, <1>4, <1>5, <2>2, <2>3
  <2> QED BY <1>4, <2>2, <2>3, <2>4
<1> QED BY <1>3, <1>6, <1>7, <1>8, <1>9

-----------------------------------------------------------------------------
(* The invariant of the command.                                           *)

\* A row of the graph's history says what was written.
InEffect(row) ==
    /\ row.to = "kri" =>
          row.node \in DOMAIN kri /\ kri[row.node] = [kri |-> row.kri, at |-> row.epoch]
    /\ row.to = "history" =>
          /\ <<row.node, row.epoch>> \in DOMAIN kriAt
          /\ kriAt[<<row.node, row.epoch>>] = [kri |-> row.kri, orphaned |-> row.orphaned]

\* What a run has computed is in the graph, but for the rows yet to be written.
WriteInv ==
    /\ Len(runs) = Len(run.epochs)
    /\ todo \in Seq(SUBSET AllRows)
    /\ \A row \in AllRows : (\E k \in DOMAIN todo : row \in todo[k]) \/ InEffect(row)

ResolveRows == [to : {"resolves"}, edge : Packages \X Packages, epoch : Nat]

\* A run has written its whole result, unless it is still writing it; and no
\* epoch of the graph is after the last one of the run.
CommandInv ==
    /\ stage # "idle" => run.names \subseteq DOMAIN cur
    /\ RunsInv
    /\ pc \in {"ended", "failed", "epochs"} => todo = << >>
    /\ pc \in {"failed", "snapshots"} => runs = << >>
    /\ pc = "snapshots" => todo \in Seq(SUBSET ResolveRows)
    /\ pc = "epochs" => Len(runs) < Len(run.epochs)
    /\ pc = "writing" => runs # << >>
    /\ pc \in {"writing", "ended"} /\ runs # << >> => WriteInv
    /\ \A x \in DOMAIN kriAt : x[2] \in Nat /\ x[2] <= Last(run.epochs)
    /\ started \in Nat
    /\ started = 0 => kriAt = << >> /\ pc = "ended"

\* The rows are those of the runs, whatever else changes.
LEMMA WritesLater ==
    ASSUME kind' = kind
    PROVE  Writes(runs)' = Writes(runs')
BY DEF Writes, Last, BackRows, HistoryRows, Count, Estimate, Zeros, Slots

LEMMA RowsStay ==
    ASSUME kind' = kind, runs' = runs
    PROVE  AllRows' = AllRows
<1>1. Writes(runs)' = Writes(runs)
  BY WritesLater
<1> QED BY <1>1 DEF AllRows

LEMMA RunIs ==
    ASSUME CommandOK
    PROVE  /\ run.epochs \in Seq(Nat) /\ Len(run.epochs) \in Nat \ {0}
           /\ \A k \in 1 .. Len(run.epochs) : run.epochs[k] \in Nat
           /\ Last(run.epochs) = run.epochs[Len(run.epochs)]
           /\ run.names \subseteq Packages /\ run.names # {}
<1>1. run.epochs \in Seq(Nat) /\ run.epochs # << >>
      /\ run.names \subseteq Packages /\ run.names # {}
  BY ObservatoryAssumption DEF CommandOK
<1>2. Len(run.epochs) \in Nat \ {0} /\ \A k \in 1 .. Len(run.epochs) : run.epochs[k] \in Nat
  BY <1>1
<1> QED BY <1>1, <1>2 DEF Last

\* A run is asked for: it writes no row of the runs before it any more.
LEMMA StartKeeps ==
    ASSUME CommandOK, CommandInv, NEW r \in RunsOf, Start(r)
    PROVE  CommandInv'
<1>1. /\ pc' = "snapshots" /\ runs' = << >> /\ run' = r /\ started' = started + 1
      /\ pc \in {"ended", "failed"}
      /\ UNCHANGED <<edges, chunks, cur, partials, stage, kind, graph, kriAt>>
      /\ started > 0 => Last(r.epochs) >= Last(run.epochs)
  BY DEF Start, engineVars, storeVars
<1>2. stage' = "idle"
  BY <1>1 DEF CommandOK
<1>3. r.epochs \in Seq(Nat) /\ Len(r.epochs) \in Nat \ {0} /\ r.names \subseteq Packages
  BY ObservatoryAssumption
<1>4. todo' \in Seq(SUBSET ResolveRows)
  <2> DEFINE Of(t) == {[to |-> "resolves", edge |-> e, epoch |-> t] : e \in Snapshot(r.names, t)}
             U == UNION {Of(t) : t \in SeqRange(r.epochs)}
  <2>1. \A t : Snapshot(r.names, t) \in SUBSET (Packages \X Packages)
    BY <1>3, SnapshotIsEdges DEF CommandOK
  <2>2. SeqRange(r.epochs) \subseteq Nat
    BY <1>3 DEF SeqRange
  <2>3. \A t \in Nat : Of(t) \subseteq ResolveRows
    BY <2>1 DEF ResolveRows
  <2>4. U \subseteq ResolveRows
    BY <2>2, <2>3
  <2>5. todo' = <<U>>
    BY DEF Start
  <2> HIDE DEF U
  <2> QED BY <2>4, <2>5
<1>5. RunsInv'
  BY <1>1, <1>3 DEF RunsInv
<1>6. \A x \in DOMAIN kriAt' : x[2] \in Nat /\ x[2] <= Last(r.epochs)
  <2>1. CASE started = 0
    BY <1>1, <2>1 DEF CommandInv
  <2>2. CASE started # 0
    <3>1. Last(r.epochs) >= Last(run.epochs)
      BY <1>1, <2>2 DEF CommandInv
    <3>2. Last(r.epochs) \in Nat /\ Last(run.epochs) \in Nat
      BY <1>3, RunIs DEF Last
    <3> QED BY <1>1, <3>1, <3>2 DEF CommandInv
  <2> QED BY <2>1, <2>2
<1>7. started' \in Nat /\ started' # 0
  BY <1>1 DEF CommandInv
<1> QED BY <1>1, <1>2, <1>4, <1>5, <1>6, <1>7 DEF CommandInv

\* An epoch ends.
LEMMA EndEpochKeeps ==
    ASSUME CommandOK, EngineInv, CommandInv, EndEpoch
    PROVE  CommandInv'
<1> DEFINE done == Append(runs, EpochRun(cur, Epoch))
           n == Len(runs)
<1>1. /\ pc = "epochs" /\ stage = "stable" /\ stage' = "idle" /\ runs' = done
      /\ UNCHANGED <<edges, chunks, cur, partials, kind, graph, run, started, kriAt, kri>>
      /\ IF Len(done) < Len(run.epochs) THEN pc' = pc /\ todo' = todo
         ELSE pc' = "writing" /\ todo' = Writes(done)
  BY DEF EndEpoch, storeVars
<1>2. /\ runs \in Seq(EpochRuns(kind)) /\ n \in Nat /\ n < Len(run.epochs)
      /\ n + 1 \in 1 .. Len(run.epochs) /\ Len(run.epochs) \in Nat
  <2>1. n < Len(run.epochs) /\ runs \in Seq(EpochRuns(kind))
    BY <1>1 DEF CommandInv, RunsInv
  <2> QED BY <2>1, RunIs
<1>3. Epoch = run.epochs[n + 1] /\ Epoch \in Nat
  BY <1>2, RunIs DEF Epoch
<1>4. /\ EpochRun(cur, Epoch) \in EpochRuns(kind)
      /\ RunOk(graph, run.names, Epoch, EpochRun(cur, Epoch))
  <2>1. run.names \in SUBSET (DOMAIN cur)
    BY <1>1 DEF CommandInv
  <2> QED BY <1>1, <1>3, <2>1, EpochRunIsOk
<1>5. /\ done \in Seq(EpochRuns(kind)) /\ Len(done) = n + 1
      /\ done[n + 1] = EpochRun(cur, Epoch) /\ \A k \in 1 .. n : done[k] = runs[k]
  BY <1>2, <1>4
<1> HIDE DEF done
<1>6. \A k \in 1 .. n + 1 : RunOk(graph, run.names, run.epochs[k], done[k])
  <2>1. \A k \in 1 .. n : RunOk(graph, run.names, run.epochs[k], runs[k])
    BY DEF CommandInv, RunsInv
  <2>2. \A k \in 1 .. n + 1 : k \in 1 .. n \/ k = n + 1
    BY <1>2
  <2> QED BY <1>3, <1>4, <1>5, <2>1, <2>2
<1>7. RunsInv'
  BY <1>1, <1>2, <1>5, <1>6 DEF RunsInv
<1>8. ASSUME ~ (Len(done) < Len(run.epochs)) PROVE WriteInv'
  <2>1. Len(runs') \in Nat \ {0} /\ Len(runs') = Len(run.epochs)
    BY <1>1, <1>2, <1>5, <1>8
  <2>2. (RowsAreThese /\ Writes(runs) \in Seq(SUBSET AllRows))'
    <3>1. (Len(runs) \in Nat \ {0})'
      BY <2>1
    <3> QED BY <3>1, RowsAre, PTL
  <2>3. Writes(runs)' = Writes(done)
    BY <1>1, WritesLater
  <2>4. todo' = Writes(runs)'
    BY <1>1, <1>8, <2>3
  <2>5. todo' \in Seq(SUBSET AllRows')
    BY <2>2, <2>4
  <2>6. \A row \in AllRows' : \E k \in DOMAIN todo' : row \in todo'[k]
    BY <2>4 DEF AllRows
  <2> QED BY <1>1, <2>1, <2>5, <2>6 DEF WriteInv
<1>9. runs' # << >>
  BY <1>1, <1>2, <1>5
<1> QED BY <1>1, <1>2, <1>5, <1>7, <1>8, <1>9 DEF CommandInv

\* A row is written: no other row of the run is undone by it.
LEMMA WriteRowKeeps ==
    ASSUME CommandOK, CommandInv, WriteRow
    PROVE  CommandInv'
<1>1. PICK row \in Head(todo) :
        /\ todo' = [todo EXCEPT ![1] = @ \ {row}]
        /\ IF row.to = "kri"
           THEN kri' = Put(kri, row.node, [kri |-> row.kri, at |-> row.epoch])
           ELSE kri' = kri
        /\ IF row.to = "history"
           THEN kriAt' = Put(kriAt, <<row.node, row.epoch>>, SetHistory(row))
           ELSE kriAt' = kriAt
  BY DEF WriteRow
<1>2. /\ todo # << >>
      /\ UNCHANGED <<edges, chunks, cur, partials, stage, kind, graph, run, started, pc, runs>>
  BY DEF WriteRow, engineVars
<1>3. pc \in {"snapshots", "writing"}
  BY <1>2 DEF CommandInv, CommandOK
<1>4. RunsInv'
  BY <1>2 DEF CommandInv, RunsInv
<1>5. CASE pc = "snapshots"
  <2>1. todo \in Seq(SUBSET ResolveRows)
    BY <1>5 DEF CommandInv
  <2>2. 1 \in DOMAIN todo /\ Head(todo) = todo[1] /\ todo[1] \in SUBSET ResolveRows
    BY <1>2, <2>1
  <2>3. row \in ResolveRows
    BY <2>2
  <2>4. kriAt' = kriAt
    BY <1>1, <2>3 DEF ResolveRows
  <2>5. todo' \in Seq(SUBSET ResolveRows)
    BY <1>1, <2>1, <2>2
  <2> QED BY <1>2, <1>4, <1>5, <2>4, <2>5 DEF CommandInv
<1>6. CASE pc = "writing"
  <2>1. WriteInv /\ RunsInv /\ runs # << >>
    BY <1>6 DEF CommandInv
  <2>2. todo \in Seq(SUBSET AllRows) /\ Len(runs) \in Nat \ {0}
    <3>1. runs \in Seq(EpochRuns(kind))
      BY <2>1 DEF RunsInv
    <3> QED BY <2>1, <3>1 DEF WriteInv
  <2>3. 1 \in DOMAIN todo /\ Head(todo) = todo[1] /\ todo[1] \in SUBSET AllRows
    BY <1>2, <2>2
  <2>4. row \in AllRows
    BY <2>3
  <2>5. AllRows' = AllRows
    BY <1>2, RowsStay
  <2>6. todo' \in Seq(SUBSET AllRows) /\ DOMAIN todo' = DOMAIN todo
        /\ todo'[1] = todo[1] \ {row} /\ \A k \in DOMAIN todo : k # 1 => todo'[k] = todo[k]
    BY <1>1, <2>2, <2>3
  <2>7. RowsAreThese
    BY <2>2, RowsAre
  <2>8. /\ row.to \in {"kri", "history"}
        /\ row.to = "history" => row.epoch \in Nat /\ row.epoch <= Last(run.epochs)
    <3>1. /\ \A n, t, s : KriRow(n, t, s).to = "kri"
          /\ \A n, t, s, o : HistoryRow(n, t, s, o).to = "history"
                             /\ HistoryRow(n, t, s, o).epoch = t
      BY DEF KriRow, HistoryRow
    <3>2. \A k \in 1 .. Len(runs) :
              runs[k].epoch \in Nat /\ runs[k].epoch <= Last(run.epochs)
      BY <2>1, <2>2, RunsAre
    <3> QED BY <2>4, <2>7, <3>1, <3>2 DEF RowsAreThese
  <2>9. InEffect(row)'
    BY <1>1, <2>8 DEF InEffect, Put, SetHistory
  <2>10. ASSUME NEW q \in AllRows, q # row, InEffect(q) PROVE InEffect(q)'
    <3>1. q.to = row.to /\ q.node = row.node => q.to # "kri" /\ q.epoch # row.epoch
      BY <2>1, <2>2, <2>4, <2>10, KeysDiffer
    <3>2. ASSUME q.to = "kri"
          PROVE  q.node \in DOMAIN kri' /\ kri'[q.node] = [kri |-> q.kri, at |-> q.epoch]
      BY <1>1, <2>10, <3>1, <3>2 DEF InEffect, Put
    <3>3. ASSUME q.to = "history"
          PROVE  /\ <<q.node, q.epoch>> \in DOMAIN kriAt'
                 /\ kriAt'[<<q.node, q.epoch>>] = [kri |-> q.kri, orphaned |-> q.orphaned]
      <4>1. CASE row.to = "history"
        <5>1. <<q.node, q.epoch>> # <<row.node, row.epoch>>
          BY <3>1, <3>3, <4>1
        <5> QED BY <1>1, <2>10, <3>3, <4>1, <5>1 DEF InEffect, Put
      <4>2. CASE row.to # "history"
        BY <1>1, <2>10, <3>3, <4>2 DEF InEffect
      <4> QED BY <4>1, <4>2
    <3> QED BY <3>2, <3>3 DEF InEffect
  <2>11. ASSUME NEW q \in AllRows
         PROVE  (\E k \in DOMAIN todo' : q \in todo'[k]) \/ InEffect(q)'
    <3>1. (\E k \in DOMAIN todo : q \in todo[k]) \/ InEffect(q)
      BY <2>1 DEF WriteInv
    <3>2. ASSUME q # row, NEW k \in DOMAIN todo, q \in todo[k]
          PROVE  q \in todo'[k] /\ k \in DOMAIN todo'
      BY <2>6, <3>2
    <3> QED BY <2>9, <2>10, <3>1, <3>2
  <2>12. WriteInv'
    BY <1>2, <2>1, <2>5, <2>6, <2>11 DEF WriteInv
  <2>13. \A x \in DOMAIN kriAt' : x[2] \in Nat /\ x[2] <= Last(run.epochs)
    <3>1. \A x \in DOMAIN kriAt : x[2] \in Nat /\ x[2] <= Last(run.epochs)
      BY DEF CommandInv
    <3>2. \A x \in DOMAIN kriAt' :
              x \in DOMAIN kriAt \/ (row.to = "history" /\ x = <<row.node, row.epoch>>)
      BY <1>1 DEF Put
    <3>3. \A x : x = <<row.node, row.epoch>> => x[2] = row.epoch
      OBVIOUS
    <3> QED BY <2>8, <3>1, <3>2, <3>3
  <2>14. started # 0
    BY <1>6 DEF CommandInv
  <2> QED BY <1>2, <1>4, <1>6, <2>1, <2>12, <2>13, <2>14 DEF CommandInv
<1> QED BY <1>3, <1>5, <1>6

\* A call returns.
LEMMA EndCallKeeps ==
    ASSUME CommandOK, CommandInv, EndCall
    PROVE  CommandInv'
<1>1. /\ todo # << >> /\ Head(todo) = {} /\ todo' = Tail(todo)
      /\ pc' = IF pc = "writing" /\ Tail(todo) = << >> THEN "ended" ELSE pc
      /\ UNCHANGED <<edges, chunks, cur, partials, stage, kind, graph, run, started, runs,
                     kri, kriAt>>
  BY DEF EndCall, engineVars, storeVars
<1>2. pc \in {"snapshots", "writing"}
  BY <1>1 DEF CommandInv, CommandOK
<1>3. RunsInv'
  BY <1>1 DEF CommandInv, RunsInv
<1>4. CASE pc = "snapshots"
  <2>1. todo \in Seq(SUBSET ResolveRows)
    BY <1>4 DEF CommandInv
  <2>2. todo' \in Seq(SUBSET ResolveRows) /\ pc' = "snapshots"
    BY <1>1, <1>4, <2>1
  <2> QED BY <1>1, <1>3, <1>4, <2>2 DEF CommandInv
<1>5. CASE pc = "writing"
  <2>1. WriteInv /\ runs # << >>
    BY <1>5 DEF CommandInv
  <2>2. todo \in Seq(SUBSET AllRows)
    BY <2>1 DEF WriteInv
  <2>3. todo' \in Seq(SUBSET AllRows) /\ todo[1] = {}
        /\ \A k \in DOMAIN todo : k # 1 => k - 1 \in DOMAIN todo' /\ todo'[k - 1] = todo[k]
    BY <1>1, <2>2
  <2>4. AllRows' = AllRows
    BY <1>1, RowsStay
  <2>5. ASSUME NEW q \in AllRows
        PROVE  (\E k \in DOMAIN todo' : q \in todo'[k]) \/ InEffect(q)'
    <3>1. CASE InEffect(q)
      BY <1>1, <3>1 DEF InEffect
    <3>2. ASSUME NEW k \in DOMAIN todo, q \in todo[k]
          PROVE  k - 1 \in DOMAIN todo' /\ q \in todo'[k - 1]
      BY <2>3, <3>2
    <3> QED BY <2>1, <3>1, <3>2 DEF WriteInv
  <2>6. WriteInv'
    BY <1>1, <2>1, <2>3, <2>4, <2>5 DEF WriteInv
  <2>7. pc' = "writing" \/ (pc' = "ended" /\ todo' = << >>)
    BY <1>1, <1>5
  <2>8. started # 0
    BY <1>5 DEF CommandInv
  <2> QED BY <1>1, <1>3, <2>1, <2>6, <2>7, <2>8, <1>5 DEF CommandInv
<1> QED BY <1>2, <1>4, <1>5

\* Every step of the command keeps the invariant.
LEMMA CommandInvHolds ==
    Spec => []CommandInv
<1>1. Init => CommandInv
  <2> SUFFICES ASSUME Init PROVE CommandInv
    OBVIOUS
  <2>1. /\ stage = "idle" /\ started = 0 /\ pc = "ended" /\ runs = << >> /\ todo = << >>
        /\ kriAt = << >> /\ run \in RunsOf /\ graph \in Ingests
    BY DEF Init, EngineInit
  <2>2. Len(run.epochs) \in Nat
    BY <2>1, ObservatoryAssumption
  <2>3. RunsInv
    BY <2>1, <2>2 DEF RunsInv
  <2> QED BY <2>1, <2>3 DEF CommandInv
<1>2. ASSUME CommandOK, EngineInv, CommandInv, [Next]_vars
      PROVE  CommandInv'
  <2> USE <1>2
  <2>1. CASE Reingest
    <3>1. /\ pc \in {"ended", "failed"} /\ pc' = "ended" /\ run' = run /\ runs' = << >>
          /\ UNCHANGED <<edges, chunks, cur, partials, stage, kind, started, todo, kriAt>>
      BY <2>1 DEF Reingest, engineVars, storeVars
    <3>2. RunsInv'
      BY <3>1, RunIs DEF RunsInv
    <3> QED BY <3>1, <3>2 DEF CommandInv
  <2>2. ASSUME NEW r \in RunsOf, Start(r) PROVE CommandInv'
    BY <2>2, StartKeeps
  <2>3. CASE Compute
    <3>1. /\ pc = "snapshots" /\ todo = << >> /\ pc' = "epochs"
          /\ UNCHANGED <<edges, chunks, cur, partials, stage, kind, graph, run, started, runs,
                         todo, kriAt>>
      BY <2>3 DEF Compute, engineVars, storeVars
    <3>2. runs = << >> /\ Len(runs) < Len(run.epochs)
      BY <3>1, RunIs DEF CommandInv
    <3>3. RunsInv'
      BY <3>1 DEF CommandInv, RunsInv
    <3> QED BY <3>1, <3>2, <3>3 DEF CommandInv
  <2>4. CASE CallEngine
    <3>1. /\ pc = "epochs" /\ cur' = Seeded(run.names \cup Endpoints(Snapshot(run.names, Epoch)))
          /\ UNCHANGED <<kind, graph, run, started, pc, runs, todo, kriAt>>
      BY <2>4 DEF CallEngine, StartEpoch, storeVars
    <3>2. run.names \subseteq DOMAIN cur'
      BY <3>1 DEF Seeded
    <3>3. RunsInv'
      BY <3>1 DEF CommandInv, RunsInv
    <3> QED BY <3>1, <3>2, <3>3 DEF CommandInv
  <2>5. CASE Propagate
    <3>1. EngineStep /\ UNCHANGED <<graph, run, started, pc, runs, todo, kri, kriAt>>
      BY <2>5 DEF Propagate, storeVars
    <3>2. stage = "round" /\ kind' = kind /\ DOMAIN cur' = DOMAIN cur
      BY <3>1 DEF EngineStep, EndRound, MergeChunk, Folded
    <3>3. pc = "epochs"
      BY <3>2 DEF CommandOK
    <3>4. RunsInv'
      BY <3>1, <3>2 DEF CommandInv, RunsInv
    <3> QED BY <3>1, <3>2, <3>3, <3>4 DEF CommandInv
  <2>6. CASE EndEpoch
    BY <2>6, EndEpochKeeps
  <2>7. CASE WriteRow
    BY <2>7, WriteRowKeeps
  <2>8. CASE EndCall
    BY <2>8, EndCallKeeps
  <2>9. CASE Fail
    <3>1. /\ pc \in {"snapshots", "epochs", "writing"} /\ pc' = "failed"
          /\ runs' = << >> /\ todo' = << >> /\ stage' = "idle"
          /\ UNCHANGED <<kind, graph, run, started, kriAt>>
      BY <2>9 DEF Fail, storeVars
    <3>2. RunsInv'
      BY <3>1, RunIs DEF RunsInv
    <3> QED BY <3>1, <3>2 DEF CommandInv
  <2>10. CASE UNCHANGED vars
    <3>1. UNCHANGED <<edges, chunks, cur, partials, stage, kind, graph, run, started, pc, runs,
                      todo, kri, kriAt>>
      BY <2>10 DEF vars, engineVars, storeVars
    <3>2. RunsInv'
      BY <3>1 DEF CommandInv, RunsInv
    <3>3. AllRows' = AllRows
      BY <3>1, RowsStay
    <3>4. \A q : InEffect(q) => InEffect(q)'
      BY <3>1 DEF InEffect
    <3>5. WriteInv => WriteInv'
      BY <3>1, <3>3, <3>4 DEF WriteInv
    <3> QED BY <3>1, <3>2, <3>5 DEF CommandInv
  <2> QED BY <2>1, <2>2, <2>3, <2>4, <2>5, <2>6, <2>7, <2>8, <2>9, <2>10 DEF Next
<1> QED BY <1>1, <1>2, EngineInvHolds, PTL DEF Spec

\* A set that has at least what another has counts at least as many.
LEMMA CountGrows ==
    ASSUME kind = "exact", NEW s \in [SlotsFor(kind) -> Nat], NEW u \in [SlotsFor(kind) -> Nat],
           \A i \in SlotsFor(kind) : s[i] <= u[i]
    PROVE  Count(u) >= Count(s)
<1> DEFINE Z(x) == {i \in Slots : x[i] = 0}
<1>1. Slots = Packages /\ SlotsFor(kind) = Packages
  BY DEF Slots, SlotsFor
<1>2. Z(u) \subseteq Z(s)
  BY <1>1
<1>3. IsFiniteSet(Z(s)) /\ IsFiniteSet(Z(u))
  BY <1>1, SketchAssumption, FS_Subset
<1>4. /\ Cardinality(Z(u)) <= Cardinality(Z(s))
      /\ Cardinality(Z(u)) \in Nat /\ Cardinality(Z(s)) \in Nat /\ Cardinality(Slots) \in Nat
  BY <1>1, <1>2, <1>3, SketchAssumption, FS_Subset, FS_CardinalityType
<1> HIDE DEF Z
<1>5. Cardinality(Slots) - Cardinality(Z(u)) >= Cardinality(Slots) - Cardinality(Z(s))
  BY <1>4
<1> QED BY <1>5 DEF Count, Zeros, Z

\* kri_history.go:29-36, observatory_history.go:55-58: what the graph says once
\* a run has ended is what the run computed.
LEMMA EndedRunRepairs ==
    ASSUME CommandOK, EngineInv, CommandInv, Ended
    PROVE  RunRepairs
<1> DEFINE last == Last(runs)
           t == last.epoch
           P == DOMAIN last.packages
           M == DOMAIN last.maintainers
<1>1. /\ RunsInv /\ WriteInv /\ todo = << >>
      /\ \A x \in DOMAIN kriAt : x[2] \in Nat /\ x[2] <= Last(run.epochs)
  BY DEF CommandInv, Ended
<1>2. runs \in Seq(EpochRuns(kind)) /\ Len(runs) \in Nat \ {0}
  BY <1>1 DEF RunsInv, Ended
<1>3. \A row \in AllRows : InEffect(row)
  BY <1>1 DEF WriteInv
<1>4. RowsAreThese
  BY <1>2, RowsAre
<1>5. /\ \A k \in 1 .. Len(runs) :
            /\ runs[k] \in EpochRuns(kind) /\ runs[k].epoch = run.epochs[k]
            /\ runs[k].epoch \in Nat /\ runs[k].epoch <= Last(run.epochs)
            /\ DOMAIN runs[k].packages \subseteq Packages
            /\ DOMAIN runs[k].maintainers \subseteq Handles
      /\ Len(runs) \in 1 .. Len(runs) /\ last = runs[Len(runs)]
  BY <1>1, <1>2, RunsAre
<1>6. t = Last(run.epochs) /\ t \in Nat /\ P \subseteq Packages /\ M \subseteq Handles
  BY <1>1, <1>5, RunIs DEF WriteInv
<1>7. /\ P # {} /\ last.orphaned = {p \in P : HoldersAt(p, t) = {}}
      /\ \A k \in 1 .. Len(runs) : \A p \in DOMAIN runs[k].packages :
            \A h \in DOMAIN runs[k].maintainers : h \in HoldersAt(p, runs[k].epoch) =>
               \A i \in DOMAIN runs[k].packages[p] :
                   runs[k].packages[p][i] <= runs[k].maintainers[h][i]
  <2>1. \A p, s : HeldIn(graph, p, s) = HoldersAt(p, s)
    BY DEF HeldIn, HoldersAt
  <2>2. \A k \in 1 .. Len(runs) : RunOk(graph, run.names, runs[k].epoch, runs[k])
    BY <1>1, <1>5 DEF RunsInv
  <2>3. P # {}
    BY <1>5, <2>2, RunIs DEF RunOk
  <2>4. last.orphaned = {p \in P : HeldIn(graph, p, t) = {}}
    BY <1>5, <2>2 DEF RunOk
  <2>5. last.orphaned = {p \in P : HoldersAt(p, t) = {}}
    BY <2>1, <2>4
  <2>6. ASSUME NEW k \in 1 .. Len(runs), NEW p \in DOMAIN runs[k].packages,
               NEW h \in DOMAIN runs[k].maintainers, h \in HoldersAt(p, runs[k].epoch)
        PROVE  \A i \in DOMAIN runs[k].packages[p] :
                   runs[k].packages[p][i] <= runs[k].maintainers[h][i]
    BY <2>1, <2>2, <2>6 DEF RunOk
  <2> QED BY <2>3, <2>5, <2>6
<1> HIDE DEF last, t, P, M
<1>8. /\ \A n, e, s : /\ KriRow(n, e, s).to = "kri" /\ KriRow(n, e, s).node = n
                      /\ KriRow(n, e, s).epoch = e /\ KriRow(n, e, s).kri = Count(s)
      /\ \A n, e, s, o : /\ HistoryRow(n, e, s, o).to = "history"
                         /\ HistoryRow(n, e, s, o).node = n
                         /\ HistoryRow(n, e, s, o).epoch = e
                         /\ HistoryRow(n, e, s, o).kri = Count(s)
                         /\ HistoryRow(n, e, s, o).orphaned = o
  BY DEF KriRow, HistoryRow
<1>9. /\ \A n \in P : KriRow(n, t, last.packages[n]) \in AllRows
      /\ \A n \in M : KriRow(n, t, last.maintainers[n]) \in AllRows
      /\ \A k \in 1 .. Len(runs) :
            /\ \A n \in DOMAIN runs[k].packages :
                  HistoryRow(n, runs[k].epoch, runs[k].packages[n], n \in runs[k].orphaned)
                      \in AllRows
            /\ \A n \in DOMAIN runs[k].maintainers :
                  HistoryRow(n, runs[k].epoch, runs[k].maintainers[n], n \in {}) \in AllRows
  BY <1>4 DEF RowsAreThese, P, M, t, last
<1>10. \A r \in AllRows : r.to = "kri" =>
           r.node \in DOMAIN kri /\ kri[r.node] = [kri |-> r.kri, at |-> r.epoch]
  BY <1>3 DEF InEffect
<1>11. \A r \in AllRows : r.to = "history" =>
           /\ <<r.node, r.epoch>> \in DOMAIN kriAt
           /\ kriAt[<<r.node, r.epoch>>] = [kri |-> r.kri, orphaned |-> r.orphaned]
  BY <1>3 DEF InEffect
<1>12. /\ \A n \in P : n \in DOMAIN kri /\ kri[n] = [kri |-> Count(last.packages[n]), at |-> t]
       /\ \A n \in M : n \in DOMAIN kri /\ kri[n] = [kri |-> Count(last.maintainers[n]), at |-> t]
  <2>1. ASSUME NEW n \in P
        PROVE  n \in DOMAIN kri /\ kri[n] = [kri |-> Count(last.packages[n]), at |-> t]
    BY <1>8, <1>9, <1>10
  <2>2. ASSUME NEW n \in M
        PROVE  n \in DOMAIN kri /\ kri[n] = [kri |-> Count(last.maintainers[n]), at |-> t]
    BY <1>8, <1>9, <1>10
  <2> QED BY <2>1, <2>2
<1>13. ASSUME NEW k \in 1 .. Len(runs)
       PROVE  /\ \A n \in DOMAIN runs[k].packages :
                    /\ <<n, runs[k].epoch>> \in DOMAIN kriAt
                    /\ kriAt[<<n, runs[k].epoch>>].kri = Count(runs[k].packages[n])
                    /\ kriAt[<<n, runs[k].epoch>>].orphaned = (n \in runs[k].orphaned)
              /\ \A n \in DOMAIN runs[k].maintainers :
                    /\ <<n, runs[k].epoch>> \in DOMAIN kriAt
                    /\ kriAt[<<n, runs[k].epoch>>].kri = Count(runs[k].maintainers[n])
                    /\ kriAt[<<n, runs[k].epoch>>].orphaned = (n \in {})
  <2>1. ASSUME NEW n \in DOMAIN runs[k].packages
        PROVE  /\ <<n, runs[k].epoch>> \in DOMAIN kriAt
               /\ kriAt[<<n, runs[k].epoch>>].kri = Count(runs[k].packages[n])
               /\ kriAt[<<n, runs[k].epoch>>].orphaned = (n \in runs[k].orphaned)
    <3> DEFINE r == HistoryRow(n, runs[k].epoch, runs[k].packages[n], n \in runs[k].orphaned)
    <3>1. /\ r.to = "history" /\ r.node = n /\ r.epoch = runs[k].epoch
          /\ r.kri = Count(runs[k].packages[n])
      BY DEF HistoryRow
    <3>2. r.orphaned = (n \in runs[k].orphaned)
      BY Zenon DEF HistoryRow
    <3>3. r \in AllRows
      BY <1>9
    <3> HIDE DEF r
    <3>4. /\ <<r.node, r.epoch>> \in DOMAIN kriAt
          /\ kriAt[<<r.node, r.epoch>>] = [kri |-> r.kri, orphaned |-> r.orphaned]
      BY <1>11, <3>1, <3>3
    <3>5. /\ <<n, runs[k].epoch>> \in DOMAIN kriAt
          /\ kriAt[<<n, runs[k].epoch>>].kri = Count(runs[k].packages[n])
          /\ kriAt[<<n, runs[k].epoch>>].orphaned = r.orphaned
      BY <3>1, <3>4
    <3> QED BY <3>2, <3>5, Zenon
  <2>2. ASSUME NEW n \in DOMAIN runs[k].maintainers
        PROVE  /\ <<n, runs[k].epoch>> \in DOMAIN kriAt
               /\ kriAt[<<n, runs[k].epoch>>].kri = Count(runs[k].maintainers[n])
               /\ kriAt[<<n, runs[k].epoch>>].orphaned = (n \in {})
    <3> DEFINE r == HistoryRow(n, runs[k].epoch, runs[k].maintainers[n], n \in {})
    <3>1. /\ r.to = "history" /\ r.node = n /\ r.epoch = runs[k].epoch
          /\ r.kri = Count(runs[k].maintainers[n])
      BY DEF HistoryRow
    <3>2. r.orphaned = (n \in {})
      BY Zenon DEF HistoryRow
    <3>3. r \in AllRows
      BY <1>9
    <3> HIDE DEF r
    <3>4. /\ <<r.node, r.epoch>> \in DOMAIN kriAt
          /\ kriAt[<<r.node, r.epoch>>] = [kri |-> r.kri, orphaned |-> r.orphaned]
      BY <1>11, <3>1, <3>3
    <3>5. /\ <<n, runs[k].epoch>> \in DOMAIN kriAt
          /\ kriAt[<<n, runs[k].epoch>>].kri = Count(runs[k].maintainers[n])
          /\ kriAt[<<n, runs[k].epoch>>].orphaned = r.orphaned
      BY <3>1, <3>4
    <3> QED BY <3>2, <3>5, Zenon
  <2> QED BY <2>1, <2>2
<1>14. \A n, e : <<n, e>> \in DOMAIN kriAt => Curve(n)[e] = kriAt[<<n, e>>].kri
  <2> SUFFICES ASSUME NEW n, NEW e, <<n, e>> \in DOMAIN kriAt
               PROVE  Curve(n)[e] = kriAt[<<n, e>>].kri
    OBVIOUS
  <2>1. e \in {k[2] : k \in {x \in DOMAIN kriAt : x[1] = n}}
    <3>1. <<n, e>>[1] = n /\ <<n, e>>[2] = e
      OBVIOUS
    <3> QED BY <3>1
  <2> QED BY <2>1 DEF Curve
<1>15. \A k \in 1 .. Len(runs) :
          /\ \A n \in DOMAIN runs[k].packages :
                Curve(n)[runs[k].epoch] = Count(runs[k].packages[n])
          /\ \A n \in DOMAIN runs[k].maintainers :
                Curve(n)[runs[k].epoch] = Count(runs[k].maintainers[n])
  <2> SUFFICES ASSUME NEW k \in 1 .. Len(runs)
               PROVE  /\ \A n \in DOMAIN runs[k].packages :
                            Curve(n)[runs[k].epoch] = Count(runs[k].packages[n])
                      /\ \A n \in DOMAIN runs[k].maintainers :
                            Curve(n)[runs[k].epoch] = Count(runs[k].maintainers[n])
    OBVIOUS
  <2>1. ASSUME NEW n \in DOMAIN runs[k].packages
        PROVE  Curve(n)[runs[k].epoch] = Count(runs[k].packages[n])
    <3>1. <<n, runs[k].epoch>> \in DOMAIN kriAt
          /\ kriAt[<<n, runs[k].epoch>>].kri = Count(runs[k].packages[n])
      BY <1>13, Zenon
    <3> QED BY <1>14, <3>1, Zenon
  <2>2. ASSUME NEW n \in DOMAIN runs[k].maintainers
        PROVE  Curve(n)[runs[k].epoch] = Count(runs[k].maintainers[n])
    <3>1. <<n, runs[k].epoch>> \in DOMAIN kriAt
          /\ kriAt[<<n, runs[k].epoch>>].kri = Count(runs[k].maintainers[n])
      BY <1>13, Zenon
    <3> QED BY <1>14, <3>1, Zenon
  <2> QED BY <2>1, <2>2
<1>16. \A n \in P \cup M : /\ n \in DOMAIN kri /\ kri[n].at = t
                           /\ Curve(n)[t] = kri[n].kri
  <2>1. /\ \A n \in P : Curve(n)[t] = Count(last.packages[n])
        /\ \A n \in M : Curve(n)[t] = Count(last.maintainers[n])
    BY <1>5, <1>15 DEF P, M, t, last
  <2>2. ASSUME NEW n \in P PROVE n \in DOMAIN kri /\ kri[n].at = t /\ Curve(n)[t] = kri[n].kri
    <3>1. n \in DOMAIN kri /\ kri[n] = [kri |-> Count(last.packages[n]), at |-> t]
      BY <1>12, Zenon
    <3>2. kri[n].kri = Count(last.packages[n]) /\ kri[n].at = t
      BY <3>1
    <3> QED BY <2>1, <3>1, <3>2, Zenon
  <2>3. ASSUME NEW n \in M PROVE n \in DOMAIN kri /\ kri[n].at = t /\ Curve(n)[t] = kri[n].kri
    <3>1. n \in DOMAIN kri /\ kri[n] = [kri |-> Count(last.maintainers[n]), at |-> t]
      BY <1>12, Zenon
    <3>2. kri[n].kri = Count(last.maintainers[n]) /\ kri[n].at = t
      BY <3>1
    <3> QED BY <2>1, <3>1, <3>2, Zenon
  <2> QED BY <2>2, <2>3
<1>17. \A n \in P \cup M : n \in Board <=> Curve(n)[t] > 0
  BY <1>16 DEF Board
<1>18. \A p \in P : /\ <<p, t>> \in DOMAIN kriAt
                    /\ kriAt[<<p, t>>].orphaned = (p \in last.orphaned)
  <2> DEFINE k == Len(runs)
  <2>1. k \in 1 .. Len(runs) /\ last = runs[k]
    BY <1>5
  <2> HIDE DEF k
  <2> SUFFICES ASSUME NEW p \in P
               PROVE  <<p, t>> \in DOMAIN kriAt
                      /\ kriAt[<<p, t>>].orphaned = (p \in last.orphaned)
    OBVIOUS
  <2>2. p \in DOMAIN runs[k].packages /\ t = runs[k].epoch
    BY <2>1 DEF P, t
  <2>3. <<p, t>> \in DOMAIN kriAt
    BY <1>13, <2>1, <2>2
  <2>4. kriAt[<<p, runs[k].epoch>>].orphaned = (p \in runs[k].orphaned)
    BY <1>13, <2>1, <2>2, Zenon
  <2> QED BY <2>1, <2>2, <2>3, <2>4, Zenon
<1>19. NewestEpoch = t
  <2> DEFINE epochs == {k[2] : k \in {x \in DOMAIN kriAt : x[1] \in Packages}}
  <2>1. t \in epochs
    <3>1. PICK p \in P : TRUE
      BY <1>7
    <3>2. <<p, t>> \in DOMAIN kriAt /\ <<p, t>>[1] \in Packages /\ <<p, t>>[2] = t
      BY <1>6, <1>18, <3>1
    <3> QED BY <3>2
  <2>2. \A s \in epochs : s \in Nat /\ s <= t
    BY <1>1, <1>6
  <2> HIDE DEF epochs
  <2>3. \A s \in epochs : (\A u \in epochs : u <= s) => s = t
    BY <1>6, <2>1, <2>2
  <2>4. (CHOOSE s \in epochs : \A u \in epochs : u <= s) = t
    BY <2>1, <2>2, <2>3
  <2> QED BY <2>4 DEF NewestEpoch, epochs
<1>20. OrphanedView \cap P = {p \in P : HoldersAt(p, t) = {}}
  <2>1. \A p \in P : p \in OrphanedView <=> p \in last.orphaned
    BY <1>6, <1>18, <1>19 DEF OrphanedView
  <2> QED BY <1>7, <2>1
<1>21. ASSUME NEW k \in 1 .. Len(runs), NEW p \in DOMAIN runs[k].packages,
              NEW h \in DOMAIN runs[k].maintainers,
              h \in HoldersAt(p, runs[k].epoch), kind = "exact"
       PROVE  Curve(h)[runs[k].epoch] >= Curve(p)[runs[k].epoch]
  <2>1. /\ runs[k].packages[p] \in [SlotsFor(kind) -> Nat]
        /\ runs[k].maintainers[h] \in [SlotsFor(kind) -> Nat]
    <3>1. /\ runs[k].packages \in [DOMAIN runs[k].packages -> [SlotsFor(kind) -> Nat]]
          /\ runs[k].maintainers \in [DOMAIN runs[k].maintainers -> [SlotsFor(kind) -> Nat]]
      BY <1>5 DEF EpochRuns, Sketches
    <3> QED BY <3>1
  <2>2. \A i \in SlotsFor(kind) : runs[k].packages[p][i] <= runs[k].maintainers[h][i]
    BY <1>7, <1>21, <2>1
  <2>3. Count(runs[k].maintainers[h]) >= Count(runs[k].packages[p])
    BY <1>21, <2>1, <2>2, CountGrows
  <2> QED BY <1>15, <2>3
<1> QED BY <1>16, <1>17, <1>19, <1>20, <1>21 DEF RunRepairs, last, t, P, M

\* kri_history.go:29-36: whatever runs failed half way through before it, and
\* whoever gained or lost a package since, a run that ends leaves a graph whose
\* board, curves and view of orphans agree with each other and with who holds
\* what (observatory.go, WriteBack and WriteKRIHistory, over their retries).
THEOREM RunsRepair ==
    Spec => []RunRepairs
<1>1. CommandOK /\ EngineInv /\ CommandInv => RunRepairs
  <2>1. ~ Ended => RunRepairs
    BY DEF RunRepairs
  <2> QED BY <2>1, EndedRunRepairs
<1> QED BY <1>1, EngineInvHolds, CommandInvHolds, PTL

-----------------------------------------------------------------------------
(* Types.                                                                  *)

\* What the invariants above do not say of the variables.
Typed ==
    /\ started \in 0 .. MaxRuns
    /\ DOMAIN kri \subseteq Packages \cup Handles

\* Only a node that a run has covered is given a figure.
LEMMA WriteRowKeepsTypes ==
    ASSUME CommandOK, CommandInv, Typed, WriteRow
    PROVE  Typed'
<1>1. PICK row \in Head(todo) :
        IF row.to = "kri"
        THEN kri' = Put(kri, row.node, [kri |-> row.kri, at |-> row.epoch])
        ELSE kri' = kri
  BY DEF WriteRow
<1>2. todo # << >> /\ started' = started
  BY DEF WriteRow
<1>3. CASE pc = "snapshots"
  <2>1. todo \in Seq(SUBSET ResolveRows)
    BY <1>3 DEF CommandInv
  <2>2. Head(todo) = todo[1] /\ todo[1] \in SUBSET ResolveRows
    BY <1>2, <2>1
  <2>3. row.to = "resolves"
    BY <2>2 DEF ResolveRows
  <2> QED BY <1>1, <1>2, <2>3 DEF Typed
<1>4. CASE pc = "writing"
  <2>1. WriteInv /\ RunsInv /\ runs # << >>
    BY <1>4 DEF CommandInv
  <2>2. todo \in Seq(SUBSET AllRows) /\ Len(runs) \in Nat \ {0}
    <3>1. runs \in Seq(EpochRuns(kind))
      BY <2>1 DEF RunsInv
    <3> QED BY <2>1, <3>1 DEF WriteInv
  <2>3. Head(todo) = todo[1] /\ todo[1] \in SUBSET AllRows
    BY <1>2, <2>2
  <2>4. row \in AllRows
    BY <2>3
  <2>5. row.to = "kri" => row.node \in Packages \cup Handles
    <3>1. RowsAreThese
      BY <2>2, RowsAre
    <3>2. /\ \A n, t, s : KriRow(n, t, s).node = n
          /\ \A n, t, s, o : HistoryRow(n, t, s, o).to = "history"
      BY DEF KriRow, HistoryRow
    <3>3. /\ DOMAIN Last(runs).packages \subseteq Packages
          /\ DOMAIN Last(runs).maintainers \subseteq Handles
      BY <2>1, <2>2, RunsAre
    <3>4. CASE \E n \in DOMAIN Last(runs).packages :
                  row = KriRow(n, Last(runs).epoch, Last(runs).packages[n])
      BY <3>2, <3>3, <3>4
    <3>5. CASE \E n \in DOMAIN Last(runs).maintainers :
                  row = KriRow(n, Last(runs).epoch, Last(runs).maintainers[n])
      BY <3>2, <3>3, <3>5
    <3> QED BY <2>4, <3>1, <3>2, <3>4, <3>5 DEF RowsAreThese
  <2>6. DOMAIN kri' \subseteq DOMAIN kri \cup (IF row.to = "kri" THEN {row.node} ELSE {})
    BY <1>1 DEF Put
  <2> QED BY <1>2, <2>5, <2>6 DEF Typed
<1> QED BY <1>2, <1>3, <1>4 DEF CommandInv, CommandOK

LEMMA TypedStep == ASSUME CommandOK, CommandInv, Typed, [Next]_vars PROVE Typed'
<1>1. CASE \/ Reingest \/ Compute \/ CallEngine \/ Propagate \/ EndEpoch
           \/ EndCall \/ Fail \/ UNCHANGED vars
  <2>1. UNCHANGED <<started, kri>>
    BY <1>1 DEF Reingest, Compute, CallEngine, Propagate, EndEpoch, EndCall, Fail, vars,
                storeVars
  <2> QED BY <2>1 DEF Typed
<1>2. ASSUME NEW r \in RunsOf, Start(r) PROVE Typed'
  <2>1. kri' = kri /\ started' = started + 1 /\ started < MaxRuns
    BY <1>2 DEF Start, storeVars
  <2> QED BY <2>1, ObservatoryAssumption DEF Typed
<1> QED BY <1>1, <1>2, WriteRowKeepsTypes DEF Next

\* The variables keep their types: in particular only packages and
\* maintainers are ever given a figure.
THEOREM TypeCorrect == Spec => []TypeOK
<1>1. Init => Typed
  BY ObservatoryAssumption DEF Init, Typed
<1>2. CommandOK /\ EngineInv /\ Typed => TypeOK
  BY DEF CommandOK, EngineInv, Typed, TypeOK
<1>3. CommandOK /\ CommandInv /\ Typed /\ [Next]_vars => Typed'
  BY TypedStep
<1> QED BY <1>1, <1>2, <1>3, EngineInvHolds, CommandInvHolds, PTL DEF Spec
=============================================================================
