----------------------------- MODULE DataProofs -----------------------------
(***************************************************************************)
(* Facts about data that the proofs about several components share.  The   *)
(* module holds no state.                                                  *)
(*                                                                         *)
(* Induction and recursion: induction over the naturals as a statement     *)
(* about sets, least and greatest members, and that a fold or a recursive  *)
(* function is what its equation says.                                     *)
(*                                                                         *)
(* Spans: what the operators of module Intervals do, for spans and sets    *)
(* of spans of any size.                                                   *)
(*                                                                         *)
(* Checkpoint files: what the operations of module Checkpoint do to a      *)
(* file.  Only its last line can be torn, and it is never among the synced *)
(* ones: the bytes that join a torn line, and the lines a power failure    *)
(* takes, were not durable.  A Record makes a sound claim of its name, or  *)
(* completes a torn line, whose claim can be wrong; a run finds one line   *)
(* torn at most and leaves one torn at most, so in the r-th run fewer than *)
(* r claims are wrong, and r at most when it is over (Honest).             *)
(***************************************************************************)
EXTENDS Intervals, Checkpoint, WellFoundedInduction, FiniteSetTheorems, TLAPS

-----------------------------------------------------------------------------
(* Induction and recursion.                                                *)

\* Induction over the naturals, for a set instead of a formula: the least
\* number outside S would have a predecessor, which is in S.
LEMMA NatInductive ==
    ASSUME NEW S, 0 \in S, \A n \in Nat : n \in S => n + 1 \in S
    PROVE  Nat \subseteq S
<1> SUFFICES ASSUME Nat \ S # {} PROVE FALSE
  OBVIOUS
<1> DEFINE T == Nat \ S
<1>1. PICK x \in T : \A y \in T : ~ (<<y, x>> \in OpToRel(<, Nat))
  BY NatLessThanWellFounded, WFMin
<1>2. \A y \in T : ~ (y < x)
  BY <1>1 DEF OpToRel
<1>3. x \in Nat /\ x # 0 /\ x - 1 \in Nat
  OBVIOUS
<1>4. x - 1 \in S
  BY <1>2, <1>3
<1> QED BY <1>3, <1>4

\* The least member of a set of naturals (the next window, windows.go:85-89).
LEMMA LeastNatural ==
    ASSUME NEW S \in SUBSET Nat, S # {}
    PROVE  Least(S) \in S /\ \A y \in S : Least(S) <= y
<1>1. PICK x \in S : \A y \in S : ~ (<<y, x>> \in OpToRel(<, Nat))
  BY NatLessThanWellFounded, WFMin
<1>2. \A y \in S : ~ (y < x)
  BY <1>1 DEF OpToRel
<1>3. \A y \in S : x <= y
  BY <1>2
<1> QED BY <1>3 DEF Least

\* A finite set of naturals has a greatest member.
LEMMA GreatestOfFinite ==
    ASSUME NEW S \in SUBSET Nat, S # {}, IsFiniteSet(S)
    PROVE  \E x \in S : \A y \in S : y <= x
<1> DEFINE Top(T) == \E x \in T : \A y \in T : y <= x
           Upto == {n \in Nat : \A T \in SUBSET Nat :
                      IsFiniteSet(T) /\ Cardinality(T) = n /\ T # {} => Top(T)}
<1>1. 0 \in Upto
  BY FS_EmptySet
<1>2. ASSUME NEW n \in Nat, n \in Upto PROVE n + 1 \in Upto
  <2> SUFFICES ASSUME NEW T \in SUBSET Nat, IsFiniteSet(T), Cardinality(T) = n + 1,
                      T # {}
               PROVE  Top(T)
    OBVIOUS
  <2>0. \A U \in SUBSET Nat : IsFiniteSet(U) /\ Cardinality(U) = n /\ U # {} => Top(U)
    BY <1>2
  <2> HIDE DEF Upto
  <2>1. PICK x \in T : TRUE
    OBVIOUS
  <2>2. IsFiniteSet(T \ {x}) /\ Cardinality(T \ {x}) = Cardinality(T) - 1
    BY <2>1, FS_RemoveElement
  <2>3. CASE T \ {x} = {}
    <3>1. \A y \in T : y <= x
      BY <2>1, <2>3
    <3> QED BY <2>1, <3>1
  <2>4. CASE T \ {x} # {}
    <3>1. PICK k \in T \ {x} : \A y \in T \ {x} : y <= k
      BY <2>0, <2>2, <2>4
    <3>2. CASE x <= k
      <4>1. \A y \in T : y <= k
        BY <3>1, <3>2
      <4> QED BY <3>1, <4>1
    <3>3. CASE k <= x
      <4>1. \A y \in T : y <= x
        BY <2>1, <3>1, <3>3
      <4> QED BY <2>1, <4>1
    <3> QED BY <2>1, <3>1, <3>2, <3>3
  <2> QED BY <2>3, <2>4
<1> HIDE DEF Upto
<1>3. Nat \subseteq Upto
  BY <1>1, <1>2, NatInductive
<1>4. Cardinality(S) \in Nat
  BY FS_CardinalityType
<1> QED BY <1>3, <1>4 DEF Upto

\* A finite set I to fold over in the order ch, from base, by F.
Folding(I, D, base, F, ch) ==
    /\ IsFiniteSet(I)
    /\ base \in D /\ F \in [I \X D -> D]
    /\ \A s \in SUBSET I : s # {} => ch[s] \in s

\* f gives the fold of every part of I.
FoldOf(f, I, D, base, F, ch) ==
    /\ f \in [SUBSET I -> D]
    /\ f[{}] = base
    /\ \A s \in SUBSET I : s # {} => f[s] = F[<<ch[s], f[s \ {ch[s]}]>>]

\* A fold over a finite set is defined by its equation.
LEMMA FoldExists ==
    ASSUME NEW I, NEW D, NEW base, NEW F, NEW ch, Folding(I, D, base, F, ch)
    PROVE  \E f : FoldOf(f, I, D, base, F, ch)
<1> USE DEF Folding
<1> DEFINE Small(n) == {s \in SUBSET I : Cardinality(s) <= n}
           Good(f, n) ==
              /\ f \in [Small(n) -> D]
              /\ \A s \in Small(n) :
                    f[s] = IF s = {} THEN base ELSE F[<<ch[s], f[s \ {ch[s]}]>>]
           Upto == {n \in Nat : \E f : Good(f, n)}
<1>1. ASSUME NEW s \in SUBSET I
      PROVE  /\ Cardinality(s) \in Nat /\ (Cardinality(s) = 0 <=> s = {})
             /\ s # {} => /\ ch[s] \in s /\ ch[s] \in I /\ s \ {ch[s]} \in SUBSET I
                          /\ Cardinality(s \ {ch[s]}) = Cardinality(s) - 1
  <2>1. IsFiniteSet(s)
    BY FS_Subset
  <2>2. Cardinality(s) \in Nat /\ (Cardinality(s) = 0 <=> s = {})
    BY <2>1, FS_CardinalityType, FS_EmptySet
  <2>4. s # {} => Cardinality(s \ {ch[s]}) = Cardinality(s) - 1
    BY <2>1, FS_RemoveElement
  <2> QED BY <2>2, <2>4
<1>2. 0 \in Upto
  <2>1. Good([s \in Small(0) |-> base], 0)
    BY <1>1
  <2> QED BY <2>1
<1>3. ASSUME NEW n \in Nat, n \in Upto PROVE n + 1 \in Upto
  <2>1. PICK f : Good(f, n)
    BY <1>3
  <2> DEFINE g == [s \in Small(n + 1) |->
                      IF s \in Small(n) THEN f[s] ELSE F[<<ch[s], f[s \ {ch[s]}]>>]]
  <2>2. \A s \in Small(n) : s # {} => s \ {ch[s]} \in Small(n)
    BY <1>1
  <2>3. \A s \in Small(n + 1) : s \notin Small(n) =>
            s # {} /\ s \ {ch[s]} \in Small(n)
    BY <1>1
  <2>4. Small(n) \subseteq Small(n + 1)
    <3>1. ASSUME NEW s \in SUBSET I, Cardinality(s) <= n PROVE Cardinality(s) <= n + 1
      <4>1. Cardinality(s) \in Nat
        BY <1>1
      <4> QED BY <3>1, <4>1
    <3> QED BY <3>1
  <2>5. \A s \in Small(n) : g[s] = f[s]
    BY <2>4
  <2>6. \A s \in Small(n + 1) : s \notin Small(n) => g[s] = F[<<ch[s], f[s \ {ch[s]}]>>]
    OBVIOUS
  <2> HIDE DEF g
  <2>7. \A s \in Small(n + 1) : g[s] \in D
    <3>1. ASSUME NEW s \in Small(n + 1), s \notin Small(n) PROVE g[s] \in D
      <4>1. ch[s] \in I /\ f[s \ {ch[s]}] \in D
        BY <1>1, <2>1, <2>3, <3>1
      <4> QED BY <2>6, <3>1, <4>1
    <3> QED BY <2>1, <2>5, <3>1
  <2>8. \A s \in Small(n + 1) :
            g[s] = IF s = {} THEN base ELSE F[<<ch[s], g[s \ {ch[s]}]>>]
    BY <2>1, <2>2, <2>3, <2>5, <2>6
  <2>9. g \in [Small(n + 1) -> D]
    BY <2>7 DEF g
  <2>10. Good(g, n + 1)
    BY <2>8, <2>9
  <2> HIDE DEF Good
  <2> QED BY <2>10
<1> HIDE DEF Good
<1>4. Nat \subseteq Upto
  BY <1>2, <1>3, NatInductive
<1>5. Cardinality(I) \in Nat /\ \A s \in SUBSET I : Cardinality(s) <= Cardinality(I)
  BY FS_Subset, FS_CardinalityType
<1>6. PICK f : Good(f, Cardinality(I))
  BY <1>4, <1>5
<1>7. Small(Cardinality(I)) = SUBSET I
  BY <1>5
<1>8. /\ f \in [SUBSET I -> D]
      /\ \A s \in SUBSET I :
            f[s] = IF s = {} THEN base ELSE F[<<ch[s], f[s \ {ch[s]}]>>]
  BY <1>6, <1>7 DEF Good
<1> QED BY <1>8 DEF FoldOf

\* To step from base, which is at a, up to n.
Iterating(a, n, D, base, F) ==
    /\ a \in Int /\ n \in Int /\ a <= n
    /\ base \in D /\ F \in [Int \X D -> D]

\* f gives every value on the way.
IterationOf(f, a, n, D, base, F) ==
    /\ f \in [a .. n -> D]
    /\ f[a] = base
    /\ \A k \in a + 1 .. n : f[k] = F[<<k, f[k - 1]>>]

\* A function on a range of numbers is defined by its recursion equation.
LEMMA IterationExists ==
    ASSUME NEW a, NEW n, NEW D, NEW base, NEW F, Iterating(a, n, D, base, F)
    PROVE  \E f : IterationOf(f, a, n, D, base, F)
<1> USE DEF Iterating
<1> DEFINE Good(f, m) == IterationOf(f, a, a + m, D, base, F)
           Upto == {m \in Nat : \E f : Good(f, m)}
<1>1. 0 \in Upto
  <2>1. Good([k \in a .. a + 0 |-> base], 0)
    BY DEF IterationOf
  <2> QED BY <2>1
<1>2. ASSUME NEW m \in Nat, m \in Upto PROVE m + 1 \in Upto
  <2>1. PICK f : Good(f, m)
    BY <1>2
  <2>2. /\ f \in [a .. a + m -> D] /\ f[a] = base
        /\ \A k \in a + 1 .. a + m : f[k] = F[<<k, f[k - 1]>>]
    BY <2>1 DEF IterationOf
  <2> DEFINE g == [k \in a .. a + (m + 1) |->
                      IF k \in a .. a + m THEN f[k] ELSE F[<<k, f[k - 1]>>]]
  <2>3. \A k \in a .. a + m : k \in a .. a + (m + 1) /\ g[k] = f[k]
    OBVIOUS
  <2>4. LET k == a + (m + 1) IN g[k] = F[<<k, f[k - 1]>>]
    OBVIOUS
  <2>5. LET k == a + (m + 1) IN k \in Int /\ k - 1 \in a .. a + m /\ f[k - 1] \in D
    BY <2>2
  <2>6. g[a + (m + 1)] \in D
    BY <2>4, <2>5
  <2>7. \A k \in a .. a + (m + 1) : k \in a .. a + m \/ k = a + (m + 1)
    OBVIOUS
  <2>8. g \in [a .. a + (m + 1) -> D]
    <3>1. \A k \in a .. a + (m + 1) : g[k] \in D
      BY <2>2, <2>3, <2>6, <2>7
    <3> QED BY <3>1
  <2>9. ASSUME NEW k \in a + 1 .. a + (m + 1) PROVE g[k] = F[<<k, g[k - 1]>>]
    <3>1. CASE k \in a + 1 .. a + m
      <4>1. k - 1 \in a .. a + m
        BY <3>1
      <4>2. g[k] = f[k] /\ g[k - 1] = f[k - 1]
        BY <2>3, <3>1, <4>1
      <4> QED BY <2>2, <3>1, <4>2
    <3>2. CASE k = a + (m + 1)
      <4>1. g[k - 1] = f[k - 1]
        BY <2>3, <2>5, <3>2
      <4> QED BY <2>4, <3>2, <4>1
    <3> QED BY <3>1, <3>2
  <2>10. g[a] = base
    BY <2>2, <2>3
  <2> HIDE DEF g
  <2>11. Good(g, m + 1)
    BY <2>8, <2>9, <2>10 DEF IterationOf
  <2> HIDE DEF Good
  <2> QED BY <2>11
<1> HIDE DEF Good
<1>3. Nat \subseteq Upto
  BY <1>1, <1>2, NatInductive
<1>4. n - a \in Nat /\ a + (n - a) = n
  OBVIOUS
<1>5. PICK f : Good(f, n - a)
  BY <1>3, <1>4
<1> QED BY <1>4, <1>5 DEF Good

-----------------------------------------------------------------------------
(* Spans.                                                                  *)

\* An intersection is a span, and holds the instants both spans hold: the
\* coexistence operator (interval.go, Intersect).
LEMMA IntersectPointwise ==
    ASSUME NEW i \in Span, NEW o \in Span
    PROVE  /\ Intersect(i, o) \in Span
           /\ \A t \in Int : Contains(Intersect(i, o), t)
                              <=> Contains(i, t) /\ Contains(o, t)
BY DEF Intersect, Span, Contains, Earlier, Later

\* An empty span holds no instant (interval.go, Empty).
LEMMA EmptyHoldsNothing ==
    ASSUME NEW i \in Span
    PROVE  Empty(i) => \A t \in Int : ~ Contains(i, t)
BY DEF Empty, Span, Contains

\* A span that is covered has all its instants in the set (interval.go,
\* Covers): pruning on coverage is sound for the pointwise question.
LEMMA CoversPointwise ==
    ASSUME NEW S \in SUBSET Span, NEW i \in Span, Covers(S, i)
    PROVE  \A t \in Int : Contains(i, t) => Holds(S, t)
BY DEF Covers, Empty, Span, Contains, Holds

\* At most one member of a maximal set reaches the lower end of i from
\* below, so the least lower end among i and what it touches exists.
LEMMA LeastExists ==
    ASSUME NEW S \in SUBSET Span, Maximal(S), NEW i \in Span
    PROVE  LET L == {h.from : h \in {k \in S : Touches(k, i)}} \cup {i.from}
           IN  \E x \in L : \A y \in L : x <= y
<1> DEFINE touching == {k \in S : Touches(k, i)}
           L == {h.from : h \in touching} \cup {i.from}
<1>1. CASE \A h \in touching : i.from <= h.from
  <2>1. i.from \in L /\ \A y \in L : i.from <= y
    BY <1>1 DEF Span
  <2> QED BY <2>1
<1>2. CASE \E h \in touching : h.from < i.from
  <2>1. PICK h \in touching : h.from < i.from
    BY <1>2
  <2>2. ASSUME NEW k \in touching PROVE h.from <= k.from
    <3>1. CASE k = h
      BY <3>1 DEF Span
    <3>2. CASE k # h /\ k.from < h.from
      <4>1. Touches(k, h)
        BY <2>1, <3>2 DEF Touches, Span
      <4> QED BY <4>1, <3>2 DEF Maximal
    <3> QED BY <3>1, <3>2 DEF Span
  <2>3. h.from \in L /\ \A y \in L : h.from <= y
    BY <2>1, <2>2 DEF Span
  <2> QED BY <2>3
<1>3. \A h \in touching : h.from \in Int /\ i.from \in Int
  BY DEF Span
<1> QED BY <1>1, <1>2, <1>3

\* The same for the greatest upper end.
LEMMA GreatestExists ==
    ASSUME NEW S \in SUBSET Span, Maximal(S), NEW i \in Span
    PROVE  LET G == {h.to : h \in {k \in S : Touches(k, i)}} \cup {i.to}
           IN  \E x \in G : \A y \in G : y <= x
<1> DEFINE touching == {k \in S : Touches(k, i)}
           G == {h.to : h \in touching} \cup {i.to}
<1>1. CASE \A h \in touching : h.to <= i.to
  <2>1. i.to \in G /\ \A y \in G : y <= i.to
    BY <1>1 DEF Span
  <2> QED BY <2>1
<1>2. CASE \E h \in touching : i.to < h.to
  <2>1. PICK h \in touching : i.to < h.to
    BY <1>2
  <2>2. ASSUME NEW k \in touching PROVE k.to <= h.to
    <3>1. CASE k = h
      BY <3>1 DEF Span
    <3>2. CASE k # h /\ h.to < k.to
      <4>1. Touches(h, k)
        BY <2>1, <3>2 DEF Touches, Span
      <4> QED BY <4>1, <3>2 DEF Maximal
    <3> QED BY <3>1, <3>2 DEF Span
  <2>3. h.to \in G /\ \A y \in G : y <= h.to
    BY <2>1, <2>2 DEF Span
  <2> QED BY <2>3
<1>3. \A h \in touching : h.to \in Int /\ i.to \in Int
  BY DEF Span
<1> QED BY <1>1, <1>2, <1>3

\* The merged span starts where i or a span it touches starts, ends where
\* one of them ends, and contains them all (interval.go, the loop of
\* Insert).
LEMMA MergeBounds ==
    ASSUME NEW S \in SUBSET Span, Maximal(S), NEW i \in Span
    PROVE  LET m == Merge(S, i)
               near == {h \in S : Touches(h, i)} \cup {i}
           IN  /\ m \in Span
               /\ \E h \in near : m.from = h.from
               /\ \E h \in near : m.to = h.to
               /\ \A h \in near : m.from <= h.from /\ h.to <= m.to
<1> DEFINE touching == {k \in S : Touches(k, i)}
           L == {h.from : h \in touching} \cup {i.from}
           G == {h.to : h \in touching} \cup {i.to}
           m == Merge(S, i)
<1>1. Least(L) \in L /\ \A y \in L : Least(L) <= y
  <2>1. \E x \in L : \A y \in L : x <= y
    BY LeastExists
  <2> QED BY <2>1 DEF Least
<1>2. Greatest(G) \in G /\ \A y \in G : y <= Greatest(G)
  <2>1. \E x \in G : \A y \in G : y <= x
    BY GreatestExists
  <2> QED BY <2>1 DEF Greatest
<1>3. m = [from |-> Least(L), to |-> Greatest(G)]
  BY DEF Merge
<1>4. m.from = Least(L) /\ m.to = Greatest(G)
  BY <1>3
<1>5. L \subseteq Int /\ G \subseteq Int
  BY DEF Span
<1>6. m \in Span
  BY <1>1, <1>2, <1>3, <1>5 DEF Span
<1> QED BY <1>1, <1>2, <1>4, <1>6

\* Inserting a span adds exactly its instants (interval.go, Insert).
LEMMA InsertPointwise ==
    ASSUME NEW S \in SUBSET Span, Maximal(S), NEW i \in Span
    PROVE  \A t \in Int : Holds(Insert(S, i), t) <=> Holds(S, t) \/ Contains(i, t)
<1>1. CASE Covers(S, i)
  BY <1>1, CoversPointwise DEF Insert
<1>2. CASE ~ Covers(S, i)
  <2> DEFINE m == Merge(S, i)
             far == {h \in S : ~ Touches(h, i)}
  <2>1. /\ m \in Span
        /\ \E h \in {k \in S : Touches(k, i)} \cup {i} : m.from = h.from
        /\ \E h \in {k \in S : Touches(k, i)} \cup {i} : m.to = h.to
        /\ \A h \in {k \in S : Touches(k, i)} \cup {i} :
              m.from <= h.from /\ h.to <= m.to
    BY MergeBounds
  <2>2. ~ Empty(i)
    BY <1>2 DEF Covers
  <2>3. Insert(S, i) = far \cup {m}
    BY <1>2 DEF Insert
  <2> HIDE DEF m
  <2> SUFFICES ASSUME NEW t \in Int
               PROVE  Holds(far \cup {m}, t) <=> Holds(S, t) \/ Contains(i, t)
    BY <2>3
  <2>4. ASSUME Contains(m, t) PROVE Holds(S, t) \/ Contains(i, t)
    <3>1. PICK lo \in {k \in S : Touches(k, i)} \cup {i} : m.from = lo.from
      BY <2>1
    <3>2. PICK hi \in {k \in S : Touches(k, i)} \cup {i} : m.to = hi.to
      BY <2>1
    <3>3. \/ Contains(lo, t) \/ Contains(hi, t) \/ Contains(i, t)
      BY <2>1, <2>2, <2>4, <3>1, <3>2 DEF Contains, Touches, Empty, Span
    <3> QED BY <3>3 DEF Holds
  <2>5. ASSUME NEW h \in S, Touches(h, i), Contains(h, t) PROVE Contains(m, t)
    BY <2>1, <2>5 DEF Contains, Span
  <2>6. Contains(i, t) => Contains(m, t)
    BY <2>1 DEF Contains, Span
  <2> QED BY <2>4, <2>5, <2>6 DEF Holds
<1> QED BY <1>1, <1>2

\* Inserting keeps a set of spans maximal (interval.go, the type Set).
LEMMA InsertMaximal ==
    ASSUME NEW S \in SUBSET Span, Maximal(S), NEW i \in Span
    PROVE  Insert(S, i) \in SUBSET Span /\ Maximal(Insert(S, i))
<1>1. CASE Covers(S, i)
  BY <1>1 DEF Insert
<1>2. CASE ~ Covers(S, i)
  <2> DEFINE m == Merge(S, i)
             near == {k \in S : Touches(k, i)} \cup {i}
             far == {h \in S : ~ Touches(h, i)}
  <2>1. /\ m \in Span
        /\ \E h \in near : m.from = h.from
        /\ \E h \in near : m.to = h.to
        /\ \A h \in near : m.from <= h.from /\ h.to <= m.to
    BY MergeBounds
  <2>2. Insert(S, i) = far \cup {m}
    BY <1>2 DEF Insert
  <2>3. ~ Empty(i)
    BY <1>2 DEF Covers
  <2> HIDE DEF m
  <2>4. ~ Empty(m)
    BY <2>1, <2>3 DEF Empty, Span
  <2>5. ASSUME NEW h \in far PROVE ~ Touches(h, m) /\ ~ Touches(m, h)
    <3>1. PICK lo \in near : m.from = lo.from
      BY <2>1
    <3>2. PICK hi \in near : m.to = hi.to
      BY <2>1
    <3>3. ~ Touches(h, i) /\ ~ Touches(i, h) /\ ~ Empty(h)
      BY DEF Maximal, Touches, Span
    <3>4. ASSUME NEW k \in near
          PROVE  ~ Touches(h, k) /\ ~ Touches(k, h)
      BY <3>3 DEF Maximal, Touches, Span
    <3>5. ASSUME NEW k \in near
          PROVE  k = i \/ Touches(k, i)
      OBVIOUS
    <3>6. h \in Span /\ lo \in Span /\ hi \in Span
      OBVIOUS
    <3>7. ~ Touches(h, lo) /\ ~ Touches(h, hi)
      BY <3>4
    <3>8. (lo = i \/ Touches(lo, i)) /\ (hi = i \/ Touches(hi, i))
      BY <3>5
    <3>9. ~ Empty(lo) /\ ~ Empty(hi)
      BY <2>3 DEF Maximal
    <3> QED
      BY <2>1, <2>3, <3>1, <3>2, <3>3, <3>6, <3>7, <3>8, <3>9
      DEF Touches, Empty, Span
  <2>6. \A h \in far \cup {m} : ~ Empty(h)
    BY <2>4 DEF Maximal
  <2>7. \A h, k \in far \cup {m} : h # k => ~ Touches(h, k)
    BY <2>5 DEF Maximal
  <2> QED BY <2>1, <2>2, <2>6, <2>7 DEF Maximal
<1> QED BY <1>1, <1>2

-----------------------------------------------------------------------------
(* Checkpoint files.                                                       *)

\* A file only the last line of which can be torn, as one line after another
\* makes it.  A sound line has its line break.
WellFormed(f) ==
    /\ f \in Seq(Line)
    /\ \A k \in 1 .. Len(f) : k < Len(f) => f[k].whole
    /\ \A l \in LinesOf(f) : l.sound => l.whole

\* The texts of the lines that were torn and then completed by another name.
JoinedTexts(f) == {l.text : l \in {m \in LinesOf(f) : m.whole /\ ~ m.sound}}

\* What a file may say in the r-th run when the work of the names P is in the
\* graph: its sound lines claim only names of P, and each of the runs before
\* left one line at most that is not sound.  While the program runs (live) a
\* torn line is one of those; when it is down the run may have torn it.
Honest(f, P, r, live) ==
    /\ WellFormed(f)
    /\ r \in Nat
    /\ SoundClaims(f) \subseteq P
    /\ IsFiniteSet(JoinedTexts(f))
    /\ Cardinality(JoinedTexts(f)) + (IF live /\ EndsTorn(f) THEN 1 ELSE 0) < r

\* What the memory D of the r-th run may say: fewer than r names are wrong.
Remembers(D, P, r) ==
    /\ IsFiniteSet(D \ P)
    /\ Cardinality(D \ P) < r

-----------------------------------------------------------------------------
(* The lines of a file.                                                    *)

\* A line that was appended is among the lines, and the others are too.
LEMMA LinesOfAppend ==
    ASSUME NEW T, NEW f \in Seq(T), NEW l \in T
    PROVE  LinesOf(Append(f, l)) = LinesOf(f) \cup {l}
<1>1. /\ Len(f) \in Nat
      /\ Len(Append(f, l)) = Len(f) + 1
      /\ Append(f, l)[Len(f) + 1] = l
      /\ \A k \in 1 .. Len(f) : Append(f, l)[k] = f[k]
  OBVIOUS
<1>2. \A k : k \in 1 .. Len(f) + 1 <=> k \in 1 .. Len(f) \/ k = Len(f) + 1
  BY <1>1
<1> QED BY <1>1, <1>2 DEF LinesOf

\* The empty file.
LEMMA EmptyFile ==
    /\ WellFormed(<< >>) /\ LinesOf(<< >>) = {} /\ ~ EndsTorn(<< >>)
    /\ Claims(<< >>) = {} /\ SoundClaims(<< >>) = {} /\ JoinedTexts(<< >>) = {}
<1>1. << >> \in Seq(Line) /\ Len(<< >>) = 0
  OBVIOUS
<1>2. LinesOf(<< >>) = {}
  BY <1>1 DEF LinesOf
<1> QED BY <1>1, <1>2 DEF WellFormed, EndsTorn, Claims, SoundClaims, JoinedTexts

\* The lines before a torn one, and all lines when none is torn.
LEMMA CutIsWellFormed ==
    ASSUME NEW f, WellFormed(f), NEW m \in 0 .. Len(f), m < Len(f) \/ ~ EndsTorn(f)
    PROVE  /\ WellFormed(SubSeq(f, 1, m)) /\ ~ EndsTorn(SubSeq(f, 1, m))
           /\ Len(SubSeq(f, 1, m)) = m
           /\ \A k \in 1 .. m : SubSeq(f, 1, m)[k] = f[k] /\ k \in 1 .. Len(f)
           /\ LinesOf(SubSeq(f, 1, m)) \subseteq {l \in LinesOf(f) : l.whole}
<1> DEFINE g == SubSeq(f, 1, m)
<1>1. f \in Seq(Line) /\ Len(f) \in Nat /\ m \in Nat /\ m <= Len(f)
  BY DEF WellFormed
<1>2. /\ g \in Seq(Line) /\ Len(g) = m
      /\ \A k \in 1 .. m : g[k] = f[k] /\ k \in 1 .. Len(f)
  BY <1>1
<1> HIDE DEF g
<1>3. ASSUME NEW k \in 1 .. m PROVE f[k].whole
  <2>1. CASE k < Len(f)
    BY <1>2, <1>3, <2>1 DEF WellFormed
  <2>2. CASE k = Len(f)
    <3>1. ~ EndsTorn(f) /\ f # << >>
      BY <1>1, <1>3, <2>2
    <3> QED BY <2>2, <3>1 DEF EndsTorn
  <2> QED BY <1>1, <1>3, <2>1, <2>2
<1>4. ASSUME NEW l \in LinesOf(g) PROVE l \in LinesOf(f) /\ l.whole
  <2>1. PICK k \in 1 .. m : l = g[k]
    BY <1>2, <1>4 DEF LinesOf
  <2> QED BY <1>2, <1>3, <2>1 DEF LinesOf
<1>5. ~ EndsTorn(g)
  <2>1. SUFFICES ASSUME g # << >> PROVE g[m].whole
    BY <1>2 DEF EndsTorn
  <2>2. m \in 1 .. m
    BY <1>1, <1>2, <2>1
  <2> QED BY <1>2, <1>3, <2>2
<1>6. WellFormed(g)
  BY <1>2, <1>3, <1>4 DEF WellFormed
<1> QED BY <1>2, <1>4, <1>5, <1>6 DEF g

\* What the lines with a line break and a text behind them make up.
LEMMA ClosedPart ==
    ASSUME NEW f, WellFormed(f)
    PROVE  /\ WellFormed(EndedLines(f)) /\ ~ EndsTorn(EndedLines(f))
           /\ Dangling(f) \in Seq(Pieces)
           /\ LinesOf(EndedLines(f)) = {l \in LinesOf(f) : l.whole}
           /\ LinesOf(f) \ LinesOf(EndedLines(f)) \subseteq
                 IF EndsTorn(f) THEN {f[Len(f)]} ELSE {}
<1>1. f \in Seq(Line) /\ Len(f) \in Nat
  BY DEF WellFormed
<1>2. CASE EndsTorn(f)
  <2> DEFINE m == Len(f) - 1
  <2>1. /\ Len(f) \in 1 .. Len(f) /\ ~ f[Len(f)].whole /\ f[Len(f)] \in Line
        /\ m \in 0 .. Len(f) /\ m < Len(f)
    BY <1>1, <1>2 DEF EndsTorn
  <2>2. EndedLines(f) = SubSeq(f, 1, m) /\ Dangling(f) = f[Len(f)].text
    BY <1>2 DEF EndedLines, Dangling
  <2>3. \A k \in 1 .. Len(f) : k = Len(f) \/ k \in 1 .. m
    BY <1>1
  <2> HIDE DEF m
  <2>4. /\ WellFormed(SubSeq(f, 1, m)) /\ ~ EndsTorn(SubSeq(f, 1, m))
        /\ Len(SubSeq(f, 1, m)) = m
        /\ \A k \in 1 .. m : SubSeq(f, 1, m)[k] = f[k]
        /\ LinesOf(SubSeq(f, 1, m)) \subseteq {l \in LinesOf(f) : l.whole}
    BY <2>1, CutIsWellFormed
  <2>5. ASSUME NEW l \in LinesOf(f) PROVE l = f[Len(f)] \/ l \in LinesOf(SubSeq(f, 1, m))
    <3>1. PICK k \in 1 .. Len(f) : l = f[k]
      BY <2>5 DEF LinesOf
    <3> QED BY <2>3, <2>4, <3>1 DEF LinesOf
  <2>6. Dangling(f) \in Seq(Pieces)
    BY <2>1, <2>2 DEF Line
  <2> QED BY <1>2, <2>1, <2>2, <2>4, <2>5, <2>6
<1>3. CASE ~ EndsTorn(f)
  <2>1. EndedLines(f) = f /\ Dangling(f) = << >>
    BY <1>3 DEF EndedLines, Dangling
  <2>2. SubSeq(f, 1, Len(f)) = f
    BY <1>1
  <2>3. LinesOf(f) \subseteq {l \in LinesOf(f) : l.whole}
    <3>1. Len(f) \in 0 .. Len(f)
      BY <1>1
    <3>2. LinesOf(SubSeq(f, 1, Len(f))) \subseteq {l \in LinesOf(f) : l.whole}
      BY <1>3, <3>1, CutIsWellFormed
    <3> QED BY <2>2, <3>2
  <2> QED BY <1>3, <2>1, <2>3
<1> QED BY <1>2, <1>3

\* One more line behind lines that have their line breaks.
LEMMA OneLineMore ==
    ASSUME NEW f, WellFormed(f), ~ EndsTorn(f), NEW l \in Line, l.sound => l.whole
    PROVE  /\ WellFormed(Append(f, l))
           /\ EndsTorn(Append(f, l)) <=> ~ l.whole
           /\ LinesOf(Append(f, l)) = LinesOf(f) \cup {l}
           /\ Len(Append(f, l)) = Len(f) + 1
           /\ \A k \in 1 .. Len(f) : Append(f, l)[k] = f[k]
<1> DEFINE g == Append(f, l)
<1>1. f \in Seq(Line) /\ Len(f) \in Nat
  BY DEF WellFormed
<1>2. /\ g \in Seq(Line) /\ Len(g) = Len(f) + 1
      /\ \A k \in 1 .. Len(f) : g[k] = f[k]
      /\ g[Len(g)] = l /\ g # << >>
  BY <1>1
<1>3. LinesOf(g) = LinesOf(f) \cup {l}
  BY <1>1, LinesOfAppend
<1> HIDE DEF g
<1>4. \A k \in 1 .. Len(f) : f[k].whole
  <2>1. ASSUME NEW k \in 1 .. Len(f) PROVE f[k] \in LinesOf(f)
    BY DEF LinesOf
  <2>2. LinesOf(f) = LinesOf(EndedLines(f)) /\ LinesOf(EndedLines(f)) = {m \in LinesOf(f) : m.whole}
    BY ClosedPart DEF EndedLines
  <2> QED BY <2>1, <2>2
<1>5. \A k \in 1 .. Len(g) : k < Len(g) => g[k].whole
  <2>1. \A k \in 1 .. Len(g) : k < Len(g) => k \in 1 .. Len(f)
    BY <1>1, <1>2
  <2> QED BY <1>2, <1>4, <2>1
<1>6. WellFormed(g)
  BY <1>2, <1>3, <1>5 DEF WellFormed
<1>7. EndsTorn(g) <=> ~ l.whole
  BY <1>2 DEF EndsTorn
<1> QED BY <1>2, <1>3, <1>6, <1>7 DEF g

\* The first pieces of a text are a text.
LEMMA BeginningIsText ==
    ASSUME NEW x \in Seq(Pieces), NEW b \in Beginnings(x)
    PROVE  b \in Seq(Pieces) /\ Torn(b) \in Line
<1>1. PICK k \in 1 .. Len(x) : b = SubSeq(x, 1, k)
  BY DEF Beginnings
<1>2. b \in Seq(Pieces)
  BY <1>1
<1> QED BY <1>2 DEF Torn, Line

\* What Record writes: one line behind those that have their line break, which
\* is of its name and sound if no torn line was there to join.
LEMMA WritesOneLine ==
    ASSUME NEW f, WellFormed(f), NEW n \in Names
    PROVE  \E l \in Line :
              /\ WriteLine(f, n) = Append(EndedLines(f), l)
              /\ l.whole
              /\ l.sound <=> ~ EndsTorn(f)
              /\ ~ EndsTorn(f) => l.text = n
<1> DEFINE l == [text |-> Dangling(f) \o n, whole |-> TRUE, sound |-> ~ EndsTorn(f)]
<1>1. n \in Seq(Pieces)
  BY CheckpointAssumption
<1>2. l \in Line
  BY <1>1, ClosedPart DEF Line
<1>3. ~ EndsTorn(f) => Dangling(f) \o n = n
  BY <1>1 DEF Dangling
<1>4. WriteLine(f, n) = Append(EndedLines(f), l)
  BY DEF WriteLine
<1> QED BY <1>2, <1>3, <1>4

\* What a write leaves that stops half way.
LEMMA TearsOneLine ==
    ASSUME NEW f, WellFormed(f), NEW n \in Names, NEW g \in TornWrites(f, n)
    PROVE  \E l \in Line : g = Append(EndedLines(f), l) /\ ~ l.whole /\ ~ l.sound
<1>1. PICK b \in Beginnings(n) : g = Append(EndedLines(f), Torn(Dangling(f) \o b))
  BY DEF TornWrites
<1>2. n \in Seq(Pieces)
  BY CheckpointAssumption
<1>3. b \in Seq(Pieces)
  BY <1>2, BeginningIsText
<1>4. Dangling(f) \o b \in Seq(Pieces)
  BY <1>3, ClosedPart
<1> DEFINE l == Torn(Dangling(f) \o b)
<1>5. l \in Line /\ ~ l.whole /\ ~ l.sound
  BY <1>4 DEF Torn, Line
<1> QED BY <1>1, <1>5

\* What a power failure leaves: the file, some lines before its last, or some
\* lines and a torn one.
LEMMA LosesLines ==
    ASSUME NEW f, WellFormed(f), NEW s \in Nat, NEW g \in AfterPowerLoss(f, s)
    PROVE  \/ g = f
           \/ \E m \in s .. Len(f) - 1 :
                 /\ m \in 0 .. Len(f) /\ m < Len(f)
                 /\ \/ g = SubSeq(f, 1, m)
                    \/ \E l \in Line : g = Append(SubSeq(f, 1, m), l) /\ ~ l.whole /\ ~ l.sound
<1> DEFINE kept == {SubSeq(f, 1, m) : m \in s .. Len(f)}
           torn(h) == {Append(h, Torn(b)) : b \in Beginnings(f[Len(h) + 1].text)}
<1>1. f \in Seq(Line) /\ Len(f) \in Nat
  BY DEF WellFormed
<1>2. ASSUME NEW m \in s .. Len(f), m < Len(f)
      PROVE  m \in s .. Len(f) - 1 /\ m \in 0 .. Len(f)
  BY <1>1, <1>2
<1>3. CASE g \in kept
  <2>1. PICK m \in s .. Len(f) : g = SubSeq(f, 1, m)
    BY <1>3
  <2>2. m = Len(f) => g = f
    BY <1>1, <2>1
  <2> QED BY <1>1, <1>2, <2>1, <2>2
<1>4. CASE \E h \in kept : Len(h) < Len(f) /\ g \in torn(h)
  <2>1. PICK h \in kept : Len(h) < Len(f) /\ g \in torn(h)
    BY <1>4
  <2>2. PICK m \in s .. Len(f) : h = SubSeq(f, 1, m)
    BY <2>1
  <2>3. Len(h) = m
    BY <1>1, <2>2
  <2>4. f[m + 1] \in Line
    BY <1>1, <2>1, <2>3
  <2>5. PICK b \in Beginnings(f[m + 1].text) : g = Append(h, Torn(b))
    BY <2>1, <2>3
  <2>6. Torn(b) \in Line /\ ~ Torn(b).whole /\ ~ Torn(b).sound
    BY <2>4, <2>5, BeginningIsText DEF Line, Torn
  <2> QED BY <1>2, <2>1, <2>2, <2>3, <2>5, <2>6
<1>5. g \in kept \/ \E h \in kept : Len(h) < Len(f) /\ g \in torn(h)
  BY DEF AfterPowerLoss
<1> QED BY <1>3, <1>4, <1>5

-----------------------------------------------------------------------------
(* Files that claim too much, and how little.                              *)

\* A set with one more element.
LEMMA OneElementMore ==
    ASSUME NEW S, IsFiniteSet(S), NEW x
    PROVE  /\ IsFiniteSet(S \cup {x})
           /\ Cardinality(S) \in Nat /\ Cardinality(S \cup {x}) \in Nat
           /\ Cardinality(S \cup {x}) <= Cardinality(S) + 1
<1>1. /\ IsFiniteSet(S \cup {x}) /\ Cardinality(S) \in Nat
      /\ \/ Cardinality(S \cup {x}) = Cardinality(S)
         \/ Cardinality(S \cup {x}) = Cardinality(S) + 1
  BY FS_AddElement, FS_CardinalityType
<1> QED BY <1>1

\* Fewer texts were joined when fewer lines are.
LEMMA FewerJoined ==
    ASSUME NEW f, NEW P, NEW r, NEW live, Honest(f, P, r, live), NEW g, WellFormed(g),
           SoundClaims(g) \subseteq P, JoinedTexts(g) \subseteq JoinedTexts(f)
    PROVE  /\ Honest(g, P, r, FALSE)
           /\ ~ EndsTorn(g) => Honest(g, P, r, TRUE)
<1> DEFINE c == Cardinality(JoinedTexts(f))
           d == Cardinality(JoinedTexts(g))
<1>1. /\ IsFiniteSet(JoinedTexts(f)) /\ c < r /\ r \in Nat /\ c \in Nat
  BY FS_CardinalityType DEF Honest
<1>2. IsFiniteSet(JoinedTexts(g)) /\ d <= c /\ d \in Nat
  BY <1>1, FS_Subset, FS_CardinalityType
<1>3. d < r
  BY <1>1, <1>2
<1> QED BY <1>1, <1>2, <1>3 DEF Honest

\* More work in the graph, and another run.
LEMMA HonestStays ==
    ASSUME NEW f, NEW P, NEW r, NEW live, Honest(f, P, r, live),
           NEW Q, SoundClaims(f) \cap P \subseteq Q
    PROVE  /\ Honest(f, Q, r, live) /\ Honest(f, Q, r, FALSE)
           /\ Honest(f, Q, r + 1, TRUE)
<1>1. Cardinality(JoinedTexts(f)) \in Nat
  BY FS_CardinalityType DEF Honest
<1> QED BY <1>1 DEF Honest

\* Nothing is claimed yet.
LEMMA HonestAtFirst ==
    ASSUME NEW P, NEW live, NEW r \in Nat \ {0}
    PROVE  Honest(<< >>, P, r, live) /\ Remembers({}, P, r)
BY EmptyFile, FS_EmptySet DEF Honest, Remembers

\* Record, of a name whose work is done.
LEMMA HonestRecord ==
    ASSUME NEW f, NEW P, NEW r, Honest(f, P, r, TRUE), NEW n \in Names, n \in P
    PROVE  Honest(WriteLine(f, n), P, r, TRUE)
<1>1. WellFormed(f) /\ IsFiniteSet(JoinedTexts(f)) /\ r \in Nat
  BY DEF Honest
<1>2. PICK l \in Line : /\ WriteLine(f, n) = Append(EndedLines(f), l)
                        /\ l.whole
                        /\ l.sound <=> ~ EndsTorn(f)
                        /\ ~ EndsTorn(f) => l.text = n
  BY <1>1, WritesOneLine
<1> DEFINE g == Append(EndedLines(f), l)
<1>3. WellFormed(g) /\ ~ EndsTorn(g) /\ LinesOf(g) = LinesOf(EndedLines(f)) \cup {l}
  BY <1>1, <1>2, ClosedPart, OneLineMore
<1>4. LinesOf(g) \subseteq LinesOf(f) \cup {l}
  BY <1>1, <1>3, ClosedPart
<1> HIDE DEF g
<1>5. SoundClaims(g) \subseteq SoundClaims(f) \cup {n}
  BY <1>2, <1>4 DEF SoundClaims
<1>6. CASE EndsTorn(f)
  <2>1. JoinedTexts(g) \subseteq JoinedTexts(f) \cup {l.text}
    BY <1>4 DEF JoinedTexts
  <2> DEFINE J == JoinedTexts(f) \cup {l.text}
  <2>2. /\ IsFiniteSet(J) /\ Cardinality(J) \in Nat /\ Cardinality(JoinedTexts(f)) \in Nat
        /\ Cardinality(J) <= Cardinality(JoinedTexts(f)) + 1
    BY <1>1, OneElementMore
  <2> HIDE DEF J
  <2>3. IsFiniteSet(JoinedTexts(g)) /\ Cardinality(JoinedTexts(g)) <= Cardinality(J)
        /\ Cardinality(JoinedTexts(g)) \in Nat
    BY <2>1, <2>2, FS_Subset, FS_CardinalityType DEF J
  <2>4. Cardinality(JoinedTexts(f)) + 1 < r
    BY <1>6 DEF Honest
  <2>5. Cardinality(JoinedTexts(g)) < r
    BY <1>1, <2>2, <2>3, <2>4
  <2> QED BY <1>1, <1>2, <1>3, <1>5, <2>3, <2>5 DEF Honest, g
<1>7. CASE ~ EndsTorn(f)
  <2>1. JoinedTexts(g) \subseteq JoinedTexts(f)
    BY <1>2, <1>4, <1>7 DEF JoinedTexts
  <2>2. SoundClaims(g) \subseteq P
    BY <1>5 DEF Honest
  <2> QED BY <1>2, <1>3, <2>1, <2>2, FewerJoined DEF g
<1> QED BY <1>6, <1>7

\* Record adds no sound claim but its own.
LEMMA ClaimsOneMore ==
    ASSUME NEW f, WellFormed(f), NEW n \in Names
    PROVE  SoundClaims(WriteLine(f, n)) \subseteq SoundClaims(f) \cup {n}
<1>1. PICK l \in Line : /\ WriteLine(f, n) = Append(EndedLines(f), l)
                        /\ l.whole
                        /\ l.sound <=> ~ EndsTorn(f)
                        /\ ~ EndsTorn(f) => l.text = n
  BY WritesOneLine
<1>2. LinesOf(WriteLine(f, n)) \subseteq LinesOf(f) \cup {l}
  BY <1>1, ClosedPart, OneLineMore
<1> QED BY <1>1, <1>2 DEF SoundClaims

\* Record stops half way, and the run ends.
LEMMA HonestTornWrite ==
    ASSUME NEW f, NEW P, NEW r, NEW live, Honest(f, P, r, live), NEW n \in Names,
           NEW g \in TornWrites(f, n)
    PROVE  Honest(g, P, r, FALSE)
<1>1. WellFormed(f)
  BY DEF Honest
<1>2. PICK l \in Line : g = Append(EndedLines(f), l) /\ ~ l.whole /\ ~ l.sound
  BY <1>1, TearsOneLine
<1>3. WellFormed(g) /\ LinesOf(g) \subseteq LinesOf(f) \cup {l}
  BY <1>1, <1>2, ClosedPart, OneLineMore
<1>4. SoundClaims(g) \subseteq SoundClaims(f) /\ JoinedTexts(g) \subseteq JoinedTexts(f)
  BY <1>2, <1>3 DEF SoundClaims, JoinedTexts
<1>5. SoundClaims(g) \subseteq P
  BY <1>4 DEF Honest
<1> QED BY <1>3, <1>4, <1>5, FewerJoined

\* A power failure adds no line but a torn one.
LEMMA LosesClaims ==
    ASSUME NEW f, WellFormed(f), NEW s \in Nat, NEW g \in AfterPowerLoss(f, s)
    PROVE  /\ WellFormed(g)
           /\ SoundClaims(g) \subseteq SoundClaims(f)
           /\ JoinedTexts(g) \subseteq JoinedTexts(f)
<1>1. CASE g = f
  BY <1>1
<1>2. ASSUME NEW m \in 0 .. Len(f), m < Len(f),
             \/ g = SubSeq(f, 1, m)
             \/ \E l \in Line : g = Append(SubSeq(f, 1, m), l) /\ ~ l.whole /\ ~ l.sound
      PROVE  /\ WellFormed(g)
             /\ \A l \in LinesOf(g) : l.whole => l \in LinesOf(f)
  <2>1. /\ WellFormed(SubSeq(f, 1, m)) /\ ~ EndsTorn(SubSeq(f, 1, m))
        /\ LinesOf(SubSeq(f, 1, m)) \subseteq LinesOf(f)
    BY <1>2, CutIsWellFormed
  <2>2. CASE g = SubSeq(f, 1, m)
    BY <2>1, <2>2
  <2>3. CASE \E l \in Line : g = Append(SubSeq(f, 1, m), l) /\ ~ l.whole /\ ~ l.sound
    <3>1. PICK l \in Line : g = Append(SubSeq(f, 1, m), l) /\ ~ l.whole /\ ~ l.sound
      BY <2>3
    <3>2. WellFormed(g) /\ LinesOf(g) = LinesOf(SubSeq(f, 1, m)) \cup {l}
      BY <2>1, <3>1, OneLineMore
    <3> QED BY <2>1, <3>1, <3>2
  <2> QED BY <1>2, <2>2, <2>3
<1>3. g = f \/ (WellFormed(g) /\ \A l \in LinesOf(g) : l.whole => l \in LinesOf(f))
  BY <1>2, LosesLines
<1>4. CASE WellFormed(g) /\ \A l \in LinesOf(g) : l.whole => l \in LinesOf(f)
  <2>1. \A l \in LinesOf(g) : l.sound => l.whole
    BY <1>4 DEF WellFormed
  <2> QED BY <1>4, <2>1 DEF SoundClaims, JoinedTexts
<1> QED BY <1>1, <1>3, <1>4

LEMMA HonestPowerLoss ==
    ASSUME NEW f, NEW P, NEW r, NEW live, Honest(f, P, r, live), NEW s \in Nat,
           NEW g \in AfterPowerLoss(f, s)
    PROVE  Honest(g, P, r, FALSE)
<1>1. WellFormed(f) /\ SoundClaims(f) \subseteq P
  BY DEF Honest
<1>2. /\ WellFormed(g) /\ SoundClaims(g) \subseteq P
      /\ JoinedTexts(g) \subseteq JoinedTexts(f)
  BY <1>1, LosesClaims
<1> QED BY <1>2, FewerJoined

\* A claim that is wrong is the text of a joined line or of the torn one.
LEMMA FewAreWrong ==
    ASSUME NEW f, NEW P, NEW r, NEW live, Honest(f, P, r, live)
    PROVE  /\ IsFiniteSet(Claims(f) \ P)
           /\ Cardinality(Claims(f) \ P) <= r
           /\ live => Remembers(Claims(f), P, r)
<1> DEFINE W == Claims(f) \ P
           J == JoinedTexts(f)
           t == f[Len(f)].text
           T == IF EndsTorn(f) THEN J \cup {t} ELSE J
<1>1. /\ WellFormed(f) /\ IsFiniteSet(J) /\ r \in Nat /\ Cardinality(J) \in Nat
      /\ SoundClaims(f) \subseteq P
      /\ Cardinality(J) + (IF live /\ EndsTorn(f) THEN 1 ELSE 0) < r
  BY FS_CardinalityType DEF Honest
<1>2. W \subseteq T
  <2>1. SUFFICES ASSUME NEW n \in W PROVE n \in T
    OBVIOUS
  <2>2. PICK l \in LinesOf(f) : l.text = n
    BY <2>1 DEF Claims
  <2>3. ~ l.sound
    BY <1>1, <2>1, <2>2 DEF SoundClaims, Claims
  <2>4. CASE l.whole
    BY <2>2, <2>3, <2>4 DEF JoinedTexts
  <2>5. CASE ~ l.whole
    <3>1. EndsTorn(f) /\ l = f[Len(f)]
      BY <1>1, <2>2, <2>5, ClosedPart
    <3> QED BY <2>2, <3>1
  <2> QED BY <2>4, <2>5
<1> HIDE DEF W, J, t
<1>3. /\ IsFiniteSet(T) /\ Cardinality(T) \in Nat
      /\ Cardinality(T) <= Cardinality(J) + (IF EndsTorn(f) THEN 1 ELSE 0)
  <2>1. /\ IsFiniteSet(J \cup {t})
        /\ Cardinality(J \cup {t}) \in Nat
        /\ Cardinality(J \cup {t}) <= Cardinality(J) + 1
    BY <1>1, OneElementMore
  <2>2. CASE EndsTorn(f)
    BY <2>1, <2>2
  <2>3. CASE ~ EndsTorn(f)
    BY <1>1, <2>3
  <2> QED BY <2>2, <2>3
<1> HIDE DEF T
<1>4. IsFiniteSet(W) /\ Cardinality(W) <= Cardinality(T) /\ Cardinality(W) \in Nat
  BY <1>2, <1>3, FS_Subset, FS_CardinalityType
<1>5. Cardinality(W) <= r /\ (live => Cardinality(W) < r)
  BY <1>1, <1>3, <1>4
<1> QED BY <1>4, <1>5 DEF Remembers, W

\* A memory that forgets names, or of which more are done.
LEMMA RemembersStays ==
    ASSUME NEW D, NEW P, NEW r \in Nat, Remembers(D, P, r),
           NEW E, NEW Q, E \ Q \subseteq D \ P
    PROVE  Remembers(E, Q, r)
<1>1. /\ IsFiniteSet(E \ Q) /\ Cardinality(E \ Q) <= Cardinality(D \ P)
      /\ Cardinality(E \ Q) \in Nat /\ Cardinality(D \ P) \in Nat
  BY FS_Subset, FS_CardinalityType DEF Remembers
<1>2. Cardinality(D \ P) < r
  BY DEF Remembers
<1>3. Cardinality(E \ Q) < r
  BY <1>1, <1>2
<1> QED BY <1>1, <1>3 DEF Remembers

-----------------------------------------------------------------------------
(* What stays of a file.                                                   *)

\* A file of which the first s lines are synced.
FileOK(f, s) ==
    /\ WellFormed(f)
    /\ s \in Nat
    /\ s <= Len(f)
    /\ s = Len(f) => ~ EndsTorn(f)

\* File g has the first s lines of f.
Keeps(f, g, s) == \A k \in 1 .. s : g[k] = f[k]

\* Cutting behind the synced lines, and appending a line there.
LEMMA CutKeeps ==
    ASSUME NEW f, NEW s, FileOK(f, s), NEW m \in s .. Len(f), m < Len(f) \/ ~ EndsTorn(f)
    PROVE  /\ FileOK(SubSeq(f, 1, m), s)
           /\ Keeps(f, SubSeq(f, 1, m), s)
           /\ \A l \in Line : (l.sound => l.whole) =>
                 /\ FileOK(Append(SubSeq(f, 1, m), l), s)
                 /\ Keeps(f, Append(SubSeq(f, 1, m), l), s)
<1> DEFINE g == SubSeq(f, 1, m)
<1>1. /\ Len(f) \in Nat /\ s \in Nat /\ m \in Nat /\ m \in 0 .. Len(f)
      /\ s <= m /\ m <= Len(f) /\ WellFormed(f)
  BY DEF FileOK, WellFormed
<1>2. /\ WellFormed(g) /\ ~ EndsTorn(g) /\ Len(g) = m
      /\ \A k \in 1 .. m : g[k] = f[k]
  BY <1>1, CutIsWellFormed
<1> HIDE DEF g
<1>3. \A k \in 1 .. s : k \in 1 .. m
  BY <1>1
<1>4. FileOK(g, s) /\ Keeps(f, g, s)
  BY <1>1, <1>2, <1>3 DEF FileOK, Keeps
<1>5. ASSUME NEW l \in Line, l.sound => l.whole
      PROVE  FileOK(Append(g, l), s) /\ Keeps(f, Append(g, l), s)
  <2>1. /\ WellFormed(Append(g, l)) /\ Len(Append(g, l)) = m + 1
        /\ \A k \in 1 .. m : Append(g, l)[k] = g[k]
    BY <1>2, <1>5, OneLineMore
  <2>2. s <= Len(Append(g, l)) /\ s # Len(Append(g, l))
    BY <1>1, <2>1
  <2> QED BY <1>1, <1>2, <1>3, <2>1, <2>2 DEF FileOK, Keeps
<1> QED BY <1>4, <1>5 DEF g

\* A torn last line is not synced, and what joins it touches no other.
LEMMA ClosedKeeps ==
    ASSUME NEW f, NEW s, FileOK(f, s), NEW l \in Line, l.sound => l.whole
    PROVE  /\ FileOK(Append(EndedLines(f), l), s)
           /\ Keeps(f, Append(EndedLines(f), l), s)
<1>1. Len(f) \in Nat /\ s \in Nat /\ s <= Len(f) /\ f \in Seq(Line)
  BY DEF FileOK, WellFormed
<1>2. CASE EndsTorn(f)
  <2>1. s < Len(f)
    BY <1>1, <1>2 DEF FileOK
  <2>2. Len(f) - 1 \in s .. Len(f) /\ Len(f) - 1 < Len(f)
    BY <1>1, <2>1
  <2>3. EndedLines(f) = SubSeq(f, 1, Len(f) - 1)
    BY <1>2 DEF EndedLines
  <2> QED BY <2>2, <2>3, CutKeeps
<1>3. CASE ~ EndsTorn(f)
  <2>1. Len(f) \in s .. Len(f) /\ SubSeq(f, 1, Len(f)) = f /\ EndedLines(f) = f
    BY <1>1, <1>3 DEF EndedLines
  <2> QED BY <1>3, <2>1, CutKeeps
<1> QED BY <1>2, <1>3

\* The claims of the synced lines, in whatever file they are kept.
LEMMA DurableClaims ==
    ASSUME NEW f, NEW g, NEW s, FileOK(f, s), FileOK(g, s), Keeps(f, g, s)
    PROVE  /\ SoundClaims(SubSeq(g, 1, s)) = SoundClaims(SubSeq(f, 1, s))
           /\ SoundClaims(SubSeq(f, 1, s)) \subseteq SoundClaims(g)
<1>1. ASSUME NEW h, FileOK(h, s)
      PROVE  /\ LinesOf(SubSeq(h, 1, s)) = {h[k] : k \in 1 .. s}
             /\ \A k \in 1 .. s : h[k] \in LinesOf(h)
  <2>1. h \in Seq(Line) /\ Len(h) \in Nat /\ s \in Nat /\ s <= Len(h)
    BY <1>1 DEF FileOK, WellFormed
  <2>2. /\ Len(SubSeq(h, 1, s)) = s
        /\ \A k \in 1 .. s : SubSeq(h, 1, s)[k] = h[k] /\ k \in 1 .. Len(h)
    BY <2>1
  <2> QED BY <2>2 DEF LinesOf
<1>2. {g[k] : k \in 1 .. s} = {f[k] : k \in 1 .. s}
  BY DEF Keeps
<1>3. LinesOf(SubSeq(g, 1, s)) = LinesOf(SubSeq(f, 1, s))
  BY <1>1, <1>2
<1>4. LinesOf(SubSeq(f, 1, s)) \subseteq LinesOf(g)
  BY <1>1 DEF Keeps
<1> QED BY <1>3, <1>4 DEF SoundClaims

\* Record adds its name to the sound claims, or joins a line that was not
\* synced.  It touches no sound line.
LEMMA WriteLineKeeps ==
    ASSUME NEW f, NEW s, NEW n \in Names, FileOK(f, s)
    PROVE  /\ FileOK(WriteLine(f, n), s)
           /\ Keeps(f, WriteLine(f, n), s)
           /\ ~ EndsTorn(WriteLine(f, n))
           /\ SoundClaims(WriteLine(f, n))
                 = SoundClaims(f) \cup IF EndsTorn(f) THEN {} ELSE {n}
<1>1. WellFormed(f)
  BY DEF FileOK
<1>2. PICK l \in Line : /\ WriteLine(f, n) = Append(EndedLines(f), l)
                        /\ l.whole
                        /\ l.sound <=> ~ EndsTorn(f)
                        /\ ~ EndsTorn(f) => l.text = n
  BY <1>1, WritesOneLine
<1>3. /\ FileOK(WriteLine(f, n), s) /\ Keeps(f, WriteLine(f, n), s)
  BY <1>2, ClosedKeeps
<1>4. /\ ~ EndsTorn(WriteLine(f, n))
      /\ LinesOf(WriteLine(f, n)) = {m \in LinesOf(f) : m.whole} \cup {l}
  BY <1>1, <1>2, ClosedPart, OneLineMore
<1>5. \A m \in LinesOf(f) : m.sound => m.whole
  BY <1>1 DEF WellFormed
<1>6. CASE EndsTorn(f)
  BY <1>2, <1>3, <1>4, <1>5, <1>6 DEF SoundClaims
<1>7. CASE ~ EndsTorn(f)
  BY <1>2, <1>3, <1>4, <1>5, <1>7 DEF SoundClaims
<1> QED BY <1>6, <1>7

\* So does a write that stops half way.
LEMMA TornWriteKeeps ==
    ASSUME NEW f, NEW s, NEW n \in Names, FileOK(f, s), NEW g \in TornWrites(f, n)
    PROVE  FileOK(g, s) /\ Keeps(f, g, s) /\ SoundClaims(g) = SoundClaims(f)
<1>1. WellFormed(f)
  BY DEF FileOK
<1>2. PICK l \in Line : g = Append(EndedLines(f), l) /\ ~ l.whole /\ ~ l.sound
  BY <1>1, TearsOneLine
<1>3. FileOK(g, s) /\ Keeps(f, g, s)
  BY <1>2, ClosedKeeps
<1>4. LinesOf(g) = {m \in LinesOf(f) : m.whole} \cup {l}
  BY <1>1, <1>2, ClosedPart, OneLineMore
<1>5. \A m \in LinesOf(f) : m.sound => m.whole
  BY <1>1 DEF WellFormed
<1> QED BY <1>2, <1>3, <1>4, <1>5 DEF SoundClaims

\* A power failure takes lines behind the synced ones only.
LEMMA PowerLossKeeps ==
    ASSUME NEW f, NEW s, FileOK(f, s), NEW g \in AfterPowerLoss(f, s)
    PROVE  FileOK(g, s) /\ Keeps(f, g, s) /\ SoundClaims(g) \subseteq SoundClaims(f)
<1>1. WellFormed(f) /\ s \in Nat /\ Len(f) \in Nat
  BY DEF FileOK, WellFormed
<1>2. SoundClaims(g) \subseteq SoundClaims(f)
  BY <1>1, LosesClaims
<1>3. CASE g = f
  BY <1>2, <1>3 DEF Keeps
<1>4. CASE \E m \in s .. Len(f) - 1 :
              /\ m \in 0 .. Len(f) /\ m < Len(f)
              /\ \/ g = SubSeq(f, 1, m)
                 \/ \E l \in Line : g = Append(SubSeq(f, 1, m), l) /\ ~ l.whole /\ ~ l.sound
  <2>1. PICK m \in s .. Len(f) - 1 :
              /\ m \in 0 .. Len(f) /\ m < Len(f)
              /\ \/ g = SubSeq(f, 1, m)
                 \/ \E l \in Line : g = Append(SubSeq(f, 1, m), l) /\ ~ l.whole /\ ~ l.sound
    BY <1>4
  <2>2. m \in s .. Len(f)
    BY <1>1, <2>1
  <2> QED BY <1>2, <2>1, <2>2, CutKeeps
<1> QED BY <1>1, <1>3, <1>4, LosesLines

=============================================================================
