----------------------------- MODULE AuditProofs -----------------------------
(***************************************************************************)
(* Proofs about module Audit, and about the MAINTAINS edges of module      *)
(* Maintainers that its answers rest on.                                   *)
(*                                                                         *)
(* The argument.  A search is a set of live paths, at each instant, so the *)
(* roster is pointwise because every row is cut exactly once, to all of    *)
(* what was reached (RequestInv).  The inverse question walks the same     *)
(* paths backwards; a proof is a path whose spans share an instant; an     *)
(* account cuts what no path avoiding its versions reaches.  A score is a  *)
(* mean over the known terms, in whatever order they are summed.           *)
(***************************************************************************)
EXTENDS Audit, DataProofs

-----------------------------------------------------------------------------
(* The edges that ingests leave.                                           *)

\* A set of naturals none of which is beyond b has a greatest member.
LEMMA GreatestBelow ==
    ASSUME NEW S \in SUBSET Nat, NEW b \in Nat, S # {}, \A x \in S : x <= b
    PROVE  Greatest(S) \in S /\ \A x \in S : x <= Greatest(S)
<1> DEFINE T == {b - x : x \in S}
<1>1. T \in SUBSET Nat /\ T # {}
  <2>1. PICK x \in S : TRUE
    OBVIOUS
  <2>2. b - x \in T
    BY <2>1
  <2>3. \A y \in S : b - y \in Nat
    OBVIOUS
  <2> QED BY <2>2, <2>3
<1>2. Least(T) \in T /\ \A y \in T : Least(T) <= y
  BY <1>1, LeastNatural
<1>3. PICK g \in S : Least(T) = b - g
  BY <1>2
<1>4. \A x \in S : b - g <= b - x
  BY <1>2, <1>3
<1>5. \A x \in S : x <= g
  BY <1>4
<1> QED BY <1>5 DEF Greatest

\* What one package's documents say: of each instant, one.
Documents(obs) ==
    /\ obs \subseteq Release
    /\ \A r, o \in obs : r.published = o.published => r = o

\* An account has a spell that covers an instant exactly if the last
\* observation up to that instant listed it (rows.go, spells).
LEMMA SpellsPointwise ==
    ASSUME NEW obs, Documents(obs), NEW h, NEW t \in Nat, t < OpenInterval
    PROVE  (\E s \in Spells(obs, h) : Contains(s, t))
              <=> \E r \in Newest({o \in obs : o.published <= t}) : h \in r.listed
<1> DEFINE before == {o \in obs : o.published <= t}
           gone(r) == {o.published : o \in {x \in obs : x.published > r.published
                                                         /\ h \notin x.listed}}
<1>a. \A r \in obs : r.published \in Nat
  BY DEF Documents, Release
<1>b. \A r \in obs : gone(r) \in SUBSET Nat
  BY <1>a
<1>c. \A r \in obs : EndOf(obs, h, r) = IF gone(r) = {} THEN OpenInterval ELSE Least(gone(r))
  BY DEF EndOf
<1>d. \A r \in obs : gone(r) # {} =>
          Least(gone(r)) \in gone(r) /\ \A y \in gone(r) : Least(gone(r)) <= y
  BY <1>b, LeastNatural
<1>e. OpenInterval \in Nat
  BY OpenIntervalAssumption
<1>1. ASSUME NEW s \in Spells(obs, h), Contains(s, t)
      PROVE  \E r \in Newest(before) : h \in r.listed
  <2>1. PICK r \in obs : /\ Begins(obs, h, r)
                         /\ s = [from |-> r.published, to |-> EndOf(obs, h, r)]
    BY DEF Spells
  <2>2. r.published <= t /\ t < EndOf(obs, h, r)
    BY <1>1, <2>1 DEF Contains
  <2>3. h \in r.listed
    BY <2>1 DEF Begins
  <2> DEFINE B == {o.published : o \in before}
  <2>4. Greatest(B) \in B /\ \A x \in B : x <= Greatest(B)
    <3>1. B \in SUBSET Nat /\ B # {} /\ \A x \in B : x <= t
      BY <1>a, <2>2
    <3> QED BY <3>1, GreatestBelow
  <2>5. PICK n \in before : Greatest(B) = n.published
    BY <2>4
  <2>6. n \in Newest(before)
    BY <2>4, <2>5 DEF Newest
  <2>7. h \in n.listed
    <3>1. SUFFICES ASSUME h \notin n.listed PROVE FALSE
      OBVIOUS
    <3>2. r.published <= n.published /\ r.published # n.published
      BY <2>2, <2>3, <2>4, <2>5, <3>1 DEF Documents
    <3>3. n.published \in gone(r)
      BY <1>a, <3>1, <3>2
    <3>4. EndOf(obs, h, r) <= n.published
      BY <1>c, <1>d, <3>3
    <3>5. EndOf(obs, h, r) \in Nat /\ n.published <= t
      BY <1>b, <1>c, <1>d, <3>3
    <3> QED BY <1>a, <2>2, <3>4, <3>5
  <2> QED BY <2>6, <2>7
<1>2. ASSUME NEW n \in Newest(before), h \in n.listed
      PROVE  \E s \in Spells(obs, h) : Contains(s, t)
  <2>1. n \in obs /\ n.published <= t /\ \A o \in before : o.published <= n.published
    BY DEF Newest
  <2> DEFINE run == {o \in obs : /\ h \in o.listed /\ o.published <= n.published
                                 /\ \A x \in obs : o.published < x.published
                                                   /\ x.published < n.published => h \in x.listed}
             R == {o.published : o \in run}
  <2>2. Least(R) \in R /\ \A y \in R : Least(R) <= y
    <3>1. n \in run
      <4>1. n.published <= n.published
        BY <1>a, <2>1
      <4>2. \A x \in obs : ~ (n.published < x.published /\ x.published < n.published)
        BY <1>a, <2>1
      <4> QED BY <1>2, <2>1, <4>1, <4>2
    <3>2. R \in SUBSET Nat /\ R # {}
      BY <1>a, <3>1
    <3> QED BY <3>2, LeastNatural
  <2>3. PICK r \in run : Least(R) = r.published
    BY <2>2
  <2>4. ASSUME NEW o \in obs, o.published < r.published, h \in o.listed,
               \A x \in obs : o.published < x.published /\ x.published < r.published
                                 => h \in x.listed
        PROVE  FALSE
    <3>1. ASSUME NEW x \in obs, o.published < x.published, x.published < n.published
          PROVE  h \in x.listed
      <4>1. CASE x.published < r.published
        BY <2>4, <3>1, <4>1
      <4>2. CASE x.published = r.published
        BY <4>2 DEF Documents
      <4>3. CASE r.published < x.published
        BY <3>1, <4>3
      <4> QED BY <1>a, <4>1, <4>2, <4>3
    <3>2. o \in run
      BY <1>a, <2>1, <2>4, <3>1
    <3> QED BY <1>a, <2>2, <2>3, <2>4, <3>2
  <2>5. Begins(obs, h, r)
    BY <2>4 DEF Begins
  <2>6. ASSUME NEW x \in obs, r.published < x.published, h \notin x.listed
        PROVE  t < x.published
    <3>1. SUFFICES ASSUME x.published <= t PROVE FALSE
      BY <1>a
    <3>2. x.published <= n.published
      BY <2>1, <3>1
    <3>3. x.published # n.published
      BY <1>2, <2>1, <2>6 DEF Documents
    <3> QED BY <1>a, <2>1, <2>6, <3>2, <3>3
  <2>7. t < EndOf(obs, h, r)
    BY <1>a, <1>c, <1>d, <2>6
  <2>8. r.published <= t
    BY <1>a, <2>1
  <2> DEFINE s == [from |-> r.published, to |-> EndOf(obs, h, r)]
  <2>9. s \in Spells(obs, h)
    BY <2>5 DEF Spells
  <2>10. Contains(s, t)
    BY <2>7, <2>8 DEF Contains
  <2> QED BY <2>9, <2>10
<1> QED BY <1>1, <1>2

\* The documents an ingest reads of a package are releases of it, and no two
\* are of one instant (epochs.go, versionAt).
LEMMA ObservedDocuments ==
    ASSUME world \in Worlds, NEW p, NEW epochs
    PROVE  Documents(Observed(p, epochs)) /\ Observed(p, epochs) \subseteq ReleasesOf(p)
<1> DEFINE newest(t) == {r \in Candidates(p, t) :
                            \A o \in Candidates(p, t) : o.published <= r.published}
<1>1. ReleasesOf(p) \subseteq Release
  BY MaintainersAssumption DEF ReleasesOf
<1>2. ASSUME NEW t, NEW r \in VersionAt(p, t)
      PROVE  r \in newest(t) /\ r = CHOOSE o \in newest(t) : TRUE
  <2>1. newest(t) # {} /\ r = CHOOSE o \in newest(t) : TRUE
    BY DEF VersionAt
  <2> QED BY <2>1
<1>3. ASSUME NEW r \in Observed(p, epochs) PROVE \E t : r \in VersionAt(p, t)
  BY DEF Observed
<1>4. ASSUME NEW t, NEW r \in newest(t)
      PROVE  r \in ReleasesOf(p) /\ r.published \in Nat
  BY <1>1 DEF Candidates, Release
<1>5. Observed(p, epochs) \subseteq ReleasesOf(p)
  BY <1>2, <1>3, <1>4
<1>6. ASSUME NEW t, NEW u, NEW r \in newest(t), NEW o \in newest(u),
             r.published = o.published
      PROVE  newest(t) = newest(u)
  <2> DEFINE same == {x \in ReleasesOf(p) : x.published > 0 /\ ~ x.pre
                                             /\ x.published = r.published}
  <2>0. \A x \in ReleasesOf(p) : x.published \in Nat
    BY <1>1 DEF Release
  <2>1. newest(t) = same
    BY <2>0 DEF Candidates
  <2>2. newest(u) = same
    BY <1>6, <2>0 DEF Candidates
  <2> QED BY <2>1, <2>2
<1>7. ASSUME NEW r \in Observed(p, epochs), NEW o \in Observed(p, epochs),
             r.published = o.published
      PROVE  r = o
  <2>1. PICK t : r \in VersionAt(p, t)
    BY <1>3
  <2>2. PICK u : o \in VersionAt(p, u)
    BY <1>3
  <2>3. newest(t) = newest(u)
    BY <1>2, <1>6, <1>7, <2>1, <2>2
  <2> HIDE DEF newest
  <2>4. r = (CHOOSE x \in newest(t) : TRUE) /\ o = (CHOOSE x \in newest(u) : TRUE)
    BY <1>2, <2>1, <2>2
  <2> QED BY <2>3, <2>4
<1> QED BY <1>1, <1>5, <1>7 DEF Documents

\* The invariant of the edges: each rests on a sampled document, and those of
\* a single ingest are the spells of what it sampled.
EdgesInv ==
    /\ world \in Worlds /\ ingests \in Nat
    /\ sampled \subseteq world.releases
    /\ maintains \subseteq [handle : Handles, pkg : Packages, valid : Span]
    /\ \A e \in maintains :
          /\ e.valid.to \in {r.published : r \in world.releases} \cup {OpenInterval}
          /\ \E r \in sampled : /\ r.pkg = e.pkg /\ e.handle \in r.listed
                                /\ r.published = e.valid.from
    /\ ingests = 0 => sampled = {} /\ maintains = {}
    /\ ingests = 1 =>
          \E P \in Fetchable, epochs \in EpochSets :
              /\ sampled = UNION {Observed(p, epochs) : p \in P}
              /\ maintains = UNION {MaintainsRows(p, epochs) : p \in P}

\* The rows an ingest makes of a package's documents.
LEMMA RowsAre ==
    ASSUME world \in Worlds, NEW p \in Packages, NEW epochs,
           NEW e \in MaintainsRows(p, epochs)
    PROVE  /\ e \in [handle : Handles, pkg : Packages, valid : Span]
           /\ e.pkg = p /\ e.valid \in Spells(Observed(p, epochs), e.handle)
           /\ e.valid.to \in {r.published : r \in world.releases} \cup {OpenInterval}
           /\ \E r \in Observed(p, epochs) : /\ r.pkg = e.pkg /\ e.handle \in r.listed
                                             /\ r.published = e.valid.from
<1> DEFINE obs == Observed(p, epochs)
<1>1. Documents(obs) /\ obs \subseteq ReleasesOf(p)
  BY ObservedDocuments
<1>0. PICK h \in Handles : e \in {[handle |-> h, pkg |-> p, valid |-> s] : s \in Spells(obs, h)}
  BY DEF MaintainsRows
<1>2. PICK s \in Spells(obs, h) : e = [handle |-> h, pkg |-> p, valid |-> s]
  BY <1>0
<1>3. PICK r \in obs : /\ Begins(obs, h, r)
                       /\ s = [from |-> r.published, to |-> EndOf(obs, h, r)]
  BY DEF Spells
<1> DEFINE gone == {o.published : o \in {x \in obs : x.published > r.published
                                                      /\ h \notin x.listed}}
<1>4. \A o \in obs : o.published \in Nat
  BY <1>1 DEF Documents, Release
<1>5. EndOf(obs, h, r) \in gone \cup {OpenInterval}
  <2>1. gone \in SUBSET Nat
    BY <1>4
  <2>2. gone # {} => Least(gone) \in gone
    BY <2>1, LeastNatural
  <2>3. EndOf(obs, h, r) = IF gone = {} THEN OpenInterval ELSE Least(gone)
    BY DEF EndOf
  <2> QED BY <2>2, <2>3
<1>6. gone \subseteq {o.published : o \in world.releases}
  BY <1>1 DEF ReleasesOf
<1>7. s \in Span
  BY <1>3, <1>4, <1>5, OpenIntervalAssumption DEF Span
<1>8. r.pkg = p /\ h \in r.listed
  BY <1>1, <1>3 DEF ReleasesOf, Begins
<1>9. s.from = r.published /\ s.to = EndOf(obs, h, r)
  BY <1>3
<1>10. e.handle = h /\ e.pkg = p /\ e.valid = s
  BY <1>2
<1> QED BY <1>2, <1>3, <1>5, <1>6, <1>7, <1>8, <1>9, <1>10

\* An ingest keeps the invariant of the edges (rows.go, linkMaintains).
LEMMA IngestKeeps ==
    ASSUME EdgesInv, NEW P \in Fetchable, NEW epochs \in EpochSets, Ingest(P, epochs)
    PROVE  EdgesInv'
<1> DEFINE seen == UNION {Observed(p, epochs) : p \in P}
           made == UNION {MaintainsRows(p, epochs) : p \in P}
<1>1. P \subseteq Packages
  BY MaintainersAssumption
<1>2. /\ world' = world /\ ingests' = ingests + 1
      /\ sampled' = sampled \cup seen
      /\ maintains' = Merged(maintains, made)
  BY DEF Ingest
<1>3. \A p \in P : Observed(p, epochs) \subseteq ReleasesOf(p)
  BY <1>1, ObservedDocuments DEF EdgesInv
<1>4. ASSUME NEW e \in made
      PROVE  /\ e \in [handle : Handles, pkg : Packages, valid : Span]
             /\ e.valid.to \in {r.published : r \in world.releases} \cup {OpenInterval}
             /\ \E r \in seen : /\ r.pkg = e.pkg /\ e.handle \in r.listed
                                /\ r.published = e.valid.from
  <2>1. PICK p \in P : e \in MaintainsRows(p, epochs)
    OBVIOUS
  <2>2. Observed(p, epochs) \subseteq seen
    OBVIOUS
  <2> QED BY <1>1, <2>1, <2>2, RowsAre DEF EdgesInv
<1>5. Merged(maintains, made) \subseteq maintains \cup made
  BY DEF Merged
<1>6. seen \subseteq world.releases
  BY <1>3 DEF ReleasesOf
<1>7. \A p : Observed(p, epochs)' = Observed(p, epochs)
  BY <1>2 DEF Observed, VersionAt, Candidates, ReleasesOf
<1>8. ASSUME NEW p PROVE MaintainsRows(p, epochs)' = MaintainsRows(p, epochs)
  <2>1. \A h : Spells(Observed(p, epochs), h)' = Spells(Observed(p, epochs), h)
    BY <1>7
  <2> QED BY <2>1 DEF MaintainsRows
<1>9. ASSUME ingests' = 1
      PROVE  sampled' = seen /\ maintains' = made
  <2>1. sampled = {} /\ maintains = {}
    BY <1>2, <1>9 DEF EdgesInv
  <2> QED BY <1>2, <2>1 DEF Merged
<1>10. ingests' \in Nat /\ ingests' # 0
  BY <1>2 DEF EdgesInv
<1> HIDE DEF seen, made
<1>11. \A e \in maintains' :
          /\ e \in [handle : Handles, pkg : Packages, valid : Span]
          /\ e.valid.to \in {r.published : r \in world.releases} \cup {OpenInterval}
          /\ \E r \in sampled' : /\ r.pkg = e.pkg /\ e.handle \in r.listed
                                 /\ r.published = e.valid.from
  <2>1. ASSUME NEW e \in maintains
        PROVE  /\ e \in [handle : Handles, pkg : Packages, valid : Span]
               /\ e.valid.to \in {r.published : r \in world.releases} \cup {OpenInterval}
               /\ \E r \in sampled' : /\ r.pkg = e.pkg /\ e.handle \in r.listed
                                      /\ r.published = e.valid.from
    BY <1>2 DEF EdgesInv
  <2>2. ASSUME NEW e \in made
        PROVE  \E r \in sampled' : /\ r.pkg = e.pkg /\ e.handle \in r.listed
                                   /\ r.published = e.valid.from
    BY <1>2, <1>4
  <2> QED BY <1>2, <1>4, <1>5, <2>1, <2>2
<1>12. ingests' = 1 =>
          \E Q \in Fetchable, E \in EpochSets :
              /\ sampled' = UNION {Observed(p, E)' : p \in Q}
              /\ maintains' = UNION {MaintainsRows(p, E)' : p \in Q}
  BY <1>7, <1>8, <1>9 DEF seen, made
<1> QED BY <1>2, <1>6, <1>10, <1>11, <1>12 DEF EdgesInv

\* In the states that EdgesInv describes nobody holds a package before a
\* document named them, and after one ingest exactly from one document that
\* names them to the next that does not.
LEMMA EdgesAreObserved == EdgesInv => HoldingIsObserved
<1> SUFFICES ASSUME EdgesInv, NEW p \in Packages, NEW t \in Instants, NEW h \in Handles
             PROVE  LET before == {r \in sampled : r.pkg = p /\ r.published <= t}
                    IN  /\ HeldAt(h, p, t) => \E r \in before : h \in r.listed
                        /\ ingests = 1 =>
                              (HeldAt(h, p, t) <=> \E r \in Newest(before) : h \in r.listed)
  BY DEF HoldingIsObserved
<1> DEFINE before == {r \in sampled : r.pkg = p /\ r.published <= t}
<1>1. t \in Nat /\ t < OpenInterval
  BY OpenIntervalAssumption DEF Instants
<1>2. HeldAt(h, p, t) => \E r \in before : h \in r.listed
  BY DEF HeldAt, EdgesInv, Contains
<1>3. ASSUME ingests = 1
      PROVE  HeldAt(h, p, t) <=> \E r \in Newest(before) : h \in r.listed
  <2>1. PICK P \in Fetchable, epochs \in EpochSets :
              /\ sampled = UNION {Observed(q, epochs) : q \in P}
              /\ maintains = UNION {MaintainsRows(q, epochs) : q \in P}
    BY <1>3 DEF EdgesInv
  <2> DEFINE obs == Observed(p, epochs)
  <2>2. P \subseteq Packages
    BY MaintainersAssumption
  <2>3. \A q \in P : \A r \in Observed(q, epochs) : r.pkg = q
    BY ObservedDocuments, <2>2 DEF EdgesInv, ReleasesOf
  <2>4. \A q \in P : \A e \in MaintainsRows(q, epochs) : e.pkg = q
    BY RowsAre, <2>2 DEF EdgesInv
  <2>5. CASE p \in P
    <3>1. before = {o \in obs : o.published <= t}
      BY <2>1, <2>3, <2>5
    <3>2. HeldAt(h, p, t) <=> \E s \in Spells(obs, h) : Contains(s, t)
      <4>1. ASSUME HeldAt(h, p, t) PROVE \E s \in Spells(obs, h) : Contains(s, t)
        <5>1. PICK e \in maintains : e.handle = h /\ e.pkg = p /\ Contains(e.valid, t)
          BY <4>1 DEF HeldAt
        <5>2. e \in MaintainsRows(p, epochs)
          BY <2>1, <2>4, <5>1
        <5> QED BY <5>1, <5>2, RowsAre DEF EdgesInv
      <4>2. ASSUME NEW s \in Spells(obs, h), Contains(s, t) PROVE HeldAt(h, p, t)
        <5> DEFINE e == [handle |-> h, pkg |-> p, valid |-> s]
        <5>1. e \in MaintainsRows(p, epochs)
          BY DEF MaintainsRows
        <5>2. e \in maintains
          BY <2>1, <2>5, <5>1
        <5>3. e.handle = h /\ e.pkg = p /\ e.valid = s
          OBVIOUS
        <5> QED BY <4>2, <5>2, <5>3 DEF HeldAt
      <4> QED BY <4>1, <4>2
    <3>3. Documents(obs)
      BY ObservedDocuments DEF EdgesInv
    <3> QED BY <1>1, <3>1, <3>2, <3>3, SpellsPointwise
  <2>6. CASE p \notin P
    <3>1. before = {}
      BY <2>1, <2>3, <2>6
    <3>2. ~ HeldAt(h, p, t)
      BY <2>1, <2>4, <2>6 DEF HeldAt
    <3> QED BY <3>1, <3>2 DEF Newest
  <2> QED BY <2>5, <2>6
<1> QED BY <1>2, <1>3

-----------------------------------------------------------------------------
(* Folds and recursive functions.                                          *)

\* Inserting every span of a finite set adds exactly their instants, in
\* whatever order (interval.go, Insert, in a loop).
LEMMA InsertAllPointwise ==
    ASSUME NEW S \in SUBSET Span, Maximal(S), IsFiniteSet(S),
           NEW I \in SUBSET Span, IsFiniteSet(I)
    PROVE  /\ InsertAll(S, I) \in SUBSET Span /\ IsFiniteSet(InsertAll(S, I))
           /\ Maximal(InsertAll(S, I))
           /\ \A t \in Int : Holds(InsertAll(S, I), t)
                              <=> Holds(S, t) \/ \E i \in I : Contains(i, t)
<1> DEFINE D == {A \in SUBSET Span : Maximal(A) /\ IsFiniteSet(A)}
           F == [x \in I \X D |-> Insert(x[2], x[1])]
           ch(s) == CHOOSE x \in s : TRUE
           IsFold(f) == f = [s \in SUBSET I |->
                                IF s = {} THEN S ELSE Insert(f[s \ {ch(s)}], ch(s))]
<1>1. ASSUME NEW i \in I, NEW A \in D PROVE Insert(A, i) \in D
  <2>1. Insert(A, i) \in SUBSET Span /\ Maximal(Insert(A, i))
    BY InsertMaximal
  <2>2. Insert(A, i) \subseteq A \cup {Merge(A, i)}
    BY DEF Insert
  <2>3. IsFiniteSet(A \cup {Merge(A, i)})
    BY FS_AddElement
  <2> QED BY <2>1, <2>2, <2>3, FS_Subset
<1>2. F \in [I \X D -> D]
  BY <1>1
<1>3. \A s \in SUBSET I : s # {} => ch(s) \in s /\ s \ {ch(s)} \in SUBSET I
  OBVIOUS
<1> DEFINE order == [s \in SUBSET I |-> ch(s)]
<1>4. PICK f : FoldOf(f, I, D, S, F, order)
  <2>1. Folding(I, D, S, F, order)
    BY <1>2, <1>3 DEF Folding
  <2> HIDE DEF D, F, order
  <2> QED BY <2>1, FoldExists
<1>5. /\ f \in [SUBSET I -> D] /\ f[{}] = S
      /\ \A s \in SUBSET I : s # {} => f[s] = F[<<ch(s), f[s \ {ch(s)}]>>]
  BY <1>4 DEF FoldOf
<1> HIDE DEF ch
<1>6. IsFold(f)
  <2>1. ASSUME NEW s \in SUBSET I, s # {}
        PROVE  F[<<ch(s), f[s \ {ch(s)}]>>] = Insert(f[s \ {ch(s)}], ch(s))
    <3>1. ch(s) \in I /\ f[s \ {ch(s)}] \in D
      BY <1>3, <1>5, <2>1
    <3> QED BY <3>1
  <2> HIDE DEF F
  <2> QED BY <1>5, <2>1
<1>7. InsertAll(S, I) = (CHOOSE g : IsFold(g))[I]
  BY DEF InsertAll, Sets!FoldSet, Sets!MapThenFoldSet, ch
<1> DEFINE k == CHOOSE g : IsFold(g)
<1>8. IsFold(k)
  BY <1>6
<1> HIDE DEF k
<1>9. /\ k[{}] = S
      /\ \A s \in SUBSET I : s # {} => k[s] = Insert(k[s \ {ch(s)}], ch(s))
  BY <1>8
<1> DEFINE Right(s) == /\ k[s] \in D
                       /\ \A t \in Int : Holds(k[s], t) <=>
                              Holds(S, t) \/ \E i \in s : Contains(i, t)
           Upto == {n \in Nat : \A s \in SUBSET I : Cardinality(s) = n => Right(s)}
<1>10. \A s \in SUBSET I :
           /\ Cardinality(s) \in Nat /\ (Cardinality(s) = 0 => s = {})
           /\ s # {} => Cardinality(s \ {ch(s)}) = Cardinality(s) - 1
  <2> TAKE s \in SUBSET I
  <2>1. IsFiniteSet(s)
    BY FS_Subset
  <2>2. s # {} => Cardinality(s \ {ch(s)}) = Cardinality(s) - 1
    BY <1>3, <2>1, FS_RemoveElement
  <2> QED BY <2>1, <2>2, FS_CardinalityType, FS_EmptySet
<1>11. 0 \in Upto
  BY <1>9, <1>10
<1>12. ASSUME NEW n \in Nat, n \in Upto PROVE n + 1 \in Upto
  <2> SUFFICES ASSUME NEW s \in SUBSET I, Cardinality(s) = n + 1 PROVE Right(s)
    OBVIOUS
  <2>1. s # {}
    BY FS_EmptySet
  <2> DEFINE r == s \ {ch(s)}
  <2>2. /\ r \in SUBSET I /\ Cardinality(r) = n
        /\ ch(s) \in s /\ ch(s) \in I /\ ch(s) \in Span
    BY <1>3, <1>10, <2>1
  <2>3. Right(r)
    BY <1>12, <2>2
  <2>4. k[s] = Insert(k[r], ch(s))
    BY <1>9, <2>1
  <2>7. s = r \cup {ch(s)}
    BY <2>2
  <2> HIDE DEF r
  <2>5. k[s] \in D
    <3> HIDE DEF D
    <3> QED BY <1>1, <2>2, <2>3, <2>4
  <2>6. \A t \in Int : Holds(k[s], t) <=> Holds(k[r], t) \/ Contains(ch(s), t)
    <3>1. k[r] \in SUBSET Span /\ Maximal(k[r])
      BY <2>3
    <3> QED BY <2>2, <2>4, <3>1, InsertPointwise
  <2> QED BY <2>3, <2>5, <2>6, <2>7
<1> HIDE DEF Right
<1>13. Nat \subseteq Upto
  BY <1>11, <1>12, NatInductive
<1>14. Right(I)
  BY <1>10, <1>13
<1> QED BY <1>7, <1>14 DEF Right, k

-----------------------------------------------------------------------------
(* What a search reaches.                                                  *)

\* The entries a search starts from at t.
Start(S, blocked, t) == {s.urn : s \in {x \in S : Contains(x.valid, t)}} \ blocked

\* X and whatever a live edge of E leads to from it.
Along(E, blocked, t, X) ==
    X \cup ({e.to : e \in {x \in E : x.from \in X /\ Contains(x.valid, t)}} \ blocked)

\* A search takes MaxDepth steps from what it starts from (reach.go, replay).
LEMMA WalkedIs ==
    ASSUME NEW E, NEW S, NEW blocked, NEW t
    PROVE  \E b : /\ b[0] = Start(S, blocked, t)
                  /\ \A d \in 1 .. MaxDepth : b[d] = Along(E, blocked, t, b[d - 1])
                  /\ Walked(E, S, blocked, t) = b[MaxDepth]
<1> DEFINE U == Start(S, blocked, t) \cup {e.to : e \in E}
           D == SUBSET U
           F == [x \in Int \X D |-> Along(E, blocked, t, x[2])]
           IsBall(b) ==
              b = [d \in 0 .. MaxDepth |->
                     IF d = 0 THEN {s.urn : s \in {x \in S : Contains(x.valid, t)}} \ blocked
                     ELSE b[d - 1] \cup
                          ({e.to : e \in {x \in E : x.from \in b[d - 1]
                                                    /\ Contains(x.valid, t)}} \ blocked)]
<1>0. MaxDepth \in Nat
  BY AuditAssumption
<1>1. \A X \in D : Along(E, blocked, t, X) \in D
  BY DEF Along
<1>2. F \in [Int \X D -> D]
  BY <1>1
<1>3. Start(S, blocked, t) \in D
  OBVIOUS
<1>4. \A d \in Int, X \in D : F[<<d, X>>] = Along(E, blocked, t, X)
  OBVIOUS
<1> HIDE DEF D, F
<1>5. PICK f : IterationOf(f, 0, MaxDepth, D, Start(S, blocked, t), F)
  <2>1. Iterating(0, MaxDepth, D, Start(S, blocked, t), F)
    BY <1>0, <1>2, <1>3 DEF Iterating
  <2> QED BY <2>1, IterationExists
<1>6. /\ f \in [0 .. MaxDepth -> D] /\ f[0] = Start(S, blocked, t)
      /\ \A d \in 1 .. MaxDepth : f[d] = F[<<d, f[d - 1]>>]
  BY <1>0, <1>5 DEF IterationOf
<1>7. \A d \in 1 .. MaxDepth : f[d] = Along(E, blocked, t, f[d - 1])
  <2> TAKE d \in 1 .. MaxDepth
  <2>1. d \in Int /\ f[d - 1] \in D
    BY <1>0, <1>6
  <2> QED BY <1>4, <1>6, <2>1
<1>8. IsBall(f)
  BY <1>0, <1>6, <1>7 DEF Start, Along
<1> DEFINE b == CHOOSE g : IsBall(g)
<1>9. IsBall(b)
  BY <1>8
<1>10. Walked(E, S, blocked, t) = b[MaxDepth]
  BY DEF Walked
<1> HIDE DEF b
<1>11. /\ b[0] = Start(S, blocked, t)
       /\ \A d \in 1 .. MaxDepth : b[d] = Along(E, blocked, t, b[d - 1])
  <2>1. b = [d \in 0 .. MaxDepth |->
                IF d = 0 THEN Start(S, blocked, t) ELSE Along(E, blocked, t, b[d - 1])]
    BY <1>9 DEF Start, Along
  <2> DEFINE H(d) == IF d = 0 THEN Start(S, blocked, t) ELSE Along(E, blocked, t, b[d - 1])
  <2>2. H(0) = Start(S, blocked, t)
        /\ \A d \in 1 .. MaxDepth : H(d) = Along(E, blocked, t, b[d - 1])
    BY <1>0
  <2>3. b = [d \in 0 .. MaxDepth |-> H(d)]
    BY <2>1
  <2> HIDE DEF H
  <2>4. \A d \in 0 .. MaxDepth : b[d] = H(d)
    BY <2>3
  <2> QED BY <1>0, <2>2, <2>4
<1> QED BY <1>10, <1>11

\* A search that starts from more, and has for each edge of the other one that
\* is live from the same version to the same version, reaches as much.
LEMMA WalkedGrows ==
    ASSUME NEW E, NEW S, NEW B, NEW t, NEW F, NEW R, NEW C, NEW u,
           Start(S, B, t) \subseteq Start(R, C, u),
           \A e \in E : Contains(e.valid, t) /\ e.to \notin B =>
               \E f \in F : /\ f.from = e.from /\ f.to = e.to
                            /\ Contains(f.valid, u) /\ f.to \notin C
    PROVE  Walked(E, S, B, t) \subseteq Walked(F, R, C, u)
<1>1. PICK b : /\ b[0] = Start(S, B, t)
               /\ \A d \in 1 .. MaxDepth : b[d] = Along(E, B, t, b[d - 1])
               /\ Walked(E, S, B, t) = b[MaxDepth]
  BY WalkedIs
<1>2. PICK k : /\ k[0] = Start(R, C, u)
               /\ \A d \in 1 .. MaxDepth : k[d] = Along(F, C, u, k[d - 1])
               /\ Walked(F, R, C, u) = k[MaxDepth]
  BY WalkedIs
<1>0. MaxDepth \in Nat
  BY AuditAssumption
<1> DEFINE Upto == {n \in Nat : n <= MaxDepth => b[n] \subseteq k[n]}
<1>3. 0 \in Upto
  BY <1>1, <1>2
<1>4. ASSUME NEW n \in Nat, n \in Upto PROVE n + 1 \in Upto
  <2> SUFFICES ASSUME n + 1 <= MaxDepth PROVE b[n + 1] \subseteq k[n + 1]
    OBVIOUS
  <2>1. b[n + 1] = Along(E, B, t, b[n]) /\ k[n + 1] = Along(F, C, u, k[n])
    <3>1. n + 1 \in 1 .. MaxDepth /\ (n + 1) - 1 = n
      BY <1>0
    <3> QED BY <1>1, <1>2, <3>1
  <2>2. b[n] \subseteq k[n]
    BY <1>0, <1>4
  <2> QED BY <2>1, <2>2 DEF Along
<1>5. Nat \subseteq Upto
  BY <1>3, <1>4, NatInductive
<1> QED BY <1>0, <1>1, <1>2, <1>5

\* A search stays in every set that holds its start and that no live edge
\* leaves.
LEMMA WalkedWithin ==
    ASSUME NEW E, NEW S, NEW B, NEW t, NEW Z, Start(S, B, t) \subseteq Z,
           \A e \in E : e.from \in Z /\ Contains(e.valid, t) /\ e.to \notin B => e.to \in Z
    PROVE  Walked(E, S, B, t) \subseteq Z
<1>1. PICK b : /\ b[0] = Start(S, B, t)
               /\ \A d \in 1 .. MaxDepth : b[d] = Along(E, B, t, b[d - 1])
               /\ Walked(E, S, B, t) = b[MaxDepth]
  BY WalkedIs
<1>0. MaxDepth \in Nat
  BY AuditAssumption
<1> DEFINE Upto == {n \in Nat : n <= MaxDepth => b[n] \subseteq Z}
<1>2. 0 \in Upto
  BY <1>1
<1>3. ASSUME NEW n \in Nat, n \in Upto PROVE n + 1 \in Upto
  <2> SUFFICES ASSUME n + 1 <= MaxDepth PROVE b[n + 1] \subseteq Z
    OBVIOUS
  <2>1. n + 1 \in 1 .. MaxDepth /\ (n + 1) - 1 = n
    BY <1>0
  <2>2. b[n + 1] = Along(E, B, t, b[n])
    BY <1>1, <2>1
  <2>3. b[n] \subseteq Z
    BY <1>0, <1>3
  <2> QED BY <2>2, <2>3 DEF Along
<1>4. Nat \subseteq Upto
  BY <1>2, <1>3, NatInductive
<1> QED BY <1>0, <1>1, <1>4

\* The spans of a set of instants hold exactly those instants.
LEMMA SpansOfPointwise ==
    ASSUME NEW T \in SUBSET Instants
    PROVE  /\ SpansOf(T) \subseteq Span /\ IsFiniteSet(SpansOf(T))
           /\ \A t \in Int : (\E i \in SpansOf(T) : Contains(i, t)) <=> t \in T
<1> DEFINE out(i) == {j \in i .. OpenInterval : j \notin T}
           starts == {k \in T : k - 1 \notin T}
           span(i) == [from |-> i, to |-> Least(out(i))]
<1>1. OpenInterval \in Nat /\ Instants = 0 .. OpenInterval - 1
  BY OpenIntervalAssumption DEF Instants
<1>2. \A i \in T : Least(out(i)) \in out(i) /\ \A y \in out(i) : Least(out(i)) <= y
  <2> TAKE i \in T
  <2>1. out(i) \in SUBSET Nat /\ OpenInterval \in out(i)
    BY <1>1
  <2> HIDE DEF out
  <2> QED BY <2>1, LeastNatural
<1>3. SpansOf(T) = {span(i) : i \in starts}
  BY DEF SpansOf
<1>4. T \subseteq Int
  BY <1>1
<1>5. \A i \in T : i \in Int /\ Least(out(i)) \in Int
  <2>1. \A i \in T : \A y \in out(i) : y \in Int
    BY <1>4
  <2> HIDE DEF out
  <2> QED BY <1>2, <1>4, <2>1
<1>6. SpansOf(T) \subseteq Span
  <2>1. \A i \in starts : span(i) \in Span
    <3> HIDE DEF out
    <3> QED BY <1>5 DEF Span
  <2> HIDE DEF span, starts
  <2> QED BY <1>3, <2>1
<1>7. IsFiniteSet(SpansOf(T))
  <2>1. IsFiniteSet(0 .. OpenInterval - 1)
    BY <1>1, FS_Interval
  <2>2. IsFiniteSet(starts)
    BY <1>1, <2>1, FS_Subset
  <2> DEFINE f == [i \in starts |-> span(i)]
  <2>3. f \in Surjection(starts, {span(i) : i \in starts})
    BY DEF Surjection
  <2> HIDE DEF f, span, starts
  <2> QED BY <1>3, <2>2, <2>3, FS_Surjection
<1>8. ASSUME NEW t \in Int, NEW i \in starts, Contains(span(i), t) PROVE t \in T
  <2>1. i <= t /\ t < Least(out(i)) /\ i \in T
    BY <1>8 DEF Contains
  <2>2. Least(out(i)) \in i .. OpenInterval
    BY <1>2, <2>1
  <2>3. t \notin out(i)
    <3> HIDE DEF out
    <3> QED BY <1>2, <1>5, <2>1
  <2> QED BY <1>1, <2>1, <2>2, <2>3
<1>9. ASSUME NEW t \in T PROVE \E i \in starts : Contains(span(i), t)
  <2> DEFINE R == {i \in Nat : i <= t /\ \A j \in i .. t : j \in T}
  <2>1. t \in R
    BY <1>1
  <2>2. Least(R) \in R /\ \A y \in R : Least(R) <= y
    BY <2>1, LeastNatural
  <2> DEFINE i == Least(R)
  <2> HIDE DEF R
  <2>3. i \in Nat /\ i <= t /\ \A j \in i .. t : j \in T
    BY <2>2 DEF R
  <2>8. \A y \in R : i <= y
    BY <2>2
  <2> HIDE DEF i
  <2>4. i \in T
    BY <1>1, <2>3
  <2>5. i - 1 \notin T
    <3>1. SUFFICES ASSUME i - 1 \in T PROVE FALSE
      OBVIOUS
    <3>2. i - 1 \in Nat
      <4>1. i - 1 \in 0 .. OpenInterval - 1
        BY <1>1, <3>1
      <4> QED BY <1>1, <4>1
    <3>3. \A j \in i - 1 .. t : j \in T
      <4>1. \A j \in i - 1 .. t : j = i - 1 \/ j \in i .. t
        BY <1>1, <2>3
      <4> QED BY <2>3, <3>1, <4>1
    <3>4. i - 1 \in R
      BY <1>1, <2>3, <3>2, <3>3 DEF R
    <3> QED BY <2>3, <2>8, <3>4
  <2>6. t < Least(out(i))
    <3>1. Least(out(i)) \in out(i)
      BY <1>2, <2>4
    <3> QED BY <1>1, <2>3, <3>1
  <2>7. Contains(span(i), t)
    BY <2>3, <2>6 DEF Contains
  <2> QED BY <2>4, <2>5, <2>7
<1> HIDE DEF span, starts
<1> QED BY <1>3, <1>6, <1>7, <1>8, <1>9, <1>4

-----------------------------------------------------------------------------
(* The versions and the packages a request reaches.                        *)

\* The versions of the graph are finitely many, and RESOLVES_TO edges stay
\* among them.
LEMMA GraphIsClosed ==
    ASSUME world \in Worlds
    PROVE  /\ IsFiniteSet(world.releases) /\ IsFiniteSet(Known)
           /\ \A e \in world.edges : e \in Edge /\ e.from \in Known /\ e.to \in Known
<1>1. IsFiniteSet(world.releases)
  BY AuditAssumption
<1> DEFINE f == [r \in world.releases |-> r.urn]
<1>2. f \in Surjection(world.releases, Known)
  BY DEF Surjection, Known
<1>3. IsFiniteSet(Known)
  <2> HIDE DEF f
  <2> QED BY <1>1, <1>2, FS_Surjection
<1>4. \A e \in world.edges : e \in Edge
  BY MaintainersAssumption
<1>5. \A e \in world.edges : {e.from, e.to} \subseteq {r.urn : r \in world.releases}
  BY AuditAssumption
<1> QED BY <1>1, <1>3, <1>4, <1>5 DEF Known

\* What a request searches are edges of the graph, or those reversed.
LEMMA SearchedAreEdges ==
    ASSUME world \in Worlds, NEW c, NEW e \in Searched(c)
    PROVE  e \in Edge /\ e.from \in Known /\ e.to \in Known
<1>1. CASE e \in world.edges
  BY <1>1, GraphIsClosed
<1>2. CASE e \in Reversed(world.edges)
  <2>1. PICK o \in world.edges : e = [from |-> o.to, to |-> o.from, valid |-> o.valid]
    BY <1>2 DEF Reversed
  <2>2. o \in Edge /\ o.from \in Known /\ o.to \in Known
    BY GraphIsClosed
  <2>3. e.from = o.to /\ e.to = o.from
    BY <2>1
  <2>4. e \in Edge
    BY <2>1, <2>2 DEF Edge
  <2> QED BY <2>2, <2>3, <2>4
<1> QED BY <1>1, <1>2 DEF Searched

\* A request starts from versions of the graph.
LEMMA EntriesAreKnown ==
    ASSUME NEW c, NEW s \in Entries(c)
    PROVE  s.urn \in Known
<1>1. CASE s \in Sources(Query(c).pins, Within(c))
  BY <1>1 DEF Sources, Known
<1>2. CASE s \in WhoSources(Query(c).handle, Within(c))
  BY <1>2 DEF WhoSources, Known
<1> QED BY <1>1, <1>2 DEF Entries

\* Only versions of the graph are reached.
LEMMA ReachedIsKnown ==
    ASSUME world \in Worlds, NEW c, NEW t \in Instants
    PROVE  Reached(c)[t] \subseteq Known
<1>1. Start(Entries(c), {}, t) \subseteq Known
  BY EntriesAreKnown DEF Start
<1>2. Walked(Searched(c), Entries(c), {}, t) \subseteq Known
  BY <1>1, SearchedAreEdges, WalkedWithin
<1> QED BY <1>2 DEF Reached, Everywhere

\* Whatever is reached at an instant is in the union answer (reach.go,
\* unionPass).
LEMMA ReachedIsInUnion ==
    ASSUME world \in Worlds, NEW c, NEW t \in Instants
    PROVE  Reached(c)[t] \subseteq Union(c)
<1> DEFINE always == {[urn |-> s.urn, valid |-> Always] : s \in Entries(c)}
           edges == {[e EXCEPT !.valid = Always] : e \in Searched(c)}
<1>1. Contains(Always, 0)
  BY OpenIntervalAssumption DEF Contains, Always
<1>2. ASSUME NEW s \in Entries(c)
      PROVE  \E x \in always : x.urn = s.urn /\ Contains(x.valid, 0)
  <2> DEFINE x == [urn |-> s.urn, valid |-> Always]
  <2>1. x \in always /\ x.urn = s.urn /\ x.valid = Always
    OBVIOUS
  <2> QED BY <1>1, <2>1
<1>3. ASSUME NEW e \in Searched(c)
      PROVE  \E f \in edges : f.from = e.from /\ f.to = e.to /\ Contains(f.valid, 0)
  <2> DEFINE f == [e EXCEPT !.valid = Always]
  <2>1. f \in edges
    OBVIOUS
  <2>2. f.from = e.from /\ f.to = e.to /\ f.valid = Always
    BY SearchedAreEdges DEF Edge
  <2> QED BY <1>1, <2>1, <2>2
<1> HIDE DEF always, edges
<1>4. Start(Entries(c), {}, t) \subseteq Start(always, {}, 0)
  BY <1>2 DEF Start
<1>5. Walked(Searched(c), Entries(c), {}, t) \subseteq Walked(edges, always, {}, 0)
  BY <1>3, <1>4, WalkedGrows
<1> QED BY <1>5 DEF Reached, Everywhere, Union, always, edges

\* The spans kept for a package hold the instants some version of it is
\* reached at (audit.go, keyholders).
LEMMA CoexistingPointwise ==
    ASSUME world \in Worlds, NEW c, NEW p
    PROVE  /\ Coexisting(c, p) \in SUBSET Span /\ IsFiniteSet(Coexisting(c, p))
           /\ Maximal(Coexisting(c, p))
           /\ \A t \in Int : Holds(Coexisting(c, p), t) <=>
                  t \in Instants /\ p \in PackagesOf(Reached(c)[t])
<1> DEFINE V == {u \in Known : PackageOf(u) = p}
           T(v) == {t \in Instants : v \in Reached(c)[t]}
           Parts == {SpansOf(T(v)) : v \in V}
           I == UNION Parts
<1>1. \A v : /\ SpansOf(T(v)) \subseteq Span /\ IsFiniteSet(SpansOf(T(v)))
             /\ \A t \in Int : (\E i \in SpansOf(T(v)) : Contains(i, t)) <=> t \in T(v)
  BY SpansOfPointwise
<1> HIDE DEF T
<1>2. IsFiniteSet(V)
  BY GraphIsClosed, FS_Subset
<1>3. IsFiniteSet(Parts)
  <2> DEFINE f == [v \in V |-> SpansOf(T(v))]
  <2>1. f \in Surjection(V, Parts)
    BY DEF Surjection
  <2> HIDE DEF f, V, Parts
  <2> QED BY <1>2, <2>1, FS_Surjection
<1>4. IsFiniteSet(I)
  <2>1. \A P \in Parts : IsFiniteSet(P)
    BY <1>1
  <2> HIDE DEF Parts
  <2> QED BY <1>3, <2>1, FS_UNION
<1>5. I \in SUBSET Span
  BY <1>1
<1>6. \A t \in Int : (\E i \in I : Contains(i, t)) <=> \E v \in V : t \in T(v)
  BY <1>1
<1>7. \A t \in Int : (\E v \in V : t \in T(v)) <=>
          t \in Instants /\ p \in PackagesOf(Reached(c)[t])
  BY ReachedIsKnown DEF T, PackagesOf
<1>8. Coexisting(c, p) = InsertAll({}, I)
  BY DEF Coexisting, T
<1>9. {} \in SUBSET Span /\ Maximal({}) /\ IsFiniteSet({}) /\ \A t \in Int : ~ Holds({}, t)
  BY FS_EmptySet DEF Maximal, Holds
<1> HIDE DEF I
<1>10. /\ InsertAll({}, I) \in SUBSET Span /\ IsFiniteSet(InsertAll({}, I))
       /\ Maximal(InsertAll({}, I))
       /\ \A t \in Int : Holds(InsertAll({}, I), t)
                            <=> Holds({}, t) \/ \E i \in I : Contains(i, t)
  BY <1>4, <1>5, <1>9, InsertAllPointwise
<1> QED BY <1>6, <1>7, <1>8, <1>9, <1>10

-----------------------------------------------------------------------------
(* The roster.                                                             *)

\* The rows an audit asks for.
Wanted(c) == {e \in maintains : e.pkg \in PackagesOf(Union(c))}

\* The rows of h for p that keyholders has seen, cut to when p was reached.
Trimmed(c) ==
    \A h \in Handles, p \in Packages :
        /\ through[c][h][p] \in SUBSET Span /\ IsFiniteSet(through[c][h][p])
        /\ Maximal(through[c][h][p])
        /\ \A t \in Int : Holds(through[c][h][p], t) <=>
              /\ \E e \in Wanted(c) \ rows[c] :
                    e.handle = h /\ e.pkg = p /\ Contains(e.valid, t)
              /\ Holds(Coexisting(c, p), t)

\* The invariant of one request.
RequestInv(c) ==
    /\ rows[c] \subseteq IF pc[c] = "roster" THEN Wanted(c) ELSE {}
    /\ pc[c] = "idle" => turn[c] = 1
    /\ pc[c] \notin {"idle", "failed"} =>
          Query(c) \in asked[c] /\ turn[c] \in DOMAIN Query(c).withins
    /\ pc[c] \in {"idle", "walking", "failed"} => through[c] = NoKeys
    /\ pc[c] \in {"roster", "sampling"} => Query(c).kind # "who"
    /\ pc[c] \in {"roster", "sampling", "done"} /\ Query(c).kind # "who" => Trimmed(c)

\* The inductive invariant: each row is cut once, to all of what was reached.
AuditInv == EdgesInv /\ TypeOK /\ \A c \in Clients : RequestInv(c)

\* A request is where it was, and so is the graph it is answered from.
Frame(c) ==
    /\ world' = world /\ maintains' = maintains
    /\ asked'[c] = asked[c] /\ turn'[c] = turn[c]

\* What a request reads of the graph, and what it makes of it, is the same.
LEMMA AnswerUnchanged ==
    ASSUME NEW c, Frame(c)
    PROVE  /\ Query(c)' = Query(c) /\ Within(c)' = Within(c)
           /\ Entries(c)' = Entries(c) /\ Searched(c)' = Searched(c)
           /\ Reached(c)' = Reached(c) /\ Union(c)' = Union(c)
           /\ Wanted(c)' = Wanted(c)
           /\ \A p : Coexisting(c, p)' = Coexisting(c, p)
<1> USE DEF Frame
<1>1. Query(c)' = Query(c) /\ Within(c)' = Within(c)
  BY DEF Query, Within
<1>2. \A h, p : HeldSpans(h, p)' = HeldSpans(h, p)
  BY DEF HeldSpans
<1>3. WhoSources(Query(c).handle, Within(c))' = WhoSources(Query(c).handle, Within(c))
  BY <1>1, <1>2 DEF WhoSources
<1>4. Sources(Query(c).pins, Within(c))' = Sources(Query(c).pins, Within(c))
  BY <1>1 DEF Sources
<1>5. Entries(c)' = Entries(c)
  BY <1>1, <1>3, <1>4 DEF Entries
<1>6. Searched(c)' = Searched(c)
  BY <1>1 DEF Searched
<1>7. Reached(c)' = Reached(c) /\ Union(c)' = Union(c)
  BY <1>5, <1>6 DEF Reached, Everywhere, Union
<1>8. \A v : PackageOf(v)' = PackageOf(v)
  BY DEF PackageOf
<1>9. Wanted(c)' = Wanted(c)
  BY <1>7, <1>8 DEF Wanted, PackagesOf
<1>10. ASSUME NEW p PROVE Coexisting(c, p)' = Coexisting(c, p)
  <2> DEFINE V == {u \in Known : PackageOf(u) = p}
             T(v) == {t \in Instants : v \in Reached(c)[t]}
             Parts == {SpansOf(T(v)) : v \in V}
  <2>1. V' = V
    BY <1>8 DEF Known
  <2>2. \A v : T(v)' = T(v)
    BY <1>7
  <2>3. Coexisting(c, p) = InsertAll({}, UNION Parts)
    BY DEF Coexisting
  <2>4. Coexisting(c, p)' = InsertAll({}, UNION Parts')
    BY DEF Coexisting
  <2>5. Parts' = Parts
    <3> HIDE DEF T, V
    <3> QED BY <2>1, <2>2
  <2> QED BY <2>3, <2>4, <2>5
<1> QED BY <1>1, <1>5, <1>6, <1>7, <1>9, <1>10

\* A request that nothing is done for keeps its invariant.
LEMMA OthersKeep ==
    ASSUME NEW c \in Clients, RequestInv(c), Frame(c), pc'[c] = pc[c],
           rows'[c] = rows[c], through'[c] = through[c]
    PROVE  RequestInv(c)'
<1>1. /\ Query(c)' = Query(c) /\ Wanted(c)' = Wanted(c)
      /\ \A p : Coexisting(c, p)' = Coexisting(c, p)
  BY AnswerUnchanged
<1>2. Trimmed(c) => Trimmed(c)'
  BY <1>1 DEF Trimmed
<1> QED BY <1>1, <1>2 DEF RequestInv, Frame, NoKeys

\* With no keys at all a request has seen no row.
LEMMA NoKeysIsEmpty ==
    \A h \in Handles, p \in Packages :
        /\ NoKeys[h][p] = {} /\ NoKeys[h][p] \in SUBSET Span /\ IsFiniteSet(NoKeys[h][p])
        /\ Maximal(NoKeys[h][p]) /\ \A t \in Int : ~ Holds(NoKeys[h][p], t)
BY FS_EmptySet DEF NoKeys, Maximal, Holds

\* The program starts with an empty graph, no requests and no keys.
LEMMA InitAudit == Init => AuditInv
<1> SUFFICES ASSUME Init PROVE AuditInv
  OBVIOUS
<1>1. EdgesInv
  BY DEF Init, EdgesInv
<1>2. NoKeys \in [Handles -> [Packages -> SUBSET Span]]
  BY DEF NoKeys
<1>3. TypeOK
  BY <1>2, MaintainersAssumption DEF Init, TypeOK
<1>4. \A c \in Clients : RequestInv(c)
  BY DEF Init, RequestInv
<1> QED BY <1>1, <1>3, <1>4 DEF AuditInv

\* An ingest runs while no request is served (ingest.go, Run).
LEMMA WriteAudit ==
    ASSUME AuditInv, NEW P \in Fetchable, NEW epochs \in EpochSets, Write(P, epochs)
    PROVE  AuditInv'
<1>1. EdgesInv'
  BY IngestKeeps DEF Write, AuditInv
<1>2. \A c \in Clients : pc[c] = "idle" /\ rows[c] = {}
  BY DEF Write, AuditInv, RequestInv
<1>3. TypeOK'
  <2>1. /\ world' \in Worlds
        /\ sampled' \subseteq world'.releases
        /\ maintains' \subseteq [handle : Handles, pkg : Packages, valid : Span]
    BY <1>1 DEF EdgesInv
  <2>2. sampled' \subseteq Release
    BY <2>1, MaintainersAssumption
  <2>3. ingests' \in 0 .. MaxIngests
    BY MaintainersAssumption DEF Write, Ingest, AuditInv, TypeOK
  <2>4. rows' \in [Clients -> SUBSET maintains']
    BY <1>2 DEF Write, requestVars, AuditInv, TypeOK
  <2> QED BY <2>1, <2>2, <2>3, <2>4 DEF Write, requestVars, AuditInv, TypeOK
<1>4. \A c \in Clients : RequestInv(c)'
  BY <1>2 DEF Write, requestVars, AuditInv, RequestInv, NoKeys
<1> QED BY <1>1, <1>3, <1>4 DEF AuditInv

\* What a request asks is one of the Requests, and asks at some instant.
LEMMA RequestsAsk ==
    ASSUME NEW q \in Requests
    PROVE  /\ q.kind \in {"audit", "path", "who"} /\ q.pins \subseteq Versions
           /\ q.withins \in Seq(Span) /\ 1 \in DOMAIN q.withins /\ q.handle \in Handles
<1>1. q \in Request /\ q.withins # << >>
  BY AuditAssumption
<1>2. q.withins \in Seq(Span)
  BY <1>1 DEF Request
<1>3. 1 \in DOMAIN q.withins
  BY <1>1, <1>2
<1> QED BY <1>1, <1>2, <1>3 DEF Request

\* A search that starts from nothing finds nothing.
LEMMA NothingFromNothing ==
    ASSUME world \in Worlds, NEW c, Entries(c) = {}
    PROVE  \A t \in Instants : Reached(c)[t] = {}
<1> TAKE t \in Instants
<1>1. Start(Entries(c), {}, t) = {}
  BY DEF Start
<1>2. Walked(Searched(c), Entries(c), {}, t) \subseteq {}
  BY <1>1, WalkedWithin
<1> QED BY <1>2 DEF Reached, Everywhere

\* Over no entries no package is reached at any instant.
LEMMA NothingCoexists ==
    ASSUME world \in Worlds, NEW c, Entries(c) = {}
    PROVE  \A p : \A t \in Int : ~ Holds(Coexisting(c, p), t)
BY NothingFromNothing, CoexistingPointwise DEF PackagesOf

\* A step that leaves the graph alone keeps the invariant of its edges.
LEMMA EdgesUnchanged ==
    ASSUME EdgesInv, UNCHANGED graphVars
    PROVE  EdgesInv'
<1>1. \A p, epochs : Observed(p, epochs)' = Observed(p, epochs)
  BY DEF graphVars, Observed, VersionAt, Candidates, ReleasesOf
<1>2. ASSUME NEW p, NEW epochs PROVE MaintainsRows(p, epochs)' = MaintainsRows(p, epochs)
  <2>1. \A h : Spells(Observed(p, epochs), h)' = Spells(Observed(p, epochs), h)
    BY <1>1
  <2> QED BY <2>1 DEF MaintainsRows
<1>3. \A P, epochs : /\ UNION {Observed(p, epochs)' : p \in P} = UNION {Observed(p, epochs) : p \in P}
                     /\ UNION {MaintainsRows(p, epochs)' : p \in P}
                            = UNION {MaintainsRows(p, epochs) : p \in P}
  BY <1>1, <1>2
<1> QED BY <1>3 DEF graphVars, EdgesInv

\* A request that begins holds nothing yet, and asks what requests may ask.
LEMMA BeginAudit ==
    ASSUME AuditInv, NEW c \in Clients, NEW q \in Requests, Begin(c, q)
    PROVE  AuditInv'
<1> USE DEF AuditInv
<1>1. EdgesInv'
  BY EdgesUnchanged DEF Begin
<1>2. /\ pc[c] = "idle" /\ pc'[c] \in {"walking", "done"}
      /\ asked'[c] = {q} /\ rows'[c] = rows[c] /\ through'[c] = through[c]
      /\ turn'[c] = turn[c] /\ world' = world /\ maintains' = maintains
      /\ pc' \in [Clients -> {"idle", "walking", "roster", "sampling", "done", "failed"}]
      /\ asked' \in [Clients -> SUBSET Requests]
  BY DEF Begin, Goto, TypeOK, graphVars
<1>3. TypeOK'
  BY <1>2 DEF Begin, TypeOK, graphVars
<1>4. ASSUME NEW d \in Clients, d # c PROVE RequestInv(d)'
  <2>1. Frame(d) /\ pc'[d] = pc[d] /\ rows'[d] = rows[d] /\ through'[d] = through[d]
    BY <1>4 DEF Begin, Goto, Frame, graphVars, TypeOK
  <2> QED BY <2>1, OthersKeep
<1>5. Query(c)' = q
  BY <1>2 DEF Query
<1>6. turn'[c] = 1 /\ rows'[c] = {} /\ through'[c] = NoKeys
  BY <1>2 DEF RequestInv
<1>7. ASSUME pc'[c] = "done", q.kind # "who" PROVE Trimmed(c)'
  <2>1. q.pins \cap Known = {}
    BY <1>7 DEF Begin, Goto, TypeOK
  <2>2. Entries(c)' = {}
    <3>1. {o \in world.releases : o.urn \in q.pins} = {}
      BY <2>1 DEF Known
    <3>2. Sources(Query(c).pins, Within(c))' = {}
      BY <1>2, <1>5, <3>1 DEF Sources
    <3> QED BY <1>5, <1>7, <3>2 DEF Entries
  <2>3. (\A p : \A t \in Int : ~ Holds(Coexisting(c, p), t))'
    <3>1. (world \in Worlds)' /\ (Entries(c) = {})'
      BY <1>3, <2>2 DEF TypeOK
    <3> QED BY <3>1, NothingCoexists, PTL
  <2> QED BY <1>6, <2>3, NoKeysIsEmpty DEF Trimmed
<1>8. RequestInv(c)'
  BY <1>2, <1>5, <1>6, <1>7, RequestsAsk DEF RequestInv, NoKeys
<1> QED BY <1>1, <1>3, <1>4, <1>8

\* The search of a request ends with what lies on live paths, and its rows
\* are those of the packages it reached.
LEMMA EndSearchAudit ==
    ASSUME AuditInv, NEW c \in Clients, EndSearch(c)
    PROVE  AuditInv'
<1> USE DEF AuditInv
<1>1. EdgesInv'
  BY EdgesUnchanged DEF EndSearch
<1>2. /\ pc[c] = "walking" /\ pc'[c] \in {"roster", "done"}
      /\ pc' \in [Clients -> {"idle", "walking", "roster", "sampling", "done", "failed"}]
      /\ rows' \in [Clients -> SUBSET maintains]
      /\ world' = world /\ maintains' = maintains /\ through' = through
      /\ asked' = asked /\ turn' = turn
  BY DEF EndSearch, Goto, TypeOK, graphVars
<1>3. TypeOK'
  BY <1>2 DEF EndSearch, TypeOK, graphVars
<1>4. ASSUME NEW d \in Clients, d # c PROVE RequestInv(d)'
  <2>1. Frame(d) /\ pc'[d] = pc[d] /\ rows'[d] = rows[d] /\ through'[d] = through[d]
    BY <1>2, <1>4 DEF EndSearch, Goto, Frame, TypeOK
  <2> QED BY <2>1, OthersKeep
<1>5. /\ Query(c)' = Query(c) /\ Wanted(c)' = Wanted(c)
  BY <1>2, AnswerUnchanged DEF Frame
<1>6. CASE Query(c).kind = "who"
  <2>1. pc'[c] = "done" /\ rows'[c] = {}
    BY <1>2, <1>6 DEF EndSearch, Goto, TypeOK, RequestInv
  <2> QED BY <1>1, <1>2, <1>3, <1>4, <1>5, <1>6, <2>1 DEF RequestInv
<1>7. CASE Query(c).kind # "who"
  <2>1. pc'[c] = "roster" /\ rows'[c] = Wanted(c)
    BY <1>2, <1>7 DEF EndSearch, Goto, TypeOK, Wanted
  <2>2. through'[c] = NoKeys
    BY <1>2 DEF RequestInv
  <2>3. Trimmed(c)'
    BY <1>5, <2>1, <2>2, NoKeysIsEmpty DEF Trimmed
  <2> QED BY <1>1, <1>2, <1>3, <1>4, <1>5, <1>7, <2>1, <2>3 DEF RequestInv
<1> QED BY <1>6, <1>7

\* A row that is cut and inserted counts from then on (audit.go, keyholders).
LEMMA TakeRowAudit ==
    ASSUME AuditInv, NEW c \in Clients, NEW e \in rows[c], TakeRow(c, e)
    PROVE  AuditInv'
<1> USE DEF AuditInv
<1>1. EdgesInv'
  BY EdgesUnchanged DEF TakeRow
<1> DEFINE cut == {Intersect(s, e.valid) : s \in Coexisting(c, e.pkg)}
           old == through[c][e.handle][e.pkg]
           new == InsertAll(old, cut)
<1>0. rows[c] \subseteq maintains /\ e \in maintains
      /\ e.handle \in Handles /\ e.pkg \in Packages /\ e.valid \in Span
  BY DEF TypeOK
<1>2. /\ pc[c] = "roster" /\ pc' = pc /\ asked' = asked /\ turn' = turn
      /\ world' = world /\ maintains' = maintains
      /\ rows' = [rows EXCEPT ![c] = @ \ {e}]
      /\ through' = [through EXCEPT ![c][e.handle][e.pkg] = new]
  BY DEF TakeRow, graphVars
<1>3. Query(c).kind # "who" /\ Trimmed(c)
  BY <1>2 DEF RequestInv
<1>4. /\ Coexisting(c, e.pkg) \in SUBSET Span /\ IsFiniteSet(Coexisting(c, e.pkg))
  BY CoexistingPointwise DEF TypeOK
<1>5. cut \in SUBSET Span /\ IsFiniteSet(cut)
  <2>1. cut \in SUBSET Span
    BY <1>0, <1>4, IntersectPointwise
  <2> DEFINE f == [s \in Coexisting(c, e.pkg) |-> Intersect(s, e.valid)]
  <2>2. f \in Surjection(Coexisting(c, e.pkg), cut)
    BY DEF Surjection
  <2> HIDE DEF f, cut
  <2> QED BY <1>4, <2>1, <2>2, FS_Surjection
<1>6. \A t \in Int : (\E s \in cut : Contains(s, t)) <=>
                        Holds(Coexisting(c, e.pkg), t) /\ Contains(e.valid, t)
  BY <1>0, <1>4, IntersectPointwise DEF Holds
<1>7. old \in SUBSET Span /\ IsFiniteSet(old) /\ Maximal(old)
  BY <1>0, <1>3 DEF Trimmed
<1> HIDE DEF cut, old
<1>8. /\ new \in SUBSET Span /\ IsFiniteSet(new) /\ Maximal(new)
      /\ \A t \in Int : Holds(new, t) <=> Holds(old, t) \/ \E s \in cut : Contains(s, t)
  BY <1>5, <1>7, InsertAllPointwise
<1> HIDE DEF new
<1>9. /\ \A h \in Handles, p \in Packages :
            through'[c][h][p] = IF h = e.handle /\ p = e.pkg THEN new ELSE through[c][h][p]
      /\ \A d \in Clients : d # c => through'[d] = through[d] /\ rows'[d] = rows[d]
      /\ through' \in [Clients -> [Handles -> [Packages -> SUBSET Span]]]
      /\ rows'[c] = rows[c] \ {e} /\ rows' \in [Clients -> SUBSET maintains]
  BY <1>0, <1>2, <1>8 DEF TypeOK
<1>10. TypeOK'
  BY <1>2, <1>9 DEF TakeRow, TypeOK, graphVars
<1>11. ASSUME NEW d \in Clients, d # c PROVE RequestInv(d)'
  <2>1. Frame(d) /\ pc'[d] = pc[d] /\ rows'[d] = rows[d] /\ through'[d] = through[d]
    BY <1>2, <1>9, <1>11 DEF Frame
  <2> QED BY <2>1, OthersKeep
<1>12. /\ Query(c)' = Query(c) /\ Wanted(c)' = Wanted(c)
       /\ \A p : Coexisting(c, p)' = Coexisting(c, p)
  BY <1>2, AnswerUnchanged DEF Frame
<1>13. e \in Wanted(c)
  BY <1>2 DEF RequestInv
<1>14. Trimmed(c)'
  <2> SUFFICES ASSUME NEW h \in Handles, NEW p \in Packages
               PROVE  LET k == through'[c][h][p]
                      IN  /\ k \in SUBSET Span /\ IsFiniteSet(k) /\ Maximal(k)
                          /\ \A t \in Int : Holds(k, t) <=>
                                /\ \E x \in Wanted(c) \ rows'[c] :
                                      x.handle = h /\ x.pkg = p /\ Contains(x.valid, t)
                                /\ Holds(Coexisting(c, p), t)
    BY <1>12 DEF Trimmed
  <2>1. CASE ~ (h = e.handle /\ p = e.pkg)
    <3>1. through'[c][h][p] = through[c][h][p]
      BY <1>9, <2>1
    <3>2. /\ through[c][h][p] \in SUBSET Span /\ IsFiniteSet(through[c][h][p])
          /\ Maximal(through[c][h][p])
          /\ \A t \in Int : Holds(through[c][h][p], t) <=>
                /\ \E x \in Wanted(c) \ rows[c] :
                      x.handle = h /\ x.pkg = p /\ Contains(x.valid, t)
                /\ Holds(Coexisting(c, p), t)
      BY <1>3 DEF Trimmed
    <3>3. \A t : (\E x \in Wanted(c) \ rows'[c] :
                     x.handle = h /\ x.pkg = p /\ Contains(x.valid, t))
                <=> \E x \in Wanted(c) \ rows[c] :
                       x.handle = h /\ x.pkg = p /\ Contains(x.valid, t)
      BY <1>9, <2>1
    <3> QED BY <3>1, <3>2, <3>3
  <2>2. CASE h = e.handle /\ p = e.pkg
    <3>1. through'[c][h][p] = new
      BY <1>9, <2>2
    <3>2. \A t \in Int : Holds(old, t) <=>
             /\ \E x \in Wanted(c) \ rows[c] :
                   x.handle = h /\ x.pkg = p /\ Contains(x.valid, t)
             /\ Holds(Coexisting(c, p), t)
      BY <1>3, <2>2 DEF Trimmed, old
    <3>3. \A t \in Int : (\E x \in Wanted(c) \ rows'[c] :
                              x.handle = h /\ x.pkg = p /\ Contains(x.valid, t))
                         <=> \/ \E x \in Wanted(c) \ rows[c] :
                                    x.handle = h /\ x.pkg = p /\ Contains(x.valid, t)
                             \/ Contains(e.valid, t)
      BY <1>9, <1>13, <2>2
    <3> QED BY <1>6, <1>8, <2>2, <3>1, <3>2, <3>3
  <2> QED BY <2>1, <2>2
<1>15. RequestInv(c)'
  BY <1>2, <1>3, <1>12, <1>14 DEF RequestInv
<1> QED BY <1>1, <1>10, <1>11, <1>15

\* A roster whose rows are all taken is left as it is.
LEMMA EndRosterAudit ==
    ASSUME AuditInv, NEW c \in Clients, EndRoster(c)
    PROVE  AuditInv'
<1> USE DEF AuditInv
<1>1. EdgesInv'
  BY EdgesUnchanged DEF EndRoster
<1>2. /\ pc[c] = "roster" /\ pc'[c] = "sampling" /\ rows[c] = {} /\ rows' = rows
      /\ pc' \in [Clients -> {"idle", "walking", "roster", "sampling", "done", "failed"}]
      /\ world' = world /\ maintains' = maintains /\ through' = through
      /\ asked' = asked /\ turn' = turn
  BY DEF EndRoster, Goto, TypeOK, graphVars
<1>3. TypeOK'
  BY <1>2 DEF EndRoster, TypeOK, graphVars
<1>4. ASSUME NEW d \in Clients, d # c PROVE RequestInv(d)'
  <2>1. Frame(d) /\ pc'[d] = pc[d] /\ rows'[d] = rows[d] /\ through'[d] = through[d]
    BY <1>2, <1>4 DEF EndRoster, Goto, Frame, TypeOK
  <2> QED BY <2>1, OthersKeep
<1>5. /\ Query(c)' = Query(c) /\ Wanted(c)' = Wanted(c)
      /\ \A p : Coexisting(c, p)' = Coexisting(c, p)
  BY <1>2, AnswerUnchanged DEF Frame
<1>6. Trimmed(c) => Trimmed(c)'
  BY <1>2, <1>5 DEF Trimmed
<1>7. RequestInv(c)'
  BY <1>2, <1>5, <1>6 DEF RequestInv
<1> QED BY <1>1, <1>3, <1>4, <1>7

\* A timeline starts over with no keys at its next instant (audit_timeline.go).
LEMMA EndAuditAudit ==
    ASSUME AuditInv, NEW c \in Clients, EndAudit(c)
    PROVE  AuditInv'
<1> USE DEF AuditInv
<1>1. EdgesInv'
  BY EdgesUnchanged DEF EndAudit
<1>2. /\ pc[c] = "sampling" /\ world' = world /\ maintains' = maintains
      /\ asked' = asked /\ rows' = rows /\ rows[c] = {} /\ turn[c] \in Nat
      /\ pc' \in [Clients -> {"idle", "walking", "roster", "sampling", "done", "failed"}]
      /\ \A d \in Clients : d # c => pc'[d] = pc[d]
  BY DEF EndAudit, Goto, TypeOK, graphVars, RequestInv
<1>3. NoKeys \in [Handles -> [Packages -> SUBSET Span]]
  BY DEF NoKeys
<1>4. Query(c)' = Query(c) /\ Query(c) \in Requests
  <2>1. Query(c) \in asked[c] /\ asked[c] \subseteq Requests
    BY <1>2 DEF RequestInv, TypeOK
  <2> QED BY <1>2, <2>1 DEF Query
<1>5. CASE turn[c] < Len(Query(c).withins)
  <2>1. /\ turn' = [turn EXCEPT ![c] = @ + 1] /\ through' = [through EXCEPT ![c] = NoKeys]
        /\ pc'[c] = "walking"
    BY <1>5 DEF EndAudit, Goto, TypeOK
  <2>2. TypeOK'
    BY <1>2, <1>3, <2>1 DEF EndAudit, TypeOK, graphVars
  <2>3. ASSUME NEW d \in Clients, d # c PROVE RequestInv(d)'
    <3>1. Frame(d) /\ pc'[d] = pc[d] /\ rows'[d] = rows[d] /\ through'[d] = through[d]
      BY <1>2, <2>1, <2>3 DEF Frame, TypeOK
    <3> QED BY <3>1, OthersKeep
  <2>4. turn'[c] = turn[c] + 1 /\ through'[c] = NoKeys
    BY <2>1 DEF TypeOK
  <2>5. turn'[c] \in DOMAIN Query(c).withins
    <3>1. Query(c).withins \in Seq(Span)
      BY <1>4, RequestsAsk
    <3> QED BY <1>2, <1>5, <2>4, <3>1
  <2>6. Query(c) \in asked[c]
    BY <1>2 DEF RequestInv
  <2>7. RequestInv(c)'
    BY <1>2, <1>4, <2>1, <2>4, <2>5, <2>6 DEF RequestInv, NoKeys
  <2> QED BY <1>1, <2>2, <2>3, <2>7
<1>6. CASE ~ (turn[c] < Len(Query(c).withins))
  <2>1. turn' = turn /\ through' = through /\ pc'[c] = "done"
    BY <1>6 DEF EndAudit, Goto, TypeOK
  <2>2. TypeOK'
    BY <1>2, <2>1 DEF EndAudit, TypeOK, graphVars
  <2>3. ASSUME NEW d \in Clients, d # c PROVE RequestInv(d)'
    <3>1. Frame(d) /\ pc'[d] = pc[d] /\ rows'[d] = rows[d] /\ through'[d] = through[d]
      BY <1>2, <2>1, <2>3 DEF Frame, TypeOK
    <3> QED BY <3>1, OthersKeep
  <2>4. Wanted(c)' = Wanted(c) /\ \A p : Coexisting(c, p)' = Coexisting(c, p)
    BY <1>2, <2>1, AnswerUnchanged DEF Frame
  <2>5. Trimmed(c) => Trimmed(c)'
    BY <1>2, <2>1, <2>4 DEF Trimmed
  <2>6. RequestInv(c)'
    BY <1>2, <1>4, <2>1, <2>5 DEF RequestInv
  <2> QED BY <1>1, <2>2, <2>3, <2>6
<1> QED BY <1>5, <1>6

\* A request that fails drops what it had.
LEMMA FailsAudit ==
    ASSUME AuditInv, NEW c \in Clients, Fails(c)
    PROVE  AuditInv'
<1> USE DEF AuditInv
<1>1. EdgesInv'
  BY EdgesUnchanged DEF Fails
<1>2. NoKeys \in [Handles -> [Packages -> SUBSET Span]]
  BY DEF NoKeys
<1>3. TypeOK'
  BY <1>2 DEF Fails, Goto, TypeOK, graphVars
<1>4. ASSUME NEW d \in Clients, d # c PROVE RequestInv(d)'
  <2>1. Frame(d) /\ pc'[d] = pc[d] /\ rows'[d] = rows[d] /\ through'[d] = through[d]
    BY <1>4 DEF Fails, Goto, Frame, graphVars, TypeOK
  <2> QED BY <2>1, OthersKeep
<1>5. pc'[c] = "failed" /\ rows'[c] = {} /\ through'[c] = NoKeys
  BY DEF Fails, Goto, TypeOK
<1>6. RequestInv(c)'
  BY <1>5 DEF RequestInv, NoKeys
<1> QED BY <1>1, <1>3, <1>4, <1>6

\* A step that leaves the graph and every request alone keeps the invariant.
LEMMA RequestsUnchanged ==
    ASSUME AuditInv, UNCHANGED <<graphVars, asked, pc, turn, rows, through>>,
           server' \in {"up", "dead"}
    PROVE  AuditInv'
<1> USE DEF AuditInv
<1>1. EdgesInv'
  BY EdgesUnchanged
<1>2. TypeOK'
  BY DEF TypeOK, graphVars
<1>3. ASSUME NEW d \in Clients PROVE RequestInv(d)'
  <2>1. Frame(d) /\ pc'[d] = pc[d] /\ rows'[d] = rows[d] /\ through'[d] = through[d]
    BY DEF Frame, graphVars
  <2> QED BY <2>1, OthersKeep
<1> QED BY <1>1, <1>2, <1>3

\* Every step of an ingest or of a request keeps the invariant.
LEMMA NextAudit == AuditInv /\ [Next]_vars => AuditInv'
<1> SUFFICES ASSUME AuditInv, [Next]_vars PROVE AuditInv'
  OBVIOUS
<1>1. ASSUME NEW P \in Fetchable, NEW epochs \in EpochSets, Write(P, epochs)
      PROVE  AuditInv'
  BY <1>1, WriteAudit
<1>2. ASSUME NEW c \in Clients, Serve(c) PROVE AuditInv'
  BY <1>2, BeginAudit, EndSearchAudit, TakeRowAudit, EndRosterAudit, EndAuditAudit,
     FailsAudit DEF Serve
<1>3. CASE Collide
  BY <1>3, RequestsUnchanged DEF Collide
<1>4. CASE UNCHANGED vars
  BY <1>4, RequestsUnchanged DEF vars, requestVars, AuditInv, TypeOK
<1> QED BY <1>1, <1>2, <1>3, <1>4 DEF Next

\* Every reachable state satisfies the inductive invariant.
THEOREM AuditInvariant == Spec => []AuditInv
BY InitAudit, NextAudit, PTL DEF Spec

\* The variables of module Audit stay in their types (Server, Auditor).
THEOREM TypeCorrect == Spec => []TypeOK
<1>1. AuditInv => TypeOK
  BY DEF AuditInv
<1> QED BY <1>1, AuditInvariant, PTL

\* rows.go:243-251: over any number of ingests nobody is credited with a package
\* before a document named them, and after one ingest an account is credited at
\* an instant exactly if the last observation up to it named it.
THEOREM HoldingsAreObserved == Spec => []HoldingIsObserved
<1>1. AuditInv => HoldingIsObserved
  BY EdgesAreObserved DEF AuditInv
<1> QED BY <1>1, AuditInvariant, PTL

\* In the states of the invariant a finished roster is right at every instant.
LEMMA RosterIsRight ==
    ASSUME AuditInv, NEW c \in Clients, Audited(c), NEW h \in Handles, NEW p \in Packages
    PROVE  /\ through[c][h][p] \in SUBSET Span /\ IsFiniteSet(through[c][h][p])
           /\ Maximal(through[c][h][p])
           /\ \A t \in Int : Holds(through[c][h][p], t) <=>
                 /\ t \in Instants /\ p \in PackagesOf(Reached(c)[t]) /\ HeldAt(h, p, t)
<1>1. world \in Worlds /\ Trimmed(c) /\ rows[c] = {}
  BY DEF AuditInv, TypeOK, RequestInv, Audited
<1>2. ASSUME NEW t \in Int
      PROVE  Holds(Coexisting(c, p), t) <=> t \in Instants /\ p \in PackagesOf(Reached(c)[t])
  BY <1>1, CoexistingPointwise
<1>3. \A t \in Instants : p \in PackagesOf(Reached(c)[t]) => p \in PackagesOf(Union(c))
  BY <1>1, ReachedIsInUnion DEF PackagesOf
<1>4. ASSUME NEW t \in Instants, p \in PackagesOf(Reached(c)[t])
      PROVE  HeldAt(h, p, t) <=>
                \E e \in Wanted(c) : e.handle = h /\ e.pkg = p /\ Contains(e.valid, t)
  BY <1>3, <1>4 DEF HeldAt, Wanted
<1>5. ASSUME NEW t \in Int
      PROVE  Holds(through[c][h][p], t) <=>
                /\ \E e \in Wanted(c) : e.handle = h /\ e.pkg = p /\ Contains(e.valid, t)
                /\ Holds(Coexisting(c, p), t)
  BY <1>1 DEF Trimmed
<1> QED BY <1>1, <1>2, <1>4, <1>5 DEF Trimmed

\* audit.go:19-23: of every finished audit, an account holds a key through a
\* package at an instant exactly if it could publish the package then and some
\* version of it is reached then, whatever order the rows came in.
THEOREM RostersArePointwise == Spec => []RosterIsPointwise
<1>1. AuditInv => RosterIsPointwise
  <2>1. \A t \in Instants : t \in Int
    BY DEF Instants
  <2> QED BY <2>1, RosterIsRight DEF RosterIsPointwise
<1> QED BY <1>1, AuditInvariant, PTL

-----------------------------------------------------------------------------
(* Paths.                                                                  *)

\* A path a search can take: as many edges of E as it takes steps, end to end.
Path(E, c) ==
    /\ c \in Seq(E) /\ Len(c) \in 1 .. MaxDepth
    /\ \A k \in 1 .. Len(c) - 1 : c[k].to = c[k + 1].from

\* All of it holds at t, and leads to no blocked version.
Live(c, B, t) == \A k \in 1 .. Len(c) : Contains(c[k].valid, t) /\ c[k].to \notin B

\* A search reaches what it starts from and the ends of the live paths out of
\* that, and nothing else.
LEMMA WalkedByPath ==
    ASSUME NEW E, NEW S, NEW B, NEW t, NEW v
    PROVE  v \in Walked(E, S, B, t) <=>
              \/ v \in Start(S, B, t)
              \/ \E c : Path(E, c) /\ Live(c, B, t) /\ c[1].from \in Start(S, B, t) /\ End(c) = v
<1>1. PICK b : /\ b[0] = Start(S, B, t)
               /\ \A d \in 1 .. MaxDepth : b[d] = Along(E, B, t, b[d - 1])
               /\ Walked(E, S, B, t) = b[MaxDepth]
  BY WalkedIs
<1>0. MaxDepth \in Nat /\ MaxDepth > 0
  BY AuditAssumption
<1>2. ASSUME NEW n \in Nat, n + 1 <= MaxDepth
      PROVE  b[n + 1] = Along(E, B, t, b[n])
  <2>1. n + 1 \in 1 .. MaxDepth /\ (n + 1) - 1 = n
    BY <1>0, <1>2
  <2> QED BY <1>1, <2>1
<1> DEFINE Out(c, n, w) == /\ Path(E, c) /\ Live(c, B, t) /\ Len(c) <= n
                           /\ c[1].from \in Start(S, B, t) /\ End(c) = w
           Upto == {n \in Nat : n <= MaxDepth =>
                       \A w \in b[n] : w \in Start(S, B, t) \/ \E c : Out(c, n, w)}
<1>3. 0 \in Upto
  BY <1>1
<1>4. ASSUME NEW n \in Nat, n \in Upto PROVE n + 1 \in Upto
  <2> SUFFICES ASSUME n + 1 <= MaxDepth, NEW w \in b[n + 1], w \notin Start(S, B, t)
               PROVE  \E c : Out(c, n + 1, w)
    OBVIOUS
  <2>1. \A u \in b[n] : u \in Start(S, B, t) \/ \E c : Out(c, n, u)
    BY <1>0, <1>4
  <2>2. CASE w \in b[n]
    <3>1. PICK c : Out(c, n, w)
      BY <2>1, <2>2
    <3>2. Len(c) <= n + 1
      BY <3>1 DEF Path
    <3>3. Out(c, n + 1, w)
      BY <3>1, <3>2
    <3> QED BY <3>3
  <2>3. CASE w \notin b[n]
    <3>1. PICK e \in E : e.from \in b[n] /\ Contains(e.valid, t) /\ e.to = w /\ w \notin B
      BY <1>2, <2>3 DEF Along
    <3>2. CASE e.from \in Start(S, B, t)
      <4> DEFINE c == <<e>>
      <4>1. c \in Seq(E) /\ Len(c) = 1 /\ c[1] = e
        OBVIOUS
      <4> HIDE DEF c
      <4>2. Path(E, c) /\ Live(c, B, t)
        BY <1>0, <3>1, <4>1 DEF Path, Live
      <4>3. Out(c, n + 1, w)
        BY <3>1, <3>2, <4>1, <4>2 DEF End
      <4> QED BY <4>3
    <3>3. CASE e.from \notin Start(S, B, t)
      <4>1. PICK c : Out(c, n, e.from)
        BY <2>1, <3>1, <3>3
      <4>2. c \in Seq(E) /\ Len(c) \in 1 .. MaxDepth /\ c[Len(c)].to = e.from /\ Len(c) <= n
        BY <4>1 DEF Path, End
      <4> DEFINE g == Append(c, e)
      <4>3. /\ g \in Seq(E) /\ Len(g) = Len(c) + 1 /\ g[Len(c) + 1] = e
            /\ \A k \in 1 .. Len(c) : g[k] = c[k]
        BY <4>2
      <4> HIDE DEF g
      <4>4. Len(g) \in 1 .. MaxDepth /\ Len(g) <= n + 1
        BY <1>0, <4>2, <4>3
      <4>5. \A k \in 1 .. Len(g) - 1 : g[k].to = g[k + 1].from
        <5> TAKE k \in 1 .. Len(g) - 1
        <5>1. CASE k = Len(c)
          BY <4>2, <4>3, <5>1
        <5>2. CASE k # Len(c)
          <6>1. k \in 1 .. Len(c) - 1 /\ k \in 1 .. Len(c) /\ k + 1 \in 1 .. Len(c)
            BY <4>2, <4>3, <5>2
          <6>2. c[k].to = c[k + 1].from
            BY <4>1, <6>1 DEF Path
          <6> QED BY <4>3, <6>1, <6>2
        <5> QED BY <5>1, <5>2
      <4>6. Live(g, B, t)
        <5> SUFFICES ASSUME NEW k \in 1 .. Len(g)
                     PROVE  Contains(g[k].valid, t) /\ g[k].to \notin B
          BY DEF Live
        <5>1. CASE k = Len(c) + 1
          BY <3>1, <4>3, <5>1
        <5>2. CASE k # Len(c) + 1
          <6>1. k \in 1 .. Len(c)
            BY <4>2, <4>3, <5>2
          <6> QED BY <4>1, <4>3, <6>1 DEF Live
        <5> QED BY <5>1, <5>2
      <4>7. g[1] = c[1]
        BY <4>2, <4>3
      <4>8. Out(g, n + 1, w)
        BY <3>1, <4>1, <4>3, <4>4, <4>5, <4>6, <4>7 DEF Path, End
      <4> QED BY <4>8
    <3> QED BY <3>2, <3>3
  <2> QED BY <2>2, <2>3
<1> HIDE DEF Out
<1>5. Nat \subseteq Upto
  BY <1>3, <1>4, NatInductive
<1>6. ASSUME v \in b[MaxDepth] PROVE v \in Start(S, B, t) \/ \E c : Out(c, MaxDepth, v)
  BY <1>0, <1>5, <1>6
<1> DEFINE Grown == {n \in Nat : n <= MaxDepth => \A m \in 0 .. n : b[m] \subseteq b[n]}
<1>7. Nat \subseteq Grown
  <2>1. 0 \in Grown
    OBVIOUS
  <2>2. ASSUME NEW n \in Nat, n \in Grown PROVE n + 1 \in Grown
    <3> SUFFICES ASSUME n + 1 <= MaxDepth, NEW m \in 0 .. n + 1
                 PROVE  b[m] \subseteq b[n + 1]
      OBVIOUS
    <3>1. b[n] \subseteq b[n + 1]
      BY <1>2 DEF Along
    <3>2. m \in 0 .. n => b[m] \subseteq b[n]
      BY <1>0, <2>2
    <3>3. m \in 0 .. n \/ m = n + 1
      OBVIOUS
    <3> QED BY <3>1, <3>2, <3>3
  <2> HIDE DEF Grown
  <2> QED BY <2>1, <2>2, NatInductive
<1>8. \A m \in 0 .. MaxDepth : b[m] \subseteq b[MaxDepth]
  BY <1>0, <1>7
<1>9. ASSUME NEW c, Path(E, c), Live(c, B, t), c[1].from \in Start(S, B, t)
      PROVE  End(c) \in b[MaxDepth]
  <2>0. c \in Seq(E) /\ Len(c) \in 1 .. MaxDepth
    BY <1>9 DEF Path
  <2> DEFINE Inside == {n \in Nat : n + 1 <= Len(c) => c[n + 1].to \in b[n + 1]}
  <2>1. 0 \in Inside
    <3>1. c[1] \in E /\ Contains(c[1].valid, t) /\ c[1].to \notin B
      BY <1>9, <2>0 DEF Live
    <3>2. b[1] = Along(E, B, t, b[0])
      BY <1>0, <1>2
    <3> QED BY <1>1, <1>9, <3>1, <3>2 DEF Along
  <2>2. ASSUME NEW n \in Nat, n \in Inside PROVE n + 1 \in Inside
    <3> SUFFICES ASSUME (n + 1) + 1 <= Len(c) PROVE c[(n + 1) + 1].to \in b[(n + 1) + 1]
      OBVIOUS
    <3> DEFINE k == n + 1
    <3>1. k \in 1 .. Len(c) - 1 /\ k + 1 \in 1 .. Len(c) /\ k <= Len(c) /\ k \in Nat
          /\ k + 1 <= MaxDepth
      BY <1>0, <2>0
    <3>2. c[k].to \in b[k]
      BY <2>2, <3>1
    <3>3. c[k + 1] \in E /\ Contains(c[k + 1].valid, t) /\ c[k + 1].to \notin B
          /\ c[k].to = c[k + 1].from
      BY <1>9, <2>0, <3>1 DEF Live, Path
    <3>4. b[k + 1] = Along(E, B, t, b[k])
      BY <1>2, <3>1
    <3> QED BY <3>2, <3>3, <3>4 DEF Along
  <2> HIDE DEF Inside
  <2>3. Nat \subseteq Inside
    BY <2>1, <2>2, NatInductive
  <2>4. Len(c) - 1 \in Nat /\ (Len(c) - 1) + 1 = Len(c) /\ Len(c) \in 0 .. MaxDepth
    BY <1>0, <2>0
  <2>5. Len(c) - 1 \in Inside
    BY <2>3, <2>4
  <2>6. c[Len(c)].to \in b[Len(c)]
    BY <2>4, <2>5 DEF Inside
  <2> QED BY <1>8, <2>4, <2>6 DEF End
<1>10. Start(S, B, t) \subseteq b[MaxDepth]
  BY <1>0, <1>1, <1>8
<1> QED BY <1>1, <1>6, <1>9, <1>10 DEF Out

-----------------------------------------------------------------------------
(* Who is the audit turned around.                                         *)

\* A path walked backwards is one of the reversed edges, live when it is.
LEMMA ReversedPath ==
    ASSUME NEW E \in SUBSET Edge, NEW c, Path(E, c), NEW t, Live(c, {}, t)
    PROVE  \E g : /\ Path(Reversed(E), g) /\ Live(g, {}, t)
                  /\ g[1].from = End(c) /\ End(g) = c[1].from
<1> DEFINE rev(e) == [from |-> e.to, to |-> e.from, valid |-> e.valid]
           g == [k \in 1 .. Len(c) |-> rev(c[Len(c) + 1 - k])]
<1>1. c \in Seq(E) /\ Len(c) \in Nat /\ Len(c) >= 1 /\ Len(c) \in 1 .. MaxDepth
  <2>1. MaxDepth \in Nat
    BY AuditAssumption
  <2> QED BY <2>1 DEF Path
<1>2. \A e \in E : /\ rev(e) \in Reversed(E)
                   /\ rev(e).from = e.to /\ rev(e).to = e.from /\ rev(e).valid = e.valid
  BY DEF Reversed
<1>3. \A k \in 1 .. Len(c) : c[k] \in E /\ Len(c) + 1 - k \in 1 .. Len(c)
  BY <1>1
<1> HIDE DEF rev
<1>4. \A k \in 1 .. Len(c) : g[k] = rev(c[Len(c) + 1 - k]) /\ g[k] \in Reversed(E)
  BY <1>2, <1>3
<1>5. g \in Seq(Reversed(E)) /\ Len(g) = Len(c)
  <2>1. g \in [1 .. Len(c) -> Reversed(E)]
    BY <1>4
  <2> HIDE DEF g
  <2> QED BY <1>1, <2>1
<1> HIDE DEF g
<1>6. Path(Reversed(E), g)
  <2>1. ASSUME NEW k \in 1 .. Len(g) - 1 PROVE g[k].to = g[k + 1].from
    <3>1. k \in 1 .. Len(c) /\ k + 1 \in 1 .. Len(c) /\ Len(c) - k \in 1 .. Len(c) - 1
          /\ Len(c) + 1 - (k + 1) = Len(c) - k /\ Len(c) + 1 - k = (Len(c) - k) + 1
      BY <1>1, <1>5
    <3>2. g[k].to = c[Len(c) + 1 - k].from /\ g[k + 1].from = c[Len(c) + 1 - (k + 1)].to
      BY <1>2, <1>3, <1>4, <3>1
    <3>3. c[Len(c) - k].to = c[(Len(c) - k) + 1].from
      BY <3>1 DEF Path
    <3> QED BY <3>1, <3>2, <3>3
  <2> QED BY <1>1, <1>5, <2>1 DEF Path
<1>7. Live(g, {}, t)
  <2>1. \A k \in 1 .. Len(c) : Contains(c[k].valid, t)
    BY DEF Live
  <2>2. ASSUME NEW k \in 1 .. Len(g) PROVE Contains(g[k].valid, t)
    <3>1. k \in 1 .. Len(c)
      BY <1>5
    <3>2. g[k].valid = c[Len(c) + 1 - k].valid
      BY <1>2, <1>3, <1>4, <3>1
    <3> QED BY <1>3, <2>1, <3>1, <3>2
  <2> QED BY <2>2 DEF Live
<1>8. g[1].from = End(c) /\ End(g) = c[1].from
  <2>1. 1 \in 1 .. Len(c) /\ Len(c) \in 1 .. Len(c) /\ Len(c) + 1 - 1 = Len(c)
        /\ Len(c) + 1 - Len(c) = 1
    BY <1>1
  <2>2. g[1] = rev(c[Len(c)]) /\ g[Len(c)] = rev(c[1])
    BY <1>4, <2>1
  <2> QED BY <1>2, <1>3, <1>5, <2>1, <2>2 DEF End
<1> QED BY <1>6, <1>7, <1>8

\* Turned around twice, the edges are as they were.
LEMMA ReversedTwice ==
    ASSUME NEW E \in SUBSET Edge
    PROVE  Reversed(E) \in SUBSET Edge /\ Reversed(Reversed(E)) = E
<1> DEFINE rev(e) == [from |-> e.to, to |-> e.from, valid |-> e.valid]
<1>1. \A e \in Edge : rev(e) \in Edge /\ rev(rev(e)) = e
  BY DEF Edge
<1>2. \A X : Reversed(X) = {rev(e) : e \in X}
  BY DEF Reversed
<1> HIDE DEF rev
<1> QED BY <1>1, <1>2

\* A version exists from the instant it was published.
LEMMA ExistedPointwise ==
    ASSUME NEW r \in Release, NEW t \in Instants
    PROVE  Existed(r) \in Span /\ (Contains(Existed(r), t) <=> r.published <= t)
<1>1. r.published \in Nat
  BY DEF Release
<1> QED BY <1>1, OpenIntervalAssumption DEF Existed, Contains, Always, Span, Instants

\* What a URN names is the one release under it.
LEMMA PackageIs ==
    ASSUME world \in Worlds, NEW r \in world.releases
    PROVE  PackageOf(r.urn) = r.pkg /\ r \in Release /\ r.urn \in Known
<1>1. \A o \in world.releases : o.urn = r.urn => o = r
  BY AuditAssumption
<1>2. (CHOOSE o \in world.releases : o.urn = r.urn) = r
  BY <1>1
<1>3. r \in Release
  BY MaintainersAssumption
<1> QED BY <1>2, <1>3 DEF PackageOf, Known

\* Whoever an edge leads to, or comes from, was published while it holds.
LEMMA LiveIsPublished ==
    ASSUME world \in Worlds, NEW e \in world.edges, NEW t \in Instants, Contains(e.valid, t),
           NEW r \in world.releases, r.urn \in {e.from, e.to}
    PROVE  r.published <= t
<1>1. r.published <= e.valid.from
  BY MaintainersAssumption
<1>2. r.published \in Nat /\ e.valid \in Span
  BY MaintainersAssumption DEF Release, Edge
<1>3. t \in Int
  BY DEF Instants
<1> QED BY <1>1, <1>2, <1>3 DEF Contains, Span

\* The merged spans of an account hold the instants it held the package
\* (who.go, holdings).
LEMMA HeldSpansPointwise ==
    ASSUME EdgesInv, NEW h, NEW p
    PROVE  /\ HeldSpans(h, p) \in SUBSET Span /\ IsFiniteSet(HeldSpans(h, p))
           /\ \A t \in Int : Holds(HeldSpans(h, p), t) <=> HeldAt(h, p, t)
<1> DEFINE I == {e.valid : e \in {x \in maintains : x.handle = h /\ x.pkg = p}}
           pubs == {r.published : r \in world.releases}
           both == pubs \cup {OpenInterval}
           pairs == {[from |-> x[1], to |-> x[2]] : x \in both \X both}
<1>1. I \in SUBSET Span
  BY DEF EdgesInv
<1>2. IsFiniteSet(pubs)
  <2> DEFINE f == [r \in world.releases |-> r.published]
  <2>1. f \in Surjection(world.releases, pubs)
    BY DEF Surjection
  <2>2. IsFiniteSet(world.releases)
    BY GraphIsClosed DEF EdgesInv
  <2> HIDE DEF f, pubs
  <2> QED BY <2>1, <2>2, FS_Surjection
<1>3. IsFiniteSet(both \X both)
  BY <1>2, FS_AddElement, FS_Product
<1>4. IsFiniteSet(pairs)
  <2> DEFINE f == [x \in both \X both |-> [from |-> x[1], to |-> x[2]]]
  <2>1. f \in Surjection(both \X both, pairs)
    BY DEF Surjection
  <2> HIDE DEF f, pairs, both
  <2> QED BY <1>3, <2>1, FS_Surjection
<1>5. I \subseteq pairs
  <2> SUFFICES ASSUME NEW e \in maintains PROVE e.valid \in pairs
    OBVIOUS
  <2>1. e.valid \in Span /\ e.valid.from \in both /\ e.valid.to \in both
    BY DEF EdgesInv
  <2>2. e.valid = [from |-> e.valid.from, to |-> e.valid.to]
    BY <2>1 DEF Span
  <2> DEFINE x == <<e.valid.from, e.valid.to>>
  <2>3. x \in both \X both /\ x[1] = e.valid.from /\ x[2] = e.valid.to
    BY <2>1
  <2> HIDE DEF x, both
  <2> QED BY <2>2, <2>3
<1>6. IsFiniteSet(I)
  <2> HIDE DEF I, pairs
  <2> QED BY <1>4, <1>5, FS_Subset
<1>7. \A t \in Int : (\E i \in I : Contains(i, t)) <=> HeldAt(h, p, t)
  BY DEF HeldAt
<1>8. HeldSpans(h, p) = InsertAll({}, I)
  BY DEF HeldSpans
<1>9. {} \in SUBSET Span /\ Maximal({}) /\ IsFiniteSet({}) /\ \A t \in Int : ~ Holds({}, t)
  BY FS_EmptySet DEF Maximal, Holds
<1> HIDE DEF I
<1>10. /\ InsertAll({}, I) \in SUBSET Span /\ IsFiniteSet(InsertAll({}, I))
       /\ \A t \in Int : Holds(InsertAll({}, I), t)
                            <=> Holds({}, t) \/ \E i \in I : Contains(i, t)
  BY <1>1, <1>6, <1>9, InsertAllPointwise
<1> QED BY <1>7, <1>8, <1>9, <1>10

\* An audit starts, at t, from the pins published by then, if t is asked about.
LEMMA SourcesAt ==
    ASSUME world \in Worlds, NEW pins, NEW within \in Span, NEW t \in Instants, NEW B
    PROVE  Start(Sources(pins, within), B, t) =
              {r.urn : r \in {o \in world.releases : /\ o.urn \in pins /\ o.published <= t
                                                     /\ Contains(within, t)}} \ B
<1> DEFINE src(r) == [urn |-> r.urn, valid |-> Intersect(Existed(r), within)]
           P == {o \in world.releases : o.urn \in pins}
<1>1. \A r \in world.releases :
          /\ src(r).urn = r.urn
          /\ Contains(src(r).valid, t) <=> r.published <= t /\ Contains(within, t)
  <2> TAKE r \in world.releases
  <2>1. r \in Release /\ t \in Int
    BY PackageIs DEF Instants
  <2>2. Contains(Intersect(Existed(r), within), t) <=> Contains(Existed(r), t) /\ Contains(within, t)
    BY <2>1, ExistedPointwise, IntersectPointwise
  <2>3. src(r).urn = r.urn /\ src(r).valid = Intersect(Existed(r), within)
    OBVIOUS
  <2> QED BY <2>1, <2>2, <2>3, ExistedPointwise
<1>2. Sources(pins, within) = {src(r) : r \in P}
  BY DEF Sources
<1> HIDE DEF src
<1>3. {s.urn : s \in {x \in {src(r) : r \in P} : Contains(x.valid, t)}}
        = {r.urn : r \in {o \in world.releases : /\ o.urn \in pins /\ o.published <= t
                                                 /\ Contains(within, t)}}
  BY <1>1
<1> QED BY <1>2, <1>3 DEF Start

\* WhoIs starts, at t, from the versions published by then of the packages the
\* account held, if t is asked about.
LEMMA WhoSourcesAt ==
    ASSUME EdgesInv, NEW h, NEW within \in Span, NEW t \in Instants
    PROVE  Start(WhoSources(h, within), {}, t) =
              {r.urn : r \in {o \in world.releases : /\ HeldAt(h, o.pkg, t) /\ o.published <= t
                                                     /\ Contains(within, t)}}
<1> DEFINE src(r, i) == [urn |-> r.urn, valid |-> Intersect(Intersect(Existed(r), i), within)]
<1>0. world \in Worlds /\ t \in Int
  BY DEF EdgesInv, Instants
<1>1. \A r \in world.releases : \A i \in HeldSpans(h, r.pkg) :
          /\ src(r, i).urn = r.urn
          /\ Contains(src(r, i).valid, t) <=> /\ r.published <= t
                                              /\ Contains(i, t) /\ Contains(within, t)
  <2> TAKE r \in world.releases
  <2> TAKE i \in HeldSpans(h, r.pkg)
  <2>1. r \in Release /\ i \in Span
    BY <1>0, PackageIs, HeldSpansPointwise
  <2>2. /\ Existed(r) \in Span /\ Intersect(Existed(r), i) \in Span
        /\ Contains(Intersect(Existed(r), i), t) <=> r.published <= t /\ Contains(i, t)
    BY <1>0, <2>1, ExistedPointwise, IntersectPointwise
  <2>3. Contains(Intersect(Intersect(Existed(r), i), within), t)
            <=> r.published <= t /\ Contains(i, t) /\ Contains(within, t)
    BY <1>0, <2>2, IntersectPointwise
  <2>4. src(r, i).urn = r.urn /\ src(r, i).valid = Intersect(Intersect(Existed(r), i), within)
    OBVIOUS
  <2> QED BY <2>3, <2>4
<1>2. WhoSources(h, within) = UNION {{src(r, i) : i \in HeldSpans(h, r.pkg)} : r \in world.releases}
  BY DEF WhoSources
<1>3. \A p : HeldAt(h, p, t) <=> \E i \in HeldSpans(h, p) : Contains(i, t)
  BY <1>0, HeldSpansPointwise DEF Holds
<1> HIDE DEF src
<1>4. ASSUME NEW s \in WhoSources(h, within), Contains(s.valid, t)
      PROVE  \E r \in world.releases : /\ s.urn = r.urn /\ HeldAt(h, r.pkg, t)
                                       /\ r.published <= t /\ Contains(within, t)
  <2>1. PICK r \in world.releases : \E i \in HeldSpans(h, r.pkg) : s = src(r, i)
    BY <1>2
  <2>2. PICK i \in HeldSpans(h, r.pkg) : s = src(r, i)
    BY <2>1
  <2> QED BY <1>1, <1>3, <1>4, <2>2
<1>5. ASSUME NEW r \in world.releases, HeldAt(h, r.pkg, t), r.published <= t, Contains(within, t)
      PROVE  \E s \in WhoSources(h, within) : s.urn = r.urn /\ Contains(s.valid, t)
  <2>1. PICK i \in HeldSpans(h, r.pkg) : Contains(i, t)
    BY <1>3, <1>5
  <2>2. src(r, i) \in WhoSources(h, within)
    BY <1>2
  <2> QED BY <1>1, <1>5, <2>1, <2>2
<1> QED BY <1>4, <1>5 DEF Start

\* What a request in progress asks, and about which instants.
LEMMA AskedIs ==
    ASSUME AuditInv, NEW c \in Clients, pc[c] \notin {"idle", "failed"}
    PROVE  Query(c) \in Requests /\ Within(c) \in Span
<1>1. Query(c) \in Requests /\ turn[c] \in DOMAIN Query(c).withins
  BY DEF AuditInv, TypeOK, RequestInv
<1>2. Query(c).withins \in Seq(Span)
  BY <1>1, RequestsAsk
<1> QED BY <1>1, <1>2 DEF Within

\* A version is reached from a pin exactly if the pin is reached from it.
LEMMA ReachedBackwards ==
    ASSUME AuditInv, NEW within \in Span, NEW pins, NEW h, NEW t \in Instants
    PROVE  (\E v \in Walked(world.edges, Sources(pins, within), {}, t) : HeldAt(h, PackageOf(v), t))
              <=> Walked(Reversed(world.edges), WhoSources(h, within), {}, t) \cap pins # {}
<1> DEFINE E == world.edges
           from == Start(Sources(pins, within), {}, t)
           back == Start(WhoSources(h, within), {}, t)
<1>0. world \in Worlds /\ EdgesInv /\ E \in SUBSET Edge
  BY MaintainersAssumption DEF AuditInv, TypeOK
<1>1. from = {r.urn : r \in {o \in world.releases : /\ o.urn \in pins /\ o.published <= t
                                                    /\ Contains(within, t)}}
  BY <1>0, SourcesAt
<1>2. back = {r.urn : r \in {o \in world.releases : /\ HeldAt(h, o.pkg, t) /\ o.published <= t
                                                    /\ Contains(within, t)}}
  BY <1>0, WhoSourcesAt
<1>3. ASSUME NEW c, Path(E, c), Live(c, {}, t)
      PROVE  /\ c[1].from \in Known /\ End(c) \in Known
             /\ \A r \in world.releases : r.urn \in {c[1].from, End(c)} => r.published <= t
  <2>1. /\ c[1] \in E /\ c[Len(c)] \in E
        /\ Contains(c[1].valid, t) /\ Contains(c[Len(c)].valid, t)
    <3>1. MaxDepth \in Nat
      BY AuditAssumption
    <3>2. 1 \in 1 .. Len(c) /\ Len(c) \in 1 .. Len(c) /\ c \in Seq(E)
      BY <1>3, <3>1 DEF Path
    <3> QED BY <1>3, <3>2 DEF Live
  <2>2. c[1].from \in Known /\ End(c) \in Known
    BY <1>0, <2>1, GraphIsClosed DEF End
  <2> QED BY <1>0, <2>1, <2>2, LiveIsPublished DEF End
<1>4. \A r \in world.releases : PackageOf(r.urn) = r.pkg
  BY <1>0, PackageIs
<1>5. ASSUME NEW v \in Walked(E, Sources(pins, within), {}, t), HeldAt(h, PackageOf(v), t)
      PROVE  Walked(Reversed(E), WhoSources(h, within), {}, t) \cap pins # {}
  <2>1. CASE v \in from
    <3>1. v \in back /\ v \in pins
      BY <1>1, <1>2, <1>4, <1>5, <2>1
    <3>2. v \in Walked(Reversed(E), WhoSources(h, within), {}, t)
      BY <3>1, WalkedByPath
    <3> QED BY <3>1, <3>2
  <2>2. CASE v \notin from
    <3>1. PICK c : Path(E, c) /\ Live(c, {}, t) /\ c[1].from \in from /\ End(c) = v
      BY <1>5, <2>2, WalkedByPath
    <3>2. PICK g : /\ Path(Reversed(E), g) /\ Live(g, {}, t)
                   /\ g[1].from = End(c) /\ End(g) = c[1].from
      BY <1>0, <3>1, ReversedPath
    <3>3. c[1].from \in pins /\ Contains(within, t)
      BY <1>1, <3>1
    <3>4. PICK r \in world.releases : r.urn = v /\ r.published <= t
      BY <1>3, <3>1 DEF Known
    <3>5. v \in back
      BY <1>2, <1>4, <1>5, <3>3, <3>4
    <3>6. End(g) \in Walked(Reversed(E), WhoSources(h, within), {}, t)
      BY <3>1, <3>2, <3>5, WalkedByPath
    <3> QED BY <3>2, <3>3, <3>6
  <2> QED BY <2>1, <2>2
<1>6. ASSUME NEW u \in Walked(Reversed(E), WhoSources(h, within), {}, t), u \in pins
      PROVE  \E v \in Walked(E, Sources(pins, within), {}, t) : HeldAt(h, PackageOf(v), t)
  <2>1. CASE u \in back
    <3>1. u \in from /\ HeldAt(h, PackageOf(u), t)
      BY <1>1, <1>2, <1>4, <1>6, <2>1
    <3>2. u \in Walked(E, Sources(pins, within), {}, t)
      BY <3>1, WalkedByPath
    <3> QED BY <3>1, <3>2
  <2>2. CASE u \notin back
    <3>1. PICK g : Path(Reversed(E), g) /\ Live(g, {}, t) /\ g[1].from \in back /\ End(g) = u
      BY <1>6, <2>2, WalkedByPath
    <3>2. PICK c : /\ Path(E, c) /\ Live(c, {}, t)
                   /\ c[1].from = End(g) /\ End(c) = g[1].from
      BY <1>0, <3>1, ReversedPath, ReversedTwice
    <3>3. HeldAt(h, PackageOf(End(c)), t) /\ Contains(within, t)
      BY <1>2, <1>4, <3>1, <3>2
    <3>4. PICK r \in world.releases : r.urn = u /\ r.published <= t
      BY <1>3, <3>1, <3>2 DEF Known
    <3>5. u \in from
      BY <1>1, <1>6, <3>3, <3>4
    <3>6. End(c) \in Walked(E, Sources(pins, within), {}, t)
      BY <3>1, <3>2, <3>5, WalkedByPath
    <3> QED BY <3>3, <3>6
  <2> QED BY <2>1, <2>2
<1> QED BY <1>5, <1>6

\* who.go:35-41: whichever two requests were served over whatever was
\* ingested, an audit names an account at an instant exactly if the account,
\* asked about, is said to reach one of the pins at that instant.
THEOREM WhoIsAuditReversed == Spec => []WhoIsTheAuditReversed
<1>1. ASSUME AuditInv PROVE WhoIsTheAuditReversed
  <2> SUFFICES ASSUME NEW c \in Clients, NEW d \in Clients,
                      Answered(c), Query(c).kind = "audit",
                      Answered(d), Query(d).kind = "who",
                      Within(c) = Within(d), NEW t \in Instants
               PROVE  (\E p \in Packages : Holds(through[c][Query(d).handle][p], t))
                        <=> Reached(d)[t] \cap Query(c).pins # {}
    BY DEF WhoIsTheAuditReversed
  <2> DEFINE h == Query(d).handle
             pins == Query(c).pins
  <2>1. /\ Query(d) \in Requests /\ h \in Handles /\ Within(c) \in Span
        /\ world \in Worlds /\ t \in Int
    BY <1>1, AskedIs, RequestsAsk DEF Answered, AuditInv, TypeOK, Instants
  <2>2. Reached(c)[t] = Walked(world.edges, Sources(pins, Within(c)), {}, t)
    BY DEF Reached, Everywhere, Entries, Searched
  <2>3. Reached(d)[t] = Walked(Reversed(world.edges), WhoSources(h, Within(c)), {}, t)
    BY DEF Reached, Everywhere, Entries, Searched
  <2>4. (\E v \in Reached(c)[t] : HeldAt(h, PackageOf(v), t)) <=> Reached(d)[t] \cap pins # {}
    BY <1>1, <2>1, <2>2, <2>3, ReachedBackwards
  <2>5. Audited(c)
    BY DEF Answered, Audited
  <2>6. \A p \in Packages : Holds(through[c][h][p], t) <=>
            p \in PackagesOf(Reached(c)[t]) /\ HeldAt(h, p, t)
    BY <1>1, <2>1, <2>5, RosterIsRight
  <2>7. \A p : HeldAt(h, p, t) => p \in Packages
    BY <1>1 DEF HeldAt, AuditInv, EdgesInv
  <2> QED BY <2>4, <2>6, <2>7 DEF PackagesOf
<1> QED BY <1>1, AuditInvariant, PTL

-----------------------------------------------------------------------------
(* The chains.                                                             *)

\* A consists of n numbers, those of f, and of a.
Numbers(A, n, f, a) ==
    /\ n \in Nat /\ a \in Int /\ \A k \in 1 .. n : f[k] \in Int
    /\ A = {f[k] : k \in 1 .. n} \cup {a}

\* Of finitely many numbers one is the least and one the greatest.
LEMMA ExtremesExist ==
    ASSUME NEW A, NEW n, NEW f, NEW a, Numbers(A, n, f, a)
    PROVE  /\ Least(A) \in A /\ \A x \in A : Least(A) <= x
           /\ Greatest(A) \in A /\ \A x \in A : x <= Greatest(A)
<1> USE DEF Numbers
<1> DEFINE S(m) == {f[k] : k \in 1 .. m} \cup {a}
           Bounded(m) == /\ \E l \in S(m) : \A x \in S(m) : l <= x
                         /\ \E g \in S(m) : \A x \in S(m) : x <= g
           Upto == {m \in Nat : m <= n => Bounded(m)}
<1>1. 0 \in Upto
  <2>1. a \in S(0) /\ a <= a /\ \A x \in S(0) : x = a
    OBVIOUS
  <2> QED BY <2>1
<1>2. ASSUME NEW m \in Nat, m \in Upto PROVE m + 1 \in Upto
  <2> SUFFICES ASSUME m + 1 <= n PROVE Bounded(m + 1)
    OBVIOUS
  <2>1. S(m + 1) = S(m) \cup {f[m + 1]} /\ f[m + 1] \in Int
    <3>1. 1 .. m + 1 = (1 .. m) \cup {m + 1}
      OBVIOUS
    <3> QED BY <3>1
  <2>2. S(m) \subseteq Int
    OBVIOUS
  <2>3. Bounded(m)
    BY <1>2
  <2>4. PICK l \in S(m) : \A x \in S(m) : l <= x
    BY <2>3
  <2>5. PICK g \in S(m) : \A x \in S(m) : x <= g
    BY <2>3
  <2> HIDE DEF S
  <2>6. Earlier(l, f[m + 1]) \in S(m + 1) /\ \A x \in S(m + 1) : Earlier(l, f[m + 1]) <= x
    BY <2>1, <2>2, <2>4 DEF Earlier
  <2>7. Later(g, f[m + 1]) \in S(m + 1) /\ \A x \in S(m + 1) : x <= Later(g, f[m + 1])
    BY <2>1, <2>2, <2>5 DEF Later
  <2> QED BY <2>6, <2>7
<1> HIDE DEF Bounded
<1>3. Nat \subseteq Upto
  <2> HIDE DEF Upto
  <2> QED BY <1>1, <1>2, NatInductive
<1>4. n <= n /\ S(n) = A
  OBVIOUS
<1>5. Bounded(n)
  BY <1>3, <1>4
<1> QED BY <1>4, <1>5 DEF Bounded, Least, Greatest

\* The span of a path holds the instants at which all its edges do
\* (proof.go, coexistenceChain).
LEMMA SpanOfAllPointwise ==
    ASSUME NEW c, NEW n \in Nat, DOMAIN c = 1 .. n, \A k \in 1 .. n : c[k].valid \in Span
    PROVE  /\ SpanOfAll(c) \in Span
           /\ \A t \in Int : Contains(SpanOfAll(c), t) <=>
                 t \in Instants /\ \A k \in 1 .. n : Contains(c[k].valid, t)
<1> DEFINE F == {c[k].valid.from : k \in 1 .. n} \cup {0}
           T == {c[k].valid.to : k \in 1 .. n} \cup {OpenInterval}
<1>1. \A k \in 1 .. n : c[k].valid.from \in Int /\ c[k].valid.to \in Int
  BY DEF Span
<1>2. OpenInterval \in Int
  BY OpenIntervalAssumption
<1>3. Greatest(F) \in F /\ \A x \in F : x <= Greatest(F)
  <2> DEFINE f == [k \in 1 .. n |-> c[k].valid.from]
  <2>1. Numbers(F, n, f, 0)
    BY <1>1 DEF Numbers
  <2> HIDE DEF f, F
  <2> QED BY <2>1, ExtremesExist
<1>4. Least(T) \in T /\ \A x \in T : Least(T) <= x
  <2> DEFINE f == [k \in 1 .. n |-> c[k].valid.to]
  <2>1. Numbers(T, n, f, OpenInterval)
    BY <1>1, <1>2 DEF Numbers
  <2> HIDE DEF f, T
  <2> QED BY <2>1, ExtremesExist
<1>5. SpanOfAll(c) = [from |-> Greatest(F), to |-> Least(T)]
  BY DEF SpanOfAll, Always
<1>6. F \subseteq Int /\ T \subseteq Int
  BY <1>1, <1>2
<1>7. \A t \in Int :
          /\ (\A x \in F : x <= t) <=> 0 <= t /\ \A k \in 1 .. n : c[k].valid.from <= t
          /\ (\A x \in T : t < x) <=> t < OpenInterval /\ \A k \in 1 .. n : t < c[k].valid.to
  OBVIOUS
<1> HIDE DEF F, T
<1>8. SpanOfAll(c) \in Span
  <2>1. Greatest(F) \in Int /\ Least(T) \in Int
    BY <1>3, <1>4, <1>6
  <2> QED BY <1>5, <2>1 DEF Span
<1>9. ASSUME NEW t \in Int
      PROVE  /\ Greatest(F) <= t <=> 0 <= t /\ \A k \in 1 .. n : c[k].valid.from <= t
             /\ t < Least(T) <=> t < OpenInterval /\ \A k \in 1 .. n : t < c[k].valid.to
  <2>1. Greatest(F) <= t <=> \A x \in F : x <= t
    <3>1. Greatest(F) \in Int /\ \A x \in F : x \in Int
      BY <1>3, <1>6
    <3> QED BY <1>3, <3>1
  <2>2. t < Least(T) <=> \A x \in T : t < x
    <3>1. Least(T) \in Int /\ \A x \in T : x \in Int
      BY <1>4, <1>6
    <3> QED BY <1>4, <3>1
  <2> QED BY <1>7, <2>1, <2>2
<1>10. \A t \in Int : t \in Instants <=> 0 <= t /\ t < OpenInterval
  BY <1>2 DEF Instants
<1>11. ASSUME NEW t \in Int
       PROVE  Contains(SpanOfAll(c), t) <=>
                  t \in Instants /\ \A k \in 1 .. n : Contains(c[k].valid, t)
  BY <1>5, <1>9, <1>10 DEF Contains
<1> QED BY <1>8, <1>11

\* A span is empty exactly if it holds no instant.
LEMMA EmptyIsNoInstant ==
    ASSUME NEW i \in Span
    PROVE  Empty(i) <=> \A t \in Int : ~ Contains(i, t)
<1>1. ~ Empty(i) => i.from \in Int /\ Contains(i, i.from)
  BY DEF Empty, Span, Contains
<1> QED BY <1>1, EmptyHoldsNothing

\* A sequence of one edge.
LEMMA OneEdge ==
    ASSUME NEW E, NEW e \in E
    PROVE  /\ <<e>> \in Seq(E) /\ Len(<<e>>) = 1 /\ <<e>>[1] = e
           /\ \A g \in Seq(E) : Len(g) = 1 /\ g[1] = e => g = <<e>>
OBVIOUS

\* The paths of one edge, and those an edge longer than the ones of X, which
\* have k - 1 edges.
Singles(S) ==
    {<<e>> : e \in {x \in world.edges : x.from \in S}}

Longer(X, k) ==
    {Append(p[1], p[2]) : p \in
        {x \in X \X world.edges : x[1][k - 1].to = x[2].from}}

\* The paths are found an edge at a time.
LEMMA PathsAreLengthened ==
    ASSUME NEW S
    PROVE  \E b : /\ b[1] = Singles(S)
                  /\ \A k \in 2 .. MaxDepth : b[k] = Longer(b[k - 1], k)
                  /\ UnionPaths(S) = UNION {b[k] : k \in 1 .. MaxDepth}
<1> DEFINE D == SUBSET Seq(world.edges)
           F == [x \in Int \X D |-> Longer(x[2], x[1])]
           IsLong(b) ==
              b = [k \in 1 .. MaxDepth |->
                     IF k = 1
                     THEN {<<e>> : e \in {x \in world.edges : x.from \in S}}
                     ELSE {Append(p[1], p[2]) : p \in
                            {x \in b[k - 1] \X world.edges : x[1][k - 1].to = x[2].from}}]
<1>0. MaxDepth \in Nat /\ 1 <= MaxDepth
  BY AuditAssumption
<1>1. ASSUME NEW X \in D, NEW k \in Int PROVE Longer(X, k) \in D
  <2> SUFFICES ASSUME NEW p \in X \X world.edges PROVE Append(p[1], p[2]) \in Seq(world.edges)
    BY DEF Longer
  <2>1. p[1] \in Seq(world.edges) /\ p[2] \in world.edges
    OBVIOUS
  <2> QED BY <2>1
<1>2. F \in [Int \X D -> D]
  BY <1>1
<1>3. Singles(S) \in D
  <2>1. \A e \in world.edges : <<e>> \in Seq(world.edges)
    BY OneEdge
  <2> QED BY <2>1 DEF Singles
<1>4. \A k \in Int, X \in D : F[<<k, X>>] = Longer(X, k)
  OBVIOUS
<1> HIDE DEF D, F
<1>5. PICK f : IterationOf(f, 1, MaxDepth, D, Singles(S), F)
  <2>1. Iterating(1, MaxDepth, D, Singles(S), F)
    BY <1>0, <1>2, <1>3 DEF Iterating
  <2> QED BY <2>1, IterationExists
<1>6. /\ f \in [1 .. MaxDepth -> D] /\ f[1] = Singles(S)
      /\ \A k \in 2 .. MaxDepth : f[k] = F[<<k, f[k - 1]>>]
  BY <1>0, <1>5 DEF IterationOf
<1>7. \A k \in 2 .. MaxDepth : f[k] = Longer(f[k - 1], k)
  <2> TAKE k \in 2 .. MaxDepth
  <2>1. k \in Int /\ f[k - 1] \in D
    BY <1>0, <1>6
  <2> QED BY <1>4, <1>6, <2>1
<1> DEFINE H(b, k) == IF k = 1 THEN Singles(S) ELSE Longer(b[k - 1], k)
<1>8. \A b : IsLong(b) <=> b = [k \in 1 .. MaxDepth |-> H(b, k)]
  BY DEF Singles, Longer
<1>9. ASSUME NEW b
      PROVE  H(b, 1) = Singles(S) /\ \A k \in 2 .. MaxDepth : H(b, k) = Longer(b[k - 1], k)
  OBVIOUS
<1>10. \A k \in 1 .. MaxDepth : k = 1 \/ k \in 2 .. MaxDepth
  BY <1>0
<1>11. f = [k \in 1 .. MaxDepth |-> H(f, k)]
  <2> HIDE DEF H
  <2>1. \A k \in 1 .. MaxDepth : f[k] = H(f, k)
    BY <1>6, <1>7, <1>9, <1>10
  <2> QED BY <1>6, <2>1
<1>12. IsLong(f)
  <2> HIDE DEF H, IsLong
  <2> QED BY <1>8, <1>11
<1> DEFINE b == CHOOSE g : IsLong(g)
<1>13. IsLong(b)
  <2> HIDE DEF IsLong
  <2> QED BY <1>12
<1>14. UnionPaths(S) = UNION {b[k] : k \in 1 .. MaxDepth}
  BY DEF UnionPaths
<1> HIDE DEF b
<1>15. b = [k \in 1 .. MaxDepth |-> H(b, k)]
  <2> HIDE DEF H, IsLong
  <2> QED BY <1>8, <1>13
<1>16. b[1] = Singles(S) /\ \A k \in 2 .. MaxDepth : b[k] = Longer(b[k - 1], k)
  <2> HIDE DEF H
  <2>1. \A k \in 1 .. MaxDepth : b[k] = H(b, k)
    BY <1>15
  <2>2. 1 \in 1 .. MaxDepth /\ \A k \in 2 .. MaxDepth : k \in 1 .. MaxDepth
    BY <1>0
  <2> QED BY <1>9, <2>1, <2>2
<1> QED BY <1>14, <1>16

\* The span of a path.
LEMMA PathSpans ==
    ASSUME world \in Worlds, NEW c, Path(world.edges, c)
    PROVE  /\ SpanOfAll(c) \in Span
           /\ \A t \in Int : Contains(SpanOfAll(c), t) <=>
                 t \in Instants /\ \A k \in 1 .. Len(c) : Contains(c[k].valid, t)
<1>1. world.edges \in SUBSET Edge /\ MaxDepth \in Nat
  BY MaintainersAssumption, AuditAssumption
<1>2. c \in Seq(world.edges) /\ Len(c) \in Nat /\ DOMAIN c = 1 .. Len(c)
  BY <1>1 DEF Path
<1>3. \A k \in 1 .. Len(c) : c[k].valid \in Span
  BY <1>1, <1>2 DEF Edge
<1> QED BY <1>2, <1>3, SpanOfAllPointwise

\* What the procedure searches are the paths of the graph out of S.
LEMMA UnionPathsAre ==
    ASSUME world \in Worlds, NEW S, NEW c
    PROVE  c \in UnionPaths(S) <=> Path(world.edges, c) /\ c[1].from \in S
<1> DEFINE E == world.edges
           Kept(n) == {g \in Seq(E) : Path(E, g) /\ Len(g) = n /\ g[1].from \in S}
<1>0. MaxDepth \in Nat /\ 1 <= MaxDepth
  BY AuditAssumption
<1>1. PICK b : /\ b[1] = Singles(S)
               /\ \A k \in 2 .. MaxDepth : b[k] = Longer(b[k - 1], k)
               /\ UnionPaths(S) = UNION {b[k] : k \in 1 .. MaxDepth}
  BY PathsAreLengthened
<1>2. Singles(S) = Kept(1)
  <2>1. ASSUME NEW e \in E, e.from \in S PROVE <<e>> \in Kept(1)
    <3> DEFINE g == <<e>>
    <3>1. g \in Seq(E) /\ Len(g) = 1 /\ g[1] = e
      BY OneEdge
    <3> HIDE DEF g
    <3>2. Path(E, g)
      BY <1>0, <3>1 DEF Path
    <3>5. g \in Kept(1)
      BY <2>1, <3>1, <3>2
    <3> QED BY <3>5 DEF g
  <2>2. ASSUME NEW g \in Kept(1)
        PROVE  \E e \in E : e.from \in S /\ g = <<e>>
    <3>0. g \in Seq(E) /\ Len(g) = 1 /\ g[1].from \in S
      OBVIOUS
    <3>1. g[1] \in E
      <4> HIDE DEF Kept, E
      <4>1. 1 \in DOMAIN g
        BY <3>0
      <4> QED BY <3>0, <4>1
    <3>2. g = <<g[1]>>
      BY <3>0, <3>1, OneEdge
    <3> QED BY <3>0, <3>1, <3>2
  <2> HIDE DEF Kept
  <2> QED BY <2>1, <2>2 DEF Singles
<1>3. ASSUME NEW g \in Seq(E), Len(g) \in Nat, Len(g) >= 1, NEW e \in E
      PROVE  LET x == Append(g, e)
             IN  /\ x \in Seq(E) /\ Len(x) = Len(g) + 1 /\ x[1] = g[1]
                 /\ \A k \in 1 .. Len(g) : x[k] = g[k]
                 /\ x[Len(g) + 1] = e
                 /\ Path(E, x) <=> /\ Len(g) + 1 <= MaxDepth
                                   /\ Path(E, g) /\ g[Len(g)].to = e.from
  <2> DEFINE x == Append(g, e)
  <2>1. /\ x \in Seq(E) /\ Len(x) = Len(g) + 1 /\ x[Len(g) + 1] = e
        /\ \A k \in 1 .. Len(g) : x[k] = g[k]
    OBVIOUS
  <2> HIDE DEF x
  <2>2. x[1] = g[1]
    BY <1>3, <2>1
  <2>5. 1 .. Len(x) - 1 = (1 .. Len(g) - 1) \cup {Len(g)}
    BY <1>3, <2>1
  <2>6. \A k \in 1 .. Len(g) - 1 : k \in 1 .. Len(g) /\ k + 1 \in 1 .. Len(g)
    BY <1>3
  <2>7. Len(g) \in 1 .. Len(g)
    BY <1>3
  <2>8. (\A k \in 1 .. Len(x) - 1 : x[k].to = x[k + 1].from) <=>
           /\ \A k \in 1 .. Len(g) - 1 : g[k].to = g[k + 1].from
           /\ g[Len(g)].to = e.from
    BY <2>1, <2>5, <2>6, <2>7
  <2>9. Len(x) \in 1 .. MaxDepth <=> Len(g) + 1 <= MaxDepth
    BY <1>0, <1>3, <2>1
  <2>10. Len(g) + 1 <= MaxDepth => Len(g) \in 1 .. MaxDepth
    BY <1>0, <1>3
  <2>11. Path(E, x) <=> /\ Len(g) + 1 <= MaxDepth
                        /\ Path(E, g) /\ g[Len(g)].to = e.from
    BY <2>1, <2>8, <2>9, <2>10 DEF Path
  <2> QED BY <2>1, <2>2, <2>11 DEF x
<1>4. ASSUME NEW n \in Nat, 1 <= n, n + 1 <= MaxDepth
      PROVE  Longer(Kept(n), n + 1) = Kept(n + 1)
  <2>1. ASSUME NEW g \in Kept(n), NEW e \in E, g[(n + 1) - 1].to = e.from
        PROVE  Append(g, e) \in Kept(n + 1)
    <3>1. /\ g \in Seq(E) /\ Path(E, g) /\ Len(g) = n /\ g[1].from \in S
          /\ g[Len(g)].to = e.from /\ Len(g) \in Nat /\ Len(g) >= 1
      BY <1>4, <2>1
    <3> DEFINE x == Append(g, e)
    <3>3. x \in Seq(E) /\ Len(x) = n + 1 /\ x[1] = g[1] /\ Path(E, x)
      BY <1>3, <1>4, <3>1
    <3> HIDE DEF x
    <3>4. x \in Kept(n + 1)
      BY <3>1, <3>3
    <3> QED BY <3>4 DEF x
  <2>2. ASSUME NEW x \in Kept(n + 1)
        PROVE  \E g \in Kept(n), e \in E : g[(n + 1) - 1].to = e.from /\ x = Append(g, e)
    <3> DEFINE g == [k \in 1 .. n |-> x[k]]
               e == x[n + 1]
    <3>1. x \in Seq(E) /\ Len(x) = n + 1
      OBVIOUS
    <3>2. /\ g \in Seq(E) /\ Len(g) = n /\ e \in E /\ x = Append(g, e)
          /\ Len(g) \in Nat /\ Len(g) >= 1
      BY <1>4, <3>1
    <3>4. Path(E, x) /\ x[1].from \in S
      OBVIOUS
    <3> HIDE DEF g, e, Kept
    <3>5. Path(E, g) /\ g[1] = x[1] /\ g[Len(g)].to = e.from
      BY <1>3, <3>2, <3>4
    <3>6. g \in Kept(n)
      BY <3>2, <3>4, <3>5 DEF Kept
    <3>8. (n + 1) - 1 = Len(g)
      BY <3>2
    <3> QED BY <3>2, <3>5, <3>6, <3>8
  <2> DEFINE long == {p \in Kept(n) \X E : p[1][(n + 1) - 1].to = p[2].from}
  <2> HIDE DEF Kept
  <2>3. Longer(Kept(n), n + 1) = {Append(p[1], p[2]) : p \in long}
    BY DEF Longer
  <2>4. \A p \in long : Append(p[1], p[2]) \in Kept(n + 1)
    BY <2>1
  <2>5. \A x \in Kept(n + 1) : \E p \in long : x = Append(p[1], p[2])
    <3> TAKE x \in Kept(n + 1)
    <3>1. PICK g \in Kept(n) : \E e \in E :
                  g[(n + 1) - 1].to = e.from /\ x = Append(g, e)
      BY <2>2
    <3>2. PICK e \in E :
                  g[(n + 1) - 1].to = e.from /\ x = Append(g, e)
      BY <3>1
    <3> DEFINE p == <<g, e>>
    <3>3. p[1] = g /\ p[2] = e /\ p \in Kept(n) \X E
      OBVIOUS
    <3> HIDE DEF p
    <3>4. p \in long
      BY <3>2, <3>3
    <3> QED BY <3>2, <3>3, <3>4
  <2> HIDE DEF long
  <2> QED BY <2>3, <2>4, <2>5
<1> DEFINE Upto == {n \in Nat : n + 1 <= MaxDepth => b[n + 1] = Kept(n + 1)}
<1>5. Nat \subseteq Upto
  <2> HIDE DEF Kept
  <2>1. 0 \in Upto
    BY <1>1, <1>2
  <2>2. ASSUME NEW n \in Nat, n \in Upto PROVE n + 1 \in Upto
    <3> SUFFICES ASSUME (n + 1) + 1 <= MaxDepth PROVE b[(n + 1) + 1] = Kept((n + 1) + 1)
      OBVIOUS
    <3> DEFINE k == n + 1
    <3>1. k \in Nat /\ 1 <= k /\ k + 1 <= MaxDepth /\ k <= MaxDepth
          /\ k + 1 \in 2 .. MaxDepth /\ (k + 1) - 1 = k
      BY <1>0
    <3>2. b[k] = Kept(k)
      BY <2>2, <3>1
    <3> HIDE DEF k
    <3>3. b[k + 1] = Longer(b[k], k + 1)
      BY <1>1, <3>1
    <3>4. b[k + 1] = Kept(k + 1)
      BY <1>4, <3>1, <3>2, <3>3
    <3> QED BY <3>4 DEF k
  <2> HIDE DEF Upto
  <2> QED BY <2>1, <2>2, NatInductive
<1>6. \A k \in 1 .. MaxDepth : b[k] = Kept(k)
  <2> TAKE k \in 1 .. MaxDepth
  <2>1. k - 1 \in Nat /\ (k - 1) + 1 = k /\ k <= MaxDepth
    BY <1>0
  <2>2. k - 1 \in Upto
    BY <1>5, <2>1
  <2> HIDE DEF Kept
  <2> QED BY <2>1, <2>2
<1>7. c \in UnionPaths(S) <=> \E k \in 1 .. MaxDepth : c \in Kept(k)
  <2> HIDE DEF Kept
  <2> QED BY <1>1, <1>6
<1>8. Path(E, c) => c \in Seq(E) /\ Len(c) \in 1 .. MaxDepth
  BY DEF Path
<1> QED BY <1>7, <1>8

\* The chains out of S are the paths out of it whose edges share an instant.
LEMMA ChainsAre ==
    ASSUME world \in Worlds, NEW S, NEW c
    PROVE  c \in Chains(S) <=>
              /\ Path(world.edges, c) /\ c[1].from \in S
              /\ \E t \in Instants : Live(c, {}, t)
<1>1. ASSUME Path(world.edges, c)
      PROVE  ~ Empty(SpanOfAll(c)) <=> \E t \in Instants : Live(c, {}, t)
  <2>1. /\ SpanOfAll(c) \in Span
        /\ \A t \in Int : Contains(SpanOfAll(c), t) <=>
              t \in Instants /\ \A k \in 1 .. Len(c) : Contains(c[k].valid, t)
    BY <1>1, PathSpans
  <2>2. Instants \subseteq Int
    BY DEF Instants
  <2> QED BY <2>1, <2>2, EmptyIsNoInstant DEF Live
<1> QED BY <1>1, UnionPathsAre DEF Chains, Coexistent

\* A path out of a pin starts, while it is live, where an audit of all times
\* starts.
LEMMA LivePathsStart ==
    ASSUME world \in Worlds, NEW pins, NEW c, Path(world.edges, c), c[1].from \in pins,
           NEW t \in Instants, Live(c, {}, t)
    PROVE  c[1].from \in Start(Sources(pins, Always), {}, t)
<1>1. MaxDepth \in Nat
  BY AuditAssumption
<1>2. 1 \in 1 .. Len(c) /\ c \in Seq(world.edges)
  BY <1>1 DEF Path
<1>3. c[1] \in world.edges /\ Contains(c[1].valid, t)
  BY <1>2 DEF Live
<1>4. PICK r \in world.releases : r.urn = c[1].from
  BY <1>3, GraphIsClosed DEF Known
<1>5. r.published <= t
  BY <1>3, <1>4, LiveIsPublished
<1>6. Always \in Span /\ Contains(Always, t)
  BY OpenIntervalAssumption DEF Always, Span, Contains, Instants
<1> QED BY <1>4, <1>5, <1>6, SourcesAt

\* What an audit starts from are pins that the graph knows.
LEMMA StartsAreKnownPins ==
    ASSUME world \in Worlds, NEW pins, NEW within \in Span, NEW t \in Instants, NEW B
    PROVE  /\ Start(Sources(pins, within), B, t) \subseteq (pins \cap Known) \ B
           /\ Start(Sources(pins, within), B, t) = Start(Sources(pins, within), {}, t) \ B
BY SourcesAt DEF Known

\* What the path request of a client reaches.
LEMMA PathsAreReached ==
    ASSUME AuditInv, NEW c \in Clients, Answered(c), Query(c).kind = "path"
    PROVE  /\ Within(c) \in Span /\ Audited(c) /\ Query(c).handle \in Handles
           /\ Entries(c) = Sources(Query(c).pins, Within(c))
           /\ \A t \in Instants :
                 Reached(c)[t] = Walked(world.edges, Sources(Query(c).pins, Within(c)), {}, t)
<1>1. Within(c) \in Span /\ Query(c) \in Requests
  BY AskedIs DEF Answered
<1>2. Query(c).handle \in Handles
  BY <1>1, RequestsAsk
<1>3. Audited(c)
  BY DEF Audited, Answered
<1>4. Entries(c) = Sources(Query(c).pins, Within(c)) /\ Searched(c) = world.edges
  BY DEF Entries, Searched
<1>5. \A t \in Instants :
          Reached(c)[t] = Walked(world.edges, Sources(Query(c).pins, Within(c)), {}, t)
  BY <1>4 DEF Reached, Everywhere
<1> QED BY <1>1, <1>2, <1>3, <1>4, <1>5

\* A call returns whole every pair that has no more paths than it may return,
\* and nothing but paths out of S to the targets.
LEMMA FoundAre ==
    ASSUME world \in Worlds, NEW S, NEW T, NEW R \in PathsFound(S, T)
    PROVE  /\ \A x \in R : x \in UnionPaths(S) /\ End(x) \in T
           /\ \A x \in UnionPaths(S) :
                 End(x) \in T /\ ~ TooMany(x[1].from, End(x)) => x \in R
<1>1. \A x \in R : x \in UnionPaths(S) /\ End(x) \in T
  BY DEF PathsFound
<1>2. ASSUME NEW x \in UnionPaths(S), End(x) \in T, ~ TooMany(x[1].from, End(x))
      PROVE  x \in R
  <2>1. Path(world.edges, x) /\ x[1].from \in S
    BY UnionPathsAre
  <2> DEFINE s == x[1].from
  <2>2. x \in UnionPaths({s})
    BY <2>1, UnionPathsAre
  <2>3. x \in Pair(s, End(x))
    BY <2>2 DEF Pair
  <2>4. Pair(s, End(x)) \subseteq R
    BY <1>2, <2>1 DEF PathsFound
  <2> QED BY <2>3, <2>4
<1> QED BY <1>1, <1>2

\* proof.go:80-98, 109-118: for every package an account holds a key through,
\* unless a version of it is a pin itself, there is a chain.  One is shown, and
\* none longer than it, unless there are more paths than one call returns.
\* What is shown starts at a pin, its edges held at one time, and whenever they
\* did the audit reached its end.
THEOREM KeysAreProved == Spec => []EveryKeyIsProved
<1>1. ASSUME AuditInv PROVE EveryKeyIsProved
  <2> SUFFICES ASSUME NEW c \in Clients, Answered(c), Query(c).kind = "path",
                      NEW p \in Held(c, Query(c).handle) \ PackagesOf(Query(c).pins \cap Known)
               PROVE  LET S == Query(c).pins \cap Known
                          T == {v \in UNION {Reached(c)[t] : t \in Instants} : PackageOf(v) = p}
                          chains == {x \in Chains(S) : End(x) \in T}
                      IN  /\ chains # {}
                          /\ \A R \in PathsFound(S, T) :
                                /\ \A x \in chains :
                                      TooMany(x[1].from, End(x)) \/
                                          (Shown(R) # {} /\ \A y \in Shown(R) : Len(y) <= Len(x))
                                /\ Within(c) = Always =>
                                      \A x \in Shown(R) :
                                          /\ ~ Empty(SpanOfAll(x)) /\ x[1].from \in S
                                          /\ \A t \in Instants :
                                                Contains(SpanOfAll(x), t) => End(x) \in Reached(c)[t]
    BY DEF EveryKeyIsProved
  <2> DEFINE h == Query(c).handle
             pins == Query(c).pins
             S == pins \cap Known
             T == {v \in UNION {Reached(c)[t] : t \in Instants} : PackageOf(v) = p}
             E == world.edges
             chains == {x \in Chains(S) : End(x) \in T}
  <2>1. /\ Within(c) \in Span /\ Audited(c) /\ h \in Handles /\ world \in Worlds
        /\ \A t \in Instants : Reached(c)[t] = Walked(E, Sources(pins, Within(c)), {}, t)
    BY <1>1, PathsAreReached DEF AuditInv, TypeOK
  <2>2. chains # {}
    <3>1. p \in Packages /\ through[c][h][p] # {}
      BY DEF Held
    <3>2. PICK i \in through[c][h][p] : TRUE
      BY <3>1
    <3>3. i \in Span /\ ~ Empty(i) /\ i.from \in Int
      BY <1>1, <2>1, <3>1, <3>2, RosterIsRight DEF Maximal, Span
    <3>4. Contains(i, i.from)
      BY <3>3 DEF Contains, Empty, Span
    <3>5. i.from \in Instants /\ p \in PackagesOf(Reached(c)[i.from])
      BY <1>1, <2>1, <3>1, <3>2, <3>3, <3>4, RosterIsRight DEF Holds
    <3> DEFINE t == i.from
    <3>6. PICK v \in Reached(c)[t] : PackageOf(v) = p
      BY <3>5 DEF PackagesOf
    <3>7. v \notin Start(Sources(pins, Within(c)), {}, t)
      BY <2>1, <3>5, <3>6, StartsAreKnownPins DEF PackagesOf
    <3>8. PICK x : /\ Path(E, x) /\ Live(x, {}, t) /\ End(x) = v
                   /\ x[1].from \in Start(Sources(pins, Within(c)), {}, t)
      BY <2>1, <3>5, <3>6, <3>7, WalkedByPath
    <3>9. x[1].from \in S
      BY <2>1, <3>5, <3>8, StartsAreKnownPins
    <3>10. x \in Chains(S)
      BY <2>1, <3>5, <3>8, <3>9, ChainsAre
    <3> QED BY <3>5, <3>6, <3>8, <3>10
  <2>3. ASSUME NEW R \in PathsFound(S, T)
        PROVE  Coexistent(R) \subseteq chains
    <3> SUFFICES ASSUME NEW x \in Coexistent(R) PROVE x \in chains
      OBVIOUS
    <3>1. x \in R /\ ~ Empty(SpanOfAll(x))
      BY DEF Coexistent
    <3> HIDE DEF S, T
    <3>2. x \in UnionPaths(S) /\ End(x) \in T
      BY <2>1, <2>3, <3>1, FoundAre
    <3> QED BY <3>1, <3>2 DEF Chains, Coexistent
  <2>4. ASSUME NEW R \in PathsFound(S, T), NEW x \in chains, ~ TooMany(x[1].from, End(x))
        PROVE  Shown(R) # {} /\ \A y \in Shown(R) : Len(y) <= Len(x)
    <3> HIDE DEF S, T
    <3>1. x \in UnionPaths(S) /\ ~ Empty(SpanOfAll(x)) /\ End(x) \in T
      BY DEF Chains, Coexistent
    <3>2. x \in R
      BY <2>1, <2>4, <3>1, FoundAre
    <3>3. x \in Coexistent(R)
      BY <3>1, <3>2 DEF Coexistent
    <3> DEFINE L == {Len(y) : y \in Coexistent(R)}
    <3>4. L \in SUBSET Nat /\ L # {}
      <4>1. \A y : Path(E, y) => Len(y) \in Nat
        <5>1. MaxDepth \in Nat
          BY AuditAssumption
        <5> QED BY <5>1 DEF Path
      <4>2. \A y \in Coexistent(R) : Len(y) \in Nat
        <5> TAKE y \in Coexistent(R)
        <5>1. y \in Chains(S)
          BY <2>3, <2>4
        <5> QED BY <2>1, <4>1, <5>1, ChainsAre
      <4> QED BY <3>3, <4>2
    <3>5. Least(L) \in L /\ \A n \in L : Least(L) <= n
      BY <3>4, LeastNatural
    <3>6. PICK y \in Coexistent(R) : Len(y) = Least(L)
      BY <3>5
    <3>7. y \in Shown(R)
      BY <3>5, <3>6 DEF Shown
    <3> QED BY <3>3, <3>7 DEF Shown
  <2>5. ASSUME Within(c) = Always, NEW R \in PathsFound(S, T), NEW x \in Shown(R)
        PROVE  /\ ~ Empty(SpanOfAll(x)) /\ x[1].from \in S
               /\ \A t \in Instants : Contains(SpanOfAll(x), t) => End(x) \in Reached(c)[t]
    <3>1. x \in Coexistent(R)
      BY DEF Shown
    <3>2. x \in Chains(S)
      BY <2>3, <2>5, <3>1
    <3>3. Path(E, x) /\ x[1].from \in S
      BY <2>1, <3>2, ChainsAre
    <3>4. \A t \in Instants : Contains(SpanOfAll(x), t) <=> Live(x, {}, t)
      <4>1. Instants \subseteq Int
        BY DEF Instants
      <4> QED BY <2>1, <3>3, <4>1, PathSpans DEF Live
    <3>5. ASSUME NEW t \in Instants, Contains(SpanOfAll(x), t) PROVE End(x) \in Reached(c)[t]
      <4>1. x[1].from \in Start(Sources(pins, Always), {}, t)
        BY <2>1, <3>3, <3>4, <3>5, LivePathsStart
      <4>2. End(x) \in Walked(E, Sources(pins, Always), {}, t)
        BY <3>3, <3>4, <3>5, <4>1, WalkedByPath
      <4> QED BY <2>1, <2>5, <4>2
    <3>6. ~ Empty(SpanOfAll(x))
      BY <3>1 DEF Coexistent
    <3> QED BY <3>3, <3>5, <3>6
  <2> HIDE DEF S, T, chains
  <2>6. \A R \in PathsFound(S, T) :
           /\ \A x \in chains :
                 TooMany(x[1].from, End(x)) \/
                     (Shown(R) # {} /\ \A y \in Shown(R) : Len(y) <= Len(x))
           /\ Within(c) = Always =>
                 \A x \in Shown(R) :
                     /\ ~ Empty(SpanOfAll(x)) /\ x[1].from \in S
                     /\ \A t \in Instants :
                           Contains(SpanOfAll(x), t) => End(x) \in Reached(c)[t]
    BY <2>4, <2>5
  <2> QED BY <2>2, <2>6 DEF S, T, chains
<1> QED BY <1>1, AuditInvariant, PTL

\* cut.go:7-11: what a project would lose with an account, beyond what the
\* account holds, is exactly what no chain from a pin leads to without passing
\* a package of the account.
THEOREM CutsAreDominance == Spec => []CutIsDominance
<1>1. ASSUME AuditInv PROVE CutIsDominance
  <2> SUFFICES ASSUME NEW c \in Clients, Answered(c), Query(c).kind = "path", Within(c) = Always,
                      NEW h \in Roster(c)
               PROVE  Beyond(c, h) =
                        {p \in ReachedPackages(c) \ Held(c, h) :
                            /\ p \notin PackagesOf(Query(c).pins \cap Known)
                            /\ \A x \in Chains(Query(c).pins) :
                                  PackageOf(End(x)) = p => ~ Avoids(x, Blocked(c, h))}
    BY DEF CutIsDominance
  <2> DEFINE pins == Query(c).pins
             B == Blocked(c, h)
             E == world.edges
             S == Sources(pins, Always)
  <2>1. world \in Worlds /\ Always \in Span /\ Entries(c) = S
    BY <1>1, PathsAreReached DEF AuditInv, TypeOK
  <2>2. Without(c, h) = UNION {Walked(E, S, B, t) : t \in Instants}
    BY <2>1 DEF Without
  <2>3. MaxDepth \in Nat /\ \A x : Path(E, x) => x \in Seq(E) /\ Len(x) \in 1 .. MaxDepth
    BY AuditAssumption DEF Path
  <2>4. \A x, t : Path(E, x) =>
            (Live(x, B, t) /\ x[1].from \notin B <=> Live(x, {}, t) /\ Avoids(x, B))
    <3>1. \A x : Path(E, x) => DOMAIN x = 1 .. Len(x)
      BY <2>3
    <3> HIDE DEF E, B
    <3> QED BY <3>1 DEF Live, Avoids
  <2>5. ASSUME NEW t \in Instants, NEW v \in Walked(E, S, B, t)
        PROVE  \/ v \in pins \cap Known
               \/ \E x \in Chains(pins) : End(x) = v /\ Avoids(x, B)
    <3>1. CASE v \in Start(S, B, t)
      BY <2>1, <3>1, StartsAreKnownPins
    <3>2. CASE v \notin Start(S, B, t)
      <4>1. PICK x : Path(E, x) /\ Live(x, B, t) /\ x[1].from \in Start(S, B, t) /\ End(x) = v
        BY <2>5, <3>2, WalkedByPath
      <4>2. x[1].from \in pins /\ x[1].from \notin B
        BY <2>1, <4>1, StartsAreKnownPins
      <4>3. Live(x, {}, t) /\ Avoids(x, B)
        BY <2>4, <4>1, <4>2
      <4>4. x \in Chains(pins)
        BY <2>1, <4>1, <4>2, <4>3, ChainsAre
      <4> QED BY <4>1, <4>3, <4>4
    <3> QED BY <3>1, <3>2
  <2>6. ASSUME NEW x \in Chains(pins), Avoids(x, B)
        PROVE  \E t \in Instants : End(x) \in Walked(E, S, B, t)
    <3>1. Path(E, x) /\ x[1].from \in pins
      BY <2>1, ChainsAre
    <3>2. PICK t \in Instants : Live(x, {}, t)
      BY <2>1, ChainsAre
    <3>3. Live(x, B, t) /\ x[1].from \notin B
      BY <2>4, <2>6, <3>1, <3>2
    <3>4. x[1].from \in Start(S, B, t)
      BY <2>1, <3>1, <3>2, <3>3, LivePathsStart, StartsAreKnownPins
    <3> QED BY <3>1, <3>3, <3>4, WalkedByPath
  <2>7. ASSUME NEW u \in pins \cap Known, PackageOf(u) \notin Held(c, h)
        PROVE  \E t \in Instants : u \in Walked(E, S, B, t)
    <3>1. PICK r \in world.releases : r.urn = u
      BY DEF Known
    <3> DEFINE t == r.published
    <3>2. t \in Instants
      <4>1. r.published \in Nat /\ r.published < OpenInterval
        BY <2>1, <3>1, PackageIs, AuditAssumption DEF Release
      <4> QED BY <4>1, OpenIntervalAssumption DEF Instants
    <3>3. u \notin B
      BY <2>7 DEF Blocked
    <3>4. t <= t /\ Contains(Always, t)
      BY <3>2, OpenIntervalAssumption DEF Always, Contains, Instants
    <3>5. u \in Start(S, B, t)
      BY <2>1, <3>1, <3>2, <3>3, <3>4, SourcesAt
    <3> HIDE DEF t
    <3> QED BY <3>2, <3>5, WalkedByPath
  <2>8. ASSUME NEW p, p \notin Held(c, h)
        PROVE  p \in PackagesOf(Without(c, h)) <=>
                  \/ p \in PackagesOf(pins \cap Known)
                  \/ \E x \in Chains(pins) : PackageOf(End(x)) = p /\ Avoids(x, B)
    <3> HIDE DEF B, S, E
    <3> QED BY <2>2, <2>5, <2>6, <2>7, <2>8 DEF PackagesOf
  <2> HIDE DEF B
  <2> QED BY <2>8 DEF Beyond, B
<1> QED BY <1>1, AuditInvariant, PTL

-----------------------------------------------------------------------------
(* The scores.                                                             *)

\* f adds the numbers w, a number at a time.
Sums(f, I, w) ==
    /\ IsFiniteSet(I) /\ f \in [SUBSET I -> Nat] /\ f[{}] = 0
    /\ \A k \in I : w[k] \in Nat
    /\ \A s \in SUBSET I : s # {} =>
          f[s] = f[s \ {CHOOSE x \in s : TRUE}] + w[CHOOSE x \in s : TRUE]

\* What is left of a finite set without the element that is taken first.
LEMMA TakeOne ==
    ASSUME NEW I, IsFiniteSet(I), NEW s \in SUBSET I
    PROVE  /\ Cardinality(s) \in Nat /\ (Cardinality(s) = 0 <=> s = {})
           /\ \A x \in s : s \ {x} \in SUBSET I /\ Cardinality(s \ {x}) = Cardinality(s) - 1
           /\ s # {} => (CHOOSE x \in s : TRUE) \in s
<1>1. IsFiniteSet(s)
  BY FS_Subset
<1>2. \A x \in s : Cardinality(s \ {x}) = Cardinality(s) - 1
  BY <1>1, FS_RemoveElement
<1> QED BY <1>1, <1>2, FS_CardinalityType, FS_EmptySet

\* A sum does not depend on what else there is to add.
LEMMA SumIsOne ==
    ASSUME NEW f, NEW I, NEW w, Sums(f, I, w), NEW g, NEW J, NEW v, Sums(g, J, v),
           NEW K, K \subseteq I, K \subseteq J, \A k \in K : w[k] = v[k]
    PROVE  f[K] = g[K]
<1> DEFINE Upto == {n \in Nat : \A s \in SUBSET K : Cardinality(s) = n => f[s] = g[s]}
<1>1. IsFiniteSet(K) /\ IsFiniteSet(I) /\ IsFiniteSet(J)
  BY FS_Subset DEF Sums
<1>2. 0 \in Upto
  BY <1>1, TakeOne DEF Sums
<1>3. ASSUME NEW n \in Nat, n \in Upto PROVE n + 1 \in Upto
  <2> SUFFICES ASSUME NEW s \in SUBSET K, Cardinality(s) = n + 1 PROVE f[s] = g[s]
    OBVIOUS
  <2> DEFINE x == CHOOSE y \in s : TRUE
             r == s \ {x}
  <2>1. s # {} /\ x \in s /\ r \in SUBSET K /\ Cardinality(r) = n
    <3>1. s # {}
      BY <1>1, TakeOne
    <3>2. x \in s
      BY <3>1
    <3>3. r \in SUBSET K /\ Cardinality(r) = Cardinality(s) - 1
      BY <1>1, <3>2, TakeOne
    <3> QED BY <3>1, <3>2, <3>3
  <2>2. f[r] = g[r]
    BY <1>3, <2>1
  <2>3. f[s] = f[r] + w[x] /\ g[s] = g[r] + v[x]
    BY <2>1 DEF Sums
  <2>4. w[x] = v[x]
    BY <2>1
  <2> QED BY <2>2, <2>3, <2>4
<1> HIDE DEF Upto
<1>4. Nat \subseteq Upto
  BY <1>2, <1>3, NatInductive
<1>5. Cardinality(K) \in Nat
  BY <1>1, TakeOne
<1> QED BY <1>4, <1>5 DEF Upto

\* Nor on the order.
LEMMA SumAdds ==
    ASSUME NEW f, NEW I, NEW w, Sums(f, I, w), NEW K \in SUBSET I, NEW k \in K
    PROVE  f[K] = f[K \ {k}] + w[k]
<1> DEFINE AddsEach(s) == \A j \in s : f[s] = f[s \ {j}] + w[j]
           Upto == {n \in Nat : \A s \in SUBSET I : Cardinality(s) = n => AddsEach(s)}
<1>0. IsFiniteSet(I)
  BY DEF Sums
<1>1. 0 \in Upto
  BY <1>0, TakeOne
<1>2. ASSUME NEW n \in Nat, n \in Upto PROVE n + 1 \in Upto
  <2> SUFFICES ASSUME NEW s \in SUBSET I, Cardinality(s) = n + 1 PROVE AddsEach(s)
    <3> HIDE DEF AddsEach
    <3> QED OBVIOUS
  <2> SUFFICES ASSUME NEW j \in s PROVE f[s] = f[s \ {j}] + w[j]
    OBVIOUS
  <2> DEFINE x == CHOOSE y \in s : TRUE
             r == s \ {x}
             q == s \ {j}
  <2>1. /\ x \in s /\ r \in SUBSET I /\ Cardinality(r) = n
        /\ q \in SUBSET I /\ Cardinality(q) = n
    <3>1. x \in s
      OBVIOUS
    <3>2. /\ r \in SUBSET I /\ Cardinality(r) = Cardinality(s) - 1
          /\ q \in SUBSET I /\ Cardinality(q) = Cardinality(s) - 1
      BY <1>0, <3>1, TakeOne
    <3> QED BY <3>1, <3>2
  <2>2. f[s] = f[r] + w[x]
    BY <2>1 DEF Sums
  <2> HIDE DEF x
  <2>3. CASE j = x
    BY <2>2, <2>3
  <2>4. CASE j # x
    <3>1. j \in r /\ x \in q /\ r \ {j} = q \ {x} /\ q \ {x} \in SUBSET I
      BY <2>1, <2>4
    <3>2. f[r] = f[r \ {j}] + w[j] /\ f[q] = f[q \ {x}] + w[x]
      <4> HIDE DEF r, q
      <4> QED BY <1>2, <2>1, <3>1
    <3>3. f[q \ {x}] \in Nat /\ w[j] \in Nat /\ w[x] \in Nat
      BY <2>1, <3>1 DEF Sums
    <3> HIDE DEF r, q
    <3>4. f[s] = f[q] + w[j]
      <4> DEFINE a == f[q \ {x}]
      <4>1. f[r] = a + w[j] /\ f[q] = a + w[x] /\ a \in Nat
        BY <3>1, <3>2, <3>3
      <4> HIDE DEF a
      <4> QED BY <2>2, <3>3, <4>1
    <3> QED BY <3>4 DEF q
  <2> QED BY <2>3, <2>4
<1> HIDE DEF Upto
<1>3. Nat \subseteq Upto
  BY <1>1, <1>2, NatInductive
<1>4. Cardinality(K) \in Nat
  BY <1>0, TakeOne
<1> QED BY <1>3, <1>4 DEF Upto

\* What bounds every number bounds the sums.
LEMMA SumsCompare ==
    ASSUME NEW f, NEW I, NEW w, Sums(f, I, w), NEW g, NEW v, Sums(g, I, v),
           NEW m \in Nat, \A k \in I : w[k] <= m * v[k]
    PROVE  f[I] <= m * g[I]
<1> DEFINE Upto == {n \in Nat : \A s \in SUBSET I : Cardinality(s) = n => f[s] <= m * g[s]}
<1>0. IsFiniteSet(I)
  BY DEF Sums
<1>1. 0 \in Upto
  <2>1. f[{}] = 0 /\ g[{}] = 0 /\ m * 0 = 0
    BY DEF Sums
  <2>2. f[{}] <= m * g[{}]
    BY <2>1
  <2> QED BY <1>0, <2>2, TakeOne
<1>2. ASSUME NEW n \in Nat, n \in Upto PROVE n + 1 \in Upto
  <2> SUFFICES ASSUME NEW s \in SUBSET I, Cardinality(s) = n + 1 PROVE f[s] <= m * g[s]
    OBVIOUS
  <2> DEFINE x == CHOOSE y \in s : TRUE
             r == s \ {x}
  <2>1. s # {} /\ x \in s /\ r \in SUBSET I /\ Cardinality(r) = n
    <3>1. s # {}
      BY <1>0, TakeOne
    <3>2. x \in s
      BY <3>1
    <3>3. r \in SUBSET I /\ Cardinality(r) = Cardinality(s) - 1
      BY <1>0, <3>2, TakeOne
    <3> QED BY <3>1, <3>2, <3>3
  <2>2. f[s] = f[r] + w[x] /\ g[s] = g[r] + v[x]
    BY <2>1 DEF Sums
  <2>3. f[r] <= m * g[r] /\ w[x] <= m * v[x]
    BY <1>2, <2>1
  <2>4. f[r] \in Nat /\ g[r] \in Nat /\ w[x] \in Nat /\ v[x] \in Nat
    BY <2>1 DEF Sums
  <2> HIDE DEF r, x
  <2>5. m * (g[r] + v[x]) = m * g[r] + m * v[x]
    BY <2>4
  <2>6. m * g[r] \in Int /\ m * v[x] \in Int
    BY <2>4
  <2> QED BY <2>2, <2>3, <2>4, <2>5, <2>6
<1> HIDE DEF Upto
<1>3. Nat \subseteq Upto
  BY <1>1, <1>2, NatInductive
<1>4. Cardinality(I) \in Nat
  BY <1>0, TakeOne
<1> QED BY <1>3, <1>4 DEF Upto

\* To add up the numbers w over a finite set there is a sum.
LEMMA SumExists ==
    ASSUME NEW I, IsFiniteSet(I), NEW w, \A k \in I : w[k] \in Nat
    PROVE  \E f : Sums(f, I, w)
<1> DEFINE F == [x \in I \X Nat |-> x[2] + w[x[1]]]
           order == [s \in SUBSET I |-> CHOOSE x \in s : TRUE]
<1>1. F \in [I \X Nat -> Nat] /\ \A k \in I, n \in Nat : F[<<k, n>>] = n + w[k]
  OBVIOUS
<1>2. \A s \in SUBSET I : s # {} => /\ (CHOOSE x \in s : TRUE) \in s
                                    /\ order[s] = CHOOSE x \in s : TRUE
  OBVIOUS
<1> HIDE DEF F, order
<1>3. PICK f : FoldOf(f, I, Nat, 0, F, order)
  <2>1. Folding(I, Nat, 0, F, order)
    BY <1>1, <1>2 DEF Folding
  <2> QED BY <2>1, FoldExists
<1>4. Sums(f, I, w)
  <2>1. f \in [SUBSET I -> Nat] /\ f[{}] = 0
    BY <1>3 DEF FoldOf
  <2>2. ASSUME NEW s \in SUBSET I, s # {}
        PROVE  f[s] = f[s \ {CHOOSE x \in s : TRUE}] + w[CHOOSE x \in s : TRUE]
    <3> DEFINE x == CHOOSE y \in s : TRUE
               r == s \ {x}
    <3>1. x \in s /\ x \in I /\ r \in SUBSET I /\ order[s] = x
      BY <1>2, <2>2
    <3> HIDE DEF x
    <3>2. f[s] = F[<<x, f[r]>>]
      BY <1>3, <2>2, <3>1 DEF FoldOf
    <3>3. f[r] \in Nat
      BY <2>1, <3>1
    <3>4. f[s] = f[r] + w[x]
      BY <1>1, <3>1, <3>2, <3>3
    <3> QED BY <3>4 DEF x
  <2> QED BY <2>1, <2>2 DEF Sums
<1> QED BY <1>4

\* What satisfies the equation of the sums is a sum.
LEMMA SumEquation ==
    ASSUME NEW I, IsFiniteSet(I), NEW w, \A k \in I : w[k] \in Nat, NEW g,
           g = [s \in SUBSET I |->
                  IF s = {} THEN 0
                  ELSE g[s \ {CHOOSE x \in s : TRUE}] + w[CHOOSE x \in s : TRUE]]
    PROVE  Sums(g, I, w)
<1>1. /\ g[{}] = 0
      /\ \A s \in SUBSET I : s # {} =>
            g[s] = g[s \ {CHOOSE x \in s : TRUE}] + w[CHOOSE x \in s : TRUE]
  OBVIOUS
<1>2. g = [s \in SUBSET I |-> g[s]]
  OBVIOUS
<1> DEFINE Upto == {n \in Nat : \A s \in SUBSET I : Cardinality(s) = n => g[s] \in Nat}
<1>3. 0 \in Upto
  BY <1>1, TakeOne
<1>4. ASSUME NEW n \in Nat, n \in Upto PROVE n + 1 \in Upto
  <2> SUFFICES ASSUME NEW s \in SUBSET I, Cardinality(s) = n + 1 PROVE g[s] \in Nat
    OBVIOUS
  <2> DEFINE x == CHOOSE y \in s : TRUE
             r == s \ {x}
  <2>1. s # {}
    BY TakeOne
  <2>2. x \in s
    BY <2>1
  <2>3. r \in SUBSET I /\ Cardinality(r) = Cardinality(s) - 1
    BY <2>2, TakeOne
  <2>4. g[r] \in Nat /\ w[x] \in Nat
    BY <1>4, <2>2, <2>3
  <2>5. g[s] = g[r] + w[x]
    BY <1>1, <2>1
  <2> HIDE DEF r, x
  <2> QED BY <2>4, <2>5
<1> HIDE DEF Upto
<1>5. Nat \subseteq Upto
  BY <1>3, <1>4, NatInductive
<1>6. \A s \in SUBSET I : g[s] \in Nat
  BY <1>5, TakeOne DEF Upto
<1>7. g \in [SUBSET I -> Nat]
  BY <1>2, <1>6
<1> QED BY <1>1, <1>7 DEF Sums

\* The two sums that make up a score (risk.go, scoreOf).
LEMMA WeightSums ==
    ASSUME NEW terms, NEW K, IsFiniteSet(K), \A k \in K : terms[k].weight \in Nat
    PROVE  \E f : Sums(f, K, [k \in K |-> terms[k].weight]) /\ Weight(terms, K) = f[K]
<1> DEFINE w == [k \in K |-> terms[k].weight]
           IsFold(f) == f = [s \in SUBSET K |->
                               IF s = {} THEN 0
                               ELSE f[s \ {CHOOSE x \in s : TRUE}]
                                    + terms[CHOOSE x \in s : TRUE].weight]
           g == CHOOSE h : IsFold(h)
<1>1. \A k \in K : w[k] \in Nat /\ w[k] = terms[k].weight
  OBVIOUS
<1>2. Weight(terms, K) = g[K]
  BY DEF Weight, Sets!FoldSet, Sets!MapThenFoldSet
<1> HIDE DEF w
<1>3. PICK f : Sums(f, K, w)
  BY <1>1, SumExists
<1>4. \A s \in SUBSET K : s # {} => (CHOOSE x \in s : TRUE) \in K
  OBVIOUS
<1>5. IsFold(f)
  BY <1>1, <1>3, <1>4 DEF Sums
<1>6. IsFold(g)
  <2> HIDE DEF IsFold
  <2> QED BY <1>5
<1> HIDE DEF g
<1>7. Sums(g, K, w)
  <2>1. g = [s \in SUBSET K |->
               IF s = {} THEN 0
               ELSE g[s \ {CHOOSE x \in s : TRUE}] + w[CHOOSE x \in s : TRUE]]
    BY <1>1, <1>4, <1>6
  <2> QED BY <1>1, <2>1, SumEquation
<1> QED BY <1>2, <1>7 DEF w

\* The products that scoreOf sums have a sum.
LEMMA WeightedSums ==
    ASSUME NEW terms, NEW K, IsFiniteSet(K),
           \A k \in K : terms[k].weight * Value(terms[k]) \in Nat
    PROVE  \E f : /\ Sums(f, K, [k \in K |-> terms[k].weight * Value(terms[k])])
                  /\ Weighted(terms, K) = f[K]
<1> DEFINE w == [k \in K |-> terms[k].weight * Value(terms[k])]
           IsFold(f) == f = [s \in SUBSET K |->
                               IF s = {} THEN 0
                               ELSE f[s \ {CHOOSE x \in s : TRUE}]
                                    + terms[CHOOSE x \in s : TRUE].weight
                                      * Value(terms[CHOOSE x \in s : TRUE])]
           g == CHOOSE h : IsFold(h)
<1>1. \A k \in K : w[k] \in Nat /\ w[k] = terms[k].weight * Value(terms[k])
  OBVIOUS
<1>2. Weighted(terms, K) = g[K]
  BY DEF Weighted, Sets!FoldSet, Sets!MapThenFoldSet
<1> HIDE DEF w
<1>3. PICK f : Sums(f, K, w)
  BY <1>1, SumExists
<1>4. \A s \in SUBSET K : s # {} => (CHOOSE x \in s : TRUE) \in K
  OBVIOUS
<1>5. IsFold(f)
  BY <1>1, <1>3, <1>4 DEF Sums
<1>6. IsFold(g)
  <2> HIDE DEF IsFold
  <2> QED BY <1>5
<1> HIDE DEF g
<1>7. Sums(g, K, w)
  <2>1. g = [s \in SUBSET K |->
               IF s = {} THEN 0
               ELSE g[s \ {CHOOSE x \in s : TRUE}] + w[CHOOSE x \in s : TRUE]]
    BY <1>1, <1>4, <1>6
  <2> QED BY <1>1, <2>1, SumEquation
<1> QED BY <1>2, <1>7 DEF w

\* A term that is known lies between nothing and the whole of its scale.
Termlike(x) ==
    /\ x = [weight |-> x.weight, value |-> x.value]
    /\ x.weight \in Nat \ {0}
    /\ x.value.of \in Nat /\ x.value.count \in 0 .. x.value.of

\* The value of a term is between nothing and all, and nothing is counted as
\* nothing.
LEMMA ValueIsAPart ==
    ASSUME NEW x, Termlike(x)
    PROVE  Value(x) \in 0 .. Scale /\ (x.value.count = 0 => Value(x) = 0)
<1> DEFINE n == x.value.of
           m == x.value.count
<1>1. n \in Nat /\ m \in 0 .. n
  BY DEF Termlike
<1>2. Value(x) = IF n = 0 THEN 0 ELSE (m * 60) \div n
  BY DEF Value, Scale
<1> HIDE DEF n, m
<1>3. ASSUME n # 0 PROVE (m * 60) \div n \in 0 .. 60 /\ (m = 0 => (m * 60) \div n = 0)
  <2> DEFINE q == (m * 60) \div n
             r == (m * 60) % n
  <2>1. q \in Int /\ r \in 0 .. n - 1 /\ m * 60 = n * q + r
    BY <1>1, <1>3
  <2> HIDE DEF q, r
  <2>2. q >= 0
    <3>1. SUFFICES ASSUME q <= -1 PROVE FALSE
      BY <2>1
    <3>2. n * q <= n * (-1)
      BY <1>1, <2>1, <3>1
    <3>3. n * (-1) = -n /\ n * q \in Int
      BY <1>1, <2>1
    <3> QED BY <1>1, <2>1, <3>2, <3>3
  <2>3. q <= 60
    <3>1. SUFFICES ASSUME q >= 61 PROVE FALSE
      BY <2>1
    <3>2. n * q >= n * 61
      BY <1>1, <2>1, <3>1
    <3>3. n * q \in Int
      BY <1>1, <2>1
    <3> QED BY <1>1, <1>3, <2>1, <3>2, <3>3
  <2>4. m = 0 => q = 0
    <3>1. SUFFICES ASSUME m = 0, q >= 1 PROVE FALSE
      BY <2>1, <2>2
    <3>2. n * q >= n * 1
      BY <1>1, <2>1, <3>1
    <3>3. n * q \in Int
      BY <1>1, <2>1
    <3> QED BY <1>1, <1>3, <2>1, <3>1, <3>2, <3>3
  <2> QED BY <2>1, <2>2, <2>3, <2>4 DEF q
<1> QED BY <1>1, <1>2, <1>3 DEF m, Scale

\* A score lies between nothing and the whole of its scale, and a term that
\* becomes known to be clean adds its weight and nothing else.
LEMMA ScoreIsAMean ==
    ASSUME NEW terms, IsFiniteSet(DOMAIN terms), \A j \in DOMAIN terms : Termlike(terms[j])
    PROVE  /\ ScoreOf(terms).num \in Nat /\ ScoreOf(terms).den \in Nat
           /\ ScoreOf(terms).num <= Scale * ScoreOf(terms).den
           /\ \A k \in DOMAIN terms : \A clean :
                 /\ DOMAIN clean = DOMAIN terms
                 /\ \A j \in DOMAIN terms : j # k => clean[j] = terms[j]
                 /\ clean[k] = [weight |-> terms[k].weight, value |-> [of |-> 1, count |-> 0]]
                 /\ terms[k].value.of = 0
                 => /\ ScoreOf(clean).num = ScoreOf(terms).num
                    /\ ScoreOf(clean).den = ScoreOf(terms).den + terms[k].weight
<1> DEFINE known == {j \in DOMAIN terms : terms[j].value.of > 0}
           w == [j \in known |-> terms[j].weight]
           v == [j \in known |-> terms[j].weight * Value(terms[j])]
<1>1. IsFiniteSet(known)
  BY FS_Subset
<1>2. ASSUME NEW x, Termlike(x)
      PROVE  /\ x.weight \in Nat /\ Value(x) \in Nat /\ x.weight * Value(x) \in Nat
             /\ x.weight * Value(x) <= Scale * x.weight
  <2> DEFINE a == x.weight
             b == Value(x)
  <2>1. a \in Nat /\ b \in 0 .. 60
    BY <1>2, ValueIsAPart DEF Termlike, Scale
  <2> HIDE DEF a, b
  <2>2. a * b \in Nat /\ a * b <= a * 60
    BY <2>1
  <2>3. a * 60 = 60 * a
    BY <2>1
  <2> QED BY <2>1, <2>2, <2>3 DEF a, b, Scale
<1>3. PICK f : Sums(f, known, w) /\ Weight(terms, known) = f[known]
  <2>1. \A j \in known : terms[j].weight \in Nat
    BY <1>2
  <2> HIDE DEF known
  <2> QED BY <1>1, <2>1, WeightSums
<1>4. PICK g : Sums(g, known, v) /\ Weighted(terms, known) = g[known]
  <2>1. \A j \in known : terms[j].weight * Value(terms[j]) \in Nat
    BY <1>2
  <2> HIDE DEF known
  <2> QED BY <1>1, <2>1, WeightedSums
<1>5. ScoreOf(terms).num = g[known] /\ ScoreOf(terms).den = f[known]
  BY <1>3, <1>4 DEF ScoreOf
<1>6. g[known] \in Nat /\ f[known] \in Nat
  BY <1>3, <1>4 DEF Sums
<1>7. g[known] <= Scale * f[known]
  <2>1. \A j \in known : v[j] <= Scale * w[j]
    BY <1>2
  <2>2. Scale \in Nat
    BY DEF Scale
  <2> HIDE DEF known, w, v
  <2> QED BY <1>3, <1>4, <2>1, <2>2, SumsCompare
<1>8. ASSUME NEW clean, NEW k \in DOMAIN terms,
             DOMAIN clean = DOMAIN terms,
             \A j \in DOMAIN terms : j # k => clean[j] = terms[j],
             clean[k] = [weight |-> terms[k].weight, value |-> [of |-> 1, count |-> 0]],
             terms[k].value.of = 0
      PROVE  /\ ScoreOf(clean).num = ScoreOf(terms).num
             /\ ScoreOf(clean).den = ScoreOf(terms).den + terms[k].weight
  <2> DEFINE K == {j \in DOMAIN clean : clean[j].value.of > 0}
             u == [j \in K |-> clean[j].weight]
             z == [j \in K |-> clean[j].weight * Value(clean[j])]
  <2>1. Termlike(terms[k])
    OBVIOUS
  <2>2. /\ Termlike(clean[k]) /\ clean[k].weight = terms[k].weight
        /\ clean[k].value.of = 1 /\ clean[k].value.count = 0
    BY <1>8, <2>1 DEF Termlike
  <2>3. K = known \cup {k} /\ k \notin known
    BY <1>8, <2>2
  <2>4. \A j \in K : Termlike(clean[j])
    BY <1>8, <2>2
  <2>5. IsFiniteSet(K)
    BY <1>8, FS_Subset
  <2>6. \A j \in known : j \in DOMAIN terms /\ j # k /\ clean[j] = terms[j]
    BY <1>8
  <2>7. Value(clean[k]) = 0
    BY <2>2, ValueIsAPart
  <2>8. /\ k \in K /\ K \in SUBSET K /\ K \ {k} = known /\ known \subseteq K
        /\ \A j \in known : u[j] = w[j] /\ v[j] = z[j]
    BY <2>3, <2>6
  <2>9. u[k] = terms[k].weight /\ z[k] = 0
    <3>1. u[k] = clean[k].weight /\ z[k] = clean[k].weight * Value(clean[k])
      BY <2>8
    <3>2. clean[k].weight \in Nat
      BY <2>2 DEF Termlike
    <3>3. \A a \in Nat : a * 0 = 0
      OBVIOUS
    <3> QED BY <2>2, <2>7, <3>1, <3>2, <3>3
  <2>10. PICK a : Sums(a, K, u) /\ Weight(clean, K) = a[K]
    <3>1. \A j \in K : clean[j].weight \in Nat
      BY <1>2, <2>4
    <3> HIDE DEF K
    <3> QED BY <2>5, <3>1, WeightSums
  <2>11. PICK b : Sums(b, K, z) /\ Weighted(clean, K) = b[K]
    <3>1. \A j \in K : clean[j].weight * Value(clean[j]) \in Nat
      BY <1>2, <2>4
    <3> HIDE DEF K
    <3> QED BY <2>5, <3>1, WeightedSums
  <2>12. ScoreOf(clean).num = b[K] /\ ScoreOf(clean).den = a[K]
    BY <2>10, <2>11 DEF ScoreOf
  <2> HIDE DEF K, u, z, known, w, v
  <2>13. a[K] = a[known] + u[k]
    BY <2>8, <2>10, SumAdds
  <2>16. b[K] = b[known] + z[k]
    BY <2>8, <2>11, SumAdds
  <2>14. a[known] = f[known]
    BY <1>3, <2>8, <2>10, SumIsOne
  <2>15. b[known] = g[known]
    BY <1>4, <2>8, <2>11, SumIsOne
  <2> QED BY <1>5, <1>6, <2>9, <2>12, <2>13, <2>14, <2>15, <2>16
<1> HIDE DEF known, v, w
<1> QED BY <1>5, <1>6, <1>7, <1>8

\* A part of a finite set is no larger.
LEMMA PartOf ==
    ASSUME NEW S, IsFiniteSet(S), NEW T, T \subseteq S
    PROVE  Cardinality(S) \in Nat /\ Cardinality(T) \in 0 .. Cardinality(S)
<1>1. IsFiniteSet(T) /\ Cardinality(T) <= Cardinality(S)
  BY FS_Subset
<1> QED BY <1>1, FS_CardinalityType

\* The signals of an account on a roster are all parts of wholes (risk.go,
\* reachTerm to installScript).
LEMMA TermsAreTermlike ==
    ASSUME AuditInv, NEW c \in Clients, Audited(c), NEW h \in Roster(c)
    PROVE  /\ DOMAIN Terms(c, h) = 1 .. 5
           /\ \A k \in 1 .. 5 : Termlike(Terms(c, h)[k])
<1>1. world \in Worlds /\ h \in Handles /\ Within(c) \in Span
  BY AskedIs DEF AuditInv, TypeOK, Roster, Audited
<1>2. OpenInterval \in Nat /\ OpenInterval > 0
  BY OpenIntervalAssumption
<1>3. sampled \subseteq world.releases /\ IsFiniteSet(world.releases)
  BY <1>1, GraphIsClosed DEF AuditInv, EdgesInv
<1> DEFINE reached == {p \in Packages : Coexisting(c, p) # {}}
<1>4. Held(c, h) \subseteq reached
  <2> SUFFICES ASSUME NEW p \in Packages, through[c][h][p] # {} PROVE Coexisting(c, p) # {}
    BY DEF Held
  <2>1. PICK i \in through[c][h][p] : TRUE
    OBVIOUS
  <2>2. i \in Span /\ ~ Empty(i)
    BY <1>1, <2>1, RosterIsRight DEF Maximal
  <2>3. i.from \in Int /\ Contains(i, i.from)
    BY <2>2 DEF Span, Empty, Contains
  <2>4. Holds(through[c][h][p], i.from)
    BY <2>1, <2>3 DEF Holds
  <2>5. i.from \in Instants /\ p \in PackagesOf(Reached(c)[i.from])
    BY <1>1, <2>3, <2>4, RosterIsRight
  <2>6. Holds(Coexisting(c, p), i.from)
    BY <1>1, <2>3, <2>5, CoexistingPointwise
  <2> QED BY <2>6 DEF Holds
<1>5. IsFiniteSet(reached)
  <2> DEFINE pkgs == {PackageOf(v) : v \in Known}
             f == [v \in Known |-> PackageOf(v)]
  <2>1. IsFiniteSet(Known)
    BY <1>1, GraphIsClosed
  <2>2. f \in Surjection(Known, pkgs)
    BY DEF Surjection
  <2>3. IsFiniteSet(pkgs)
    <3> HIDE DEF f, pkgs
    <3> QED BY <2>1, <2>2, FS_Surjection
  <2>4. reached \subseteq pkgs
    <3> SUFFICES ASSUME NEW p \in Packages, Coexisting(c, p) # {} PROVE p \in pkgs
      OBVIOUS
    <3>1. PICK i \in Coexisting(c, p) : TRUE
      OBVIOUS
    <3>2. i \in Span /\ ~ Empty(i)
      BY <1>1, <3>1, CoexistingPointwise DEF Maximal
    <3>3. i.from \in Int /\ Contains(i, i.from)
      BY <3>2 DEF Span, Empty, Contains
    <3>4. Holds(Coexisting(c, p), i.from)
      BY <3>1, <3>3 DEF Holds
    <3>5. i.from \in Instants /\ p \in PackagesOf(Reached(c)[i.from])
      BY <1>1, <3>3, <3>4, CoexistingPointwise
    <3>6. Reached(c)[i.from] \subseteq Known
      BY <1>1, <3>5, ReachedIsKnown
    <3> QED BY <3>5, <3>6 DEF PackagesOf
  <2> HIDE DEF reached, pkgs
  <2> QED BY <2>3, <2>4, FS_Subset
<1> DEFINE Counted(x) == x.of \in Nat /\ x.count \in 0 .. x.of
<1>6. Counted(ReachTerm(c, h))
  <2> HIDE DEF reached
  <2>1. Cardinality(reached) \in Nat /\ Cardinality(Held(c, h)) \in 0 .. Cardinality(reached)
    BY <1>4, <1>5, PartOf
  <2>2. ReachTerm(c, h) = [of |-> Cardinality(reached), count |-> Cardinality(Held(c, h))]
    BY DEF ReachTerm, reached
  <2> QED BY <2>1, <2>2
<1>7. IsFiniteSet(Held(c, h))
  <2> HIDE DEF reached
  <2> QED BY <1>4, <1>5, FS_Subset
<1>8. Counted(Solo(c, h))
  <2> DEFINE T == {p \in Held(c, h) : {k \in Roster(c) : p \in Held(c, k)} = {h}}
  <2>1. T \subseteq Held(c, h) /\ Solo(c, h) = [of |-> Cardinality(Held(c, h)), count |-> Cardinality(T)]
    BY DEF Solo
  <2> HIDE DEF T
  <2>2. Cardinality(Held(c, h)) \in Nat /\ Cardinality(T) \in 0 .. Cardinality(Held(c, h))
    BY <1>7, <2>1, PartOf
  <2> QED BY <2>1, <2>2
<1>9. SampledOf(c, h) \subseteq world.releases /\ IsFiniteSet(SampledOf(c, h))
  <2>1. SampledOf(c, h) \subseteq world.releases
    BY <1>3 DEF SampledOf
  <2> QED BY <1>3, <2>1, FS_Subset
<1>10. Counted(NoProvenance(c, h))
  <2> DEFINE T == {r \in SampledOf(c, h) : ~ r.provenance}
  <2>1. /\ T \subseteq SampledOf(c, h)
        /\ NoProvenance(c, h) = [of |-> Cardinality(SampledOf(c, h)), count |-> Cardinality(T)]
    BY DEF NoProvenance
  <2> HIDE DEF T
  <2>2. Cardinality(SampledOf(c, h)) \in Nat /\ Cardinality(T) \in 0 .. Cardinality(SampledOf(c, h))
    BY <1>9, <2>1, PartOf
  <2> QED BY <2>1, <2>2
<1>11. Counted(InstallScript(c, h))
  <2> DEFINE T == {r \in SampledOf(c, h) : r.script}
  <2>1. /\ T \subseteq SampledOf(c, h)
        /\ InstallScript(c, h) = [of |-> Cardinality(SampledOf(c, h)), count |-> Cardinality(T)]
    BY DEF InstallScript
  <2> HIDE DEF T
  <2>2. Cardinality(SampledOf(c, h)) \in Nat /\ Cardinality(T) \in 0 .. Cardinality(SampledOf(c, h))
    BY <1>9, <2>1, PartOf
  <2> QED BY <2>1, <2>2
<1>12. Counted(Staleness(c, h))
  <2> DEFINE own == {r.published : r \in {o \in SampledOf(c, h) : o.by = h}}
             at == IF Within(c) # Always /\ Within(c).from > 0 THEN Within(c).from ELSE OpenInterval
  <2>1. \A r \in world.releases : r.published \in Nat /\ r.published < OpenInterval
    BY <1>1, PackageIs, AuditAssumption DEF Release
  <2>2. own \in SUBSET Nat /\ \A x \in own : x <= OpenInterval
    BY <1>2, <1>9, <2>1
  <2>3. own # {} => Greatest(own) \in Nat
    <3> HIDE DEF own
    <3> QED BY <1>2, <2>2, GreatestBelow
  <2>4. at \in Int
    BY <1>1, <1>2 DEF Span
  <2>5. Staleness(c, h) = IF own = {} THEN [of |-> 0, count |-> 0]
          ELSE [of |-> OpenInterval, count |-> Later(0, Earlier(at - Greatest(own), OpenInterval))]
    BY DEF Staleness
  <2> HIDE DEF own, at
  <2>6. own # {} => Later(0, Earlier(at - Greatest(own), OpenInterval)) \in 0 .. OpenInterval
    BY <1>2, <2>3, <2>4 DEF Later, Earlier
  <2> QED BY <1>2, <2>5, <2>6
<1> DEFINE T == Terms(c, h)
<1>13. /\ DOMAIN T = 1 .. 5
       /\ T[1] = [weight |-> 8, value |-> ReachTerm(c, h)]
       /\ T[2] = [weight |-> 3, value |-> Staleness(c, h)]
       /\ T[3] = [weight |-> 4, value |-> Solo(c, h)]
       /\ T[4] = [weight |-> 3, value |-> NoProvenance(c, h)]
       /\ T[5] = [weight |-> 2, value |-> InstallScript(c, h)]
  BY DEF Terms
<1>14. ASSUME NEW n \in {2, 3, 4, 8}, NEW x, Counted(x) PROVE Termlike([weight |-> n, value |-> x])
  BY <1>14 DEF Termlike
<1> HIDE DEF T, Counted
<1>15. \A k \in 1 .. 5 : Termlike(T[k])
  <2>1. Termlike(T[1]) /\ Termlike(T[2]) /\ Termlike(T[3]) /\ Termlike(T[4]) /\ Termlike(T[5])
    BY <1>6, <1>8, <1>10, <1>11, <1>12, <1>13, <1>14
  <2> QED BY <2>1
<1> QED BY <1>13, <1>15 DEF T

\* risk.go:60-64: whatever an account on a roster did, its score lies on the
\* scale, and were any one of the unknown terms known to be clean it would be
\* lower.
THEOREM UnknownTermsAreNotClean == Spec => []UnknownIsNotClean
<1>1. ASSUME AuditInv PROVE UnknownIsNotClean
  <2> SUFFICES ASSUME NEW c \in Clients, Answered(c), Query(c).kind = "audit", NEW h \in Roster(c)
               PROVE  LET terms == Terms(c, h)
                          score == ScoreOf(terms)
                      IN  /\ 0 <= score.num /\ score.num <= Scale * score.den
                          /\ \A k \in {j \in DOMAIN terms : terms[j].value.of = 0} :
                                LET clean == ScoreOf([terms EXCEPT ![k].value = [of |-> 1, count |-> 0]])
                                IN  score.num > 0 =>
                                        score.num * clean.den > clean.num * score.den
    BY DEF UnknownIsNotClean
  <2> DEFINE T == Terms(c, h)
             score == ScoreOf(T)
  <2>1. Audited(c)
    BY DEF Answered, Audited
  <2>2. DOMAIN T = 1 .. 5 /\ \A k \in DOMAIN T : Termlike(T[k])
    BY <1>1, <2>1, TermsAreTermlike
  <2>3. IsFiniteSet(DOMAIN T)
    <3>1. 1 \in Int /\ 5 \in Int
      OBVIOUS
    <3> HIDE DEF T
    <3> QED BY <2>2, <3>1, FS_Interval
  <2> HIDE DEF T
  <2>4. score.num \in Nat /\ score.den \in Nat /\ score.num <= Scale * score.den
    BY <2>2, <2>3, ScoreIsAMean
  <2>5. ASSUME NEW k \in DOMAIN T, T[k].value.of = 0, score.num > 0
        PROVE  LET clean == ScoreOf([T EXCEPT ![k].value = [of |-> 1, count |-> 0]])
               IN  score.num * clean.den > clean.num * score.den
    <3> DEFINE clear == [T EXCEPT ![k].value = [of |-> 1, count |-> 0]]
               clean == ScoreOf(clear)
               w == T[k].weight
    <3>1. T[k] = [weight |-> w, value |-> T[k].value] /\ w \in Nat /\ w > 0
      BY <2>2 DEF Termlike
    <3>2. /\ DOMAIN clear = DOMAIN T /\ \A j \in DOMAIN T : j # k => clear[j] = T[j]
          /\ clear[k] = [T[k] EXCEPT !.value = [of |-> 1, count |-> 0]]
      OBVIOUS
    <3>3. clear[k] = [weight |-> w, value |-> [of |-> 1, count |-> 0]]
      BY <3>1, <3>2
    <3> HIDE DEF clear
    <3>4. clean.num = score.num /\ clean.den = score.den + w
      BY <2>2, <2>3, <2>5, <3>2, <3>3, ScoreIsAMean
    <3> HIDE DEF w, clean
    <3> DEFINE n == score.num
               d == score.den
    <3>5. n \in Nat /\ n > 0 /\ d \in Nat
      BY <2>4, <2>5
    <3> HIDE DEF n, d
    <3>6. n * (d + w) = n * d + n * w /\ n * d \in Int /\ n * w \in Int /\ n * w > 0
      BY <3>1, <3>5
    <3>7. n * (d + w) > n * d
      BY <3>6
    <3> QED BY <3>4, <3>7 DEF n, d, clean, clear
  <2>6. 0 <= score.num
    BY <2>4
  <2> QED BY <2>4, <2>5, <2>6 DEF T
<1> QED BY <1>1, AuditInvariant, PTL

=============================================================================
