-------------------------- MODULE IncidentProofs ---------------------------
(***************************************************************************)
(* Theorems about the windows of one dependent version (module Windows),   *)
(* and about the incident questions asked of them (module Incident), for   *)
(* every timeline, range, declaration, lockfile and advisory.              *)
(*                                                                         *)
(* The windows are the resolution (Resolves) and the definition's          *)
(* (WindowsMatch), which the questions about lockfiles inherit.  The walk  *)
(* over the events of a range says what the definition of a range says     *)
(* (AffectsAreRanges): each event decides for all that were walked before. *)
(*                                                                         *)
(* IsResolution says nothing before the walk is done, so it is not         *)
(* inductive.  Walk says what the walk has achieved half way: the windows  *)
(* tile the instants since the first release seen, each with the answer    *)
(* among the releases seen, and only the last window is open.              *)
(***************************************************************************)
EXTENDS Incident, DataProofs

Seen == Answered \ rest

\* The releases seen precede those to come.
Ordered == \A p \in Seen, q \in rest : Before(p, q)

\* The best release is the highest seen, and its window is the open one.
BestLeads ==
    /\ Seen # {} => best # {}
    /\ \A b \in best :
        /\ b \in Seen
        /\ Opened(b) \in windows
        /\ \A p \in Seen : Precedence[p.version] <= Precedence[b.version]
    /\ \A w \in windows : \E b \in best : w = Opened(b) \/ w.to <= b.published

\* The windows W answer every instant for the releases A.
Tiles(W, A) ==
    \A t \in Instants :
        /\ \A w \in W : Contains(w, t) => IsAnswer(A, w.version, t)
        /\ \A w, x \in W : Contains(w, t) /\ Contains(x, t) => w = x
        /\ (\E r \in A : r.published <= t) => \E w \in W : Contains(w, t)

Walk == phase = "walk" => Ordered /\ BestLeads /\ Tiles(windows, Seen)

IInv == TypeOK /\ Walk /\ IsResolution

-----------------------------------------------------------------------------

\* The admitted releases of a timeline have a publish time within the
\* instants (Windows, windows.go:50-62).
LEMMA AdmittedReleases ==
    ASSUME TypeOK
    PROVE  Answered \subseteq [version : Versions, published : 1 .. OpenInterval - 1]
<1>1. releases \subseteq [version : Versions, published : 0 .. OpenInterval - 1]
  BY WindowsAssumption DEF TypeOK
<1>2. ASSUME NEW r \in Answered
      PROVE  r \in [version : Versions, published : 1 .. OpenInterval - 1]
  <2>1. r \in [version : Versions, published : 0 .. OpenInterval - 1] /\ r.published > 0
    BY <1>1 DEF Answered, Admitted
  <2>2. r = [version |-> r.version, published |-> r.published]
    BY <2>1
  <2>3. r.version \in Versions /\ r.published \in 1 .. OpenInterval - 1
    BY <2>1, OpenIntervalAssumption
  <2> QED BY <2>2, <2>3
<1> QED BY <1>2

LEMMA InitIInv == Init => IInv
<1> SUFFICES ASSUME Init PROVE IInv
  OBVIOUS
<1>1. TypeOK
  BY DEF Init, TypeOK
<1>2. Seen = {}
  BY DEF Init, Seen, Answered
<1>3. Ordered
  BY <1>2 DEF Ordered
<1>4. BestLeads
  BY <1>2 DEF BestLeads, Init
<1>5. Tiles(windows, Seen)
  BY <1>2 DEF Tiles, Init
<1>6. IsResolution
  BY DEF Init, IsResolution
<1> QED BY <1>1, <1>3, <1>4, <1>5, <1>6 DEF IInv, Walk

\* A release that comes next is admitted, and follows the releases seen.
LEMMA NextRelease ==
    ASSUME IInv, phase = "walk", NEW r \in rest, \A o \in rest : Before(r, o)
    PROVE  /\ r \in Answered
           /\ \A p \in Seen : p.published <= r.published
           /\ \A p \in Seen \cup {r}, q \in rest \ {r} : Before(p, q)
           /\ Answered \ (rest \ {r}) = Seen \cup {r}
<1>1. rest \subseteq Answered
  BY DEF IInv, TypeOK, Answered
<1>2. Answered \subseteq [version : Versions, published : 1 .. OpenInterval - 1]
  BY AdmittedReleases DEF IInv
<1>3. Ordered
  BY DEF IInv, Walk
<1>4. ASSUME NEW p \in Seen PROVE p.published <= r.published
  <2>1. Before(p, r) /\ p \in Answered /\ r \in Answered
    BY <1>1, <1>3 DEF Ordered, Seen
  <2> QED BY <2>1, <1>2 DEF Before
<1>5. \A p \in Seen \cup {r}, q \in rest \ {r} : Before(p, q)
  BY <1>3 DEF Ordered
<1>6. Answered \ (rest \ {r}) = Seen \cup {r}
  BY <1>1 DEF Seen
<1> QED BY <1>1, <1>4, <1>5, <1>6

\* A release that does not raise the maximum changes no answer
\* (windows.go:80-84).
LEMMA PassStep ==
    ASSUME IInv, NEW r \in rest, Pass(r)
    PROVE  IInv'
<1> USE DEF Pass
<1>1. TypeOK'
  BY DEF IInv, TypeOK, inputs
<1>2. /\ r \in Answered
      /\ \A p \in Seen : p.published <= r.published
      /\ \A p \in Seen \cup {r}, q \in rest \ {r} : Before(p, q)
      /\ Answered \ (rest \ {r}) = Seen \cup {r}
  BY NextRelease
<1>3. Answered' = Answered /\ Seen' = Seen \cup {r}
  BY <1>2 DEF Seen, Answered, inputs
<1>4. Ordered'
  BY <1>2, <1>3 DEF Ordered
<1>5. Answered \subseteq [version : Versions, published : 1 .. OpenInterval - 1]
  BY AdmittedReleases DEF IInv
<1>6. BestLeads /\ Tiles(windows, Seen)
  BY DEF IInv, Walk
<1>7. PICK b \in best : Precedence[r.version] <= Precedence[b.version]
  <2>1. PICK b \in best : ~ (Precedence[r.version] > Precedence[b.version])
    BY DEF IsStep
  <2>2. b \in Answered
    BY <1>6 DEF BestLeads, Seen
  <2>3. Precedence[r.version] \in Int /\ Precedence[b.version] \in Int
    BY <1>2, <1>5, <2>2, PrecedenceAssumption
  <2> QED BY <2>1, <2>3
<1>8. b \in Seen /\ b \in Answered /\ Opened(b) \in windows
  BY <1>6 DEF BestLeads, Seen
<1>9. \A c \in best : c = b
  BY DEF IInv, TypeOK
<1>10. BestLeads'
  <2>1. \A p \in Seen \cup {r} : Precedence[p.version] <= Precedence[b.version]
    BY <1>6, <1>7 DEF BestLeads
  <2>2. /\ best' = best /\ windows' = windows /\ best # {}
        /\ \A c \in best : c \in Seen \cup {r} /\ Opened(c) \in windows
        /\ \A w \in windows : \E c \in best : w = Opened(c) \/ w.to <= c.published
    BY <1>6 DEF BestLeads
  <2>3. \A c \in best : \A p \in Seen \cup {r} : Precedence[p.version] <= Precedence[c.version]
    BY <1>9, <2>1
  <2> QED BY <1>3, <2>2, <2>3 DEF BestLeads, Opened
<1>11. Tiles(windows, Seen \cup {r})
  <2> SUFFICES ASSUME NEW t \in Instants
               PROVE  /\ \A w \in windows : Contains(w, t) => IsAnswer(Seen \cup {r}, w.version, t)
                      /\ \A w, x \in windows : Contains(w, t) /\ Contains(x, t) => w = x
                      /\ (\E o \in Seen \cup {r} : o.published <= t)
                            => \E w \in windows : Contains(w, t)
    BY DEF Tiles
  <2>1. ASSUME NEW w \in windows, Contains(w, t)
        PROVE  IsAnswer(Seen \cup {r}, w.version, t)
    <3>1. PICK s \in Seen :
            /\ s.version = w.version /\ s.published <= t
            /\ \A o \in Seen : o.published <= t => Precedence[o.version] <= Precedence[w.version]
      BY <1>6, <2>1 DEF Tiles, IsAnswer
    <3>2. ASSUME r.published <= t PROVE Precedence[r.version] <= Precedence[w.version]
      <4>1. b.published <= t
        BY <1>2, <1>5, <1>8, <3>2 DEF Instants
      <4>2. Precedence[b.version] <= Precedence[w.version]
        BY <3>1, <4>1, <1>8
      <4>3. s \in Answered
        BY <3>1 DEF Seen
      <4>4. /\ Precedence[b.version] \in Int /\ Precedence[w.version] \in Int
            /\ Precedence[r.version] \in Int
        BY <1>2, <1>5, <1>8, <3>1, <4>3, PrecedenceAssumption
      <4> QED BY <1>7, <4>2, <4>4
    <3> QED BY <3>1, <3>2 DEF IsAnswer
  <2>2. \A w, x \in windows : Contains(w, t) /\ Contains(x, t) => w = x
    BY <1>6 DEF Tiles
  <2>3. ASSUME r.published <= t PROVE b.published <= t
    BY <1>2, <1>5, <1>8, <2>3 DEF Instants
  <2>4. (\E o \in Seen \cup {r} : o.published <= t) => \E o \in Seen : o.published <= t
    BY <2>3, <1>8
  <2> QED BY <1>6, <2>1, <2>2, <2>4 DEF Tiles
<1>12. IsResolution'
  BY DEF IsResolution
<1> QED BY <1>1, <1>3, <1>4, <1>10, <1>11 , <1>12 DEF IInv, Walk, Tiles, IsAnswer, Contains, Instants

\* A release that raises the maximum answers every instant from its publish
\* time on, and closes the window before it there (windows.go:85-89).
LEMMA TakeStep ==
    ASSUME IInv, NEW r \in rest, Take(r)
    PROVE  IInv'
<1> USE DEF Take
<1> DEFINE closed(b) == [Opened(b) EXCEPT !.to = r.published]
<1>1. Answered \subseteq [version : Versions, published : 1 .. OpenInterval - 1]
  BY AdmittedReleases DEF IInv
<1>2. /\ r \in Answered
      /\ \A p \in Seen : p.published <= r.published
      /\ \A p \in Seen \cup {r}, q \in rest \ {r} : Before(p, q)
      /\ Answered \ (rest \ {r}) = Seen \cup {r}
  BY NextRelease
<1>3. Answered' = Answered /\ Seen' = Seen \cup {r}
  BY <1>2 DEF Seen, Answered, inputs
<1>4. BestLeads /\ Tiles(windows, Seen)
  BY DEF IInv, Walk
<1>5. \A b \in best : b \in Seen /\ b \in Answered
  BY <1>4 DEF BestLeads, Seen
<1>6. /\ r.version \in Versions /\ r.published \in 1 .. OpenInterval - 1
      /\ \A b \in best : b.version \in Versions /\ b.published \in 1 .. OpenInterval - 1
  BY <1>1, <1>2, <1>5
<1>7. TypeOK'
  <2>1. releases' \in Timelines /\ range' \in Ranges /\ declaredAt' \in Declared
    BY DEF IInv, TypeOK, inputs
  <2>2. rest' \subseteq Admitted(releases', range')
    BY DEF IInv, TypeOK, inputs
  <2>3. Opened(r) \in [version : Versions, from : Nat, to : 0 .. OpenInterval]
    BY <1>6, OpenIntervalAssumption DEF Opened
  <2>4. ASSUME NEW b \in best
        PROVE  closed(b) \in [version : Versions, from : Nat, to : 0 .. OpenInterval]
    BY <1>6, OpenIntervalAssumption DEF Opened
  <2>5. windows' \subseteq [version : Versions, from : Nat, to : 0 .. OpenInterval]
    BY <2>3, <2>4 DEF IInv, TypeOK
  <2>6. best' \subseteq Admitted(releases', range') /\ \A b, c \in best' : b = c
    BY <1>2, <1>3 DEF Answered
  <2>7. phase' \in {"walk", "done"}
    OBVIOUS
  <2> QED BY <2>1, <2>2, <2>5, <2>6, <2>7 DEF TypeOK
<1>8. Ordered'
  BY <1>2, <1>3 DEF Ordered
<1>9. windows \subseteq [version : Versions, from : Nat, to : 0 .. OpenInterval]
  BY DEF IInv, TypeOK
<1>10. \A p \in Seen : Precedence[p.version] < Precedence[r.version]
  <2> SUFFICES ASSUME NEW p \in Seen PROVE Precedence[p.version] < Precedence[r.version]
    OBVIOUS
  <2>1. PICK b \in best : Precedence[p.version] <= Precedence[b.version]
    BY <1>4 DEF BestLeads
  <2>2. Precedence[b.version] < Precedence[r.version]
    BY <1>6, PrecedenceAssumption DEF IsStep
  <2>3. p \in Answered
    BY DEF Seen
  <2>4. p.version \in Versions
    BY <1>1, <2>3
  <2>5. /\ Precedence[p.version] \in Int /\ Precedence[b.version] \in Int
        /\ Precedence[r.version] \in Int
    BY <1>6, <2>4, PrecedenceAssumption
  <2> QED BY <2>1, <2>2, <2>5
<1>11. \A w \in windows : (\E b \in best : w = Opened(b)) \/ w.to <= r.published
  <2> SUFFICES ASSUME NEW w \in windows
               PROVE  (\E b \in best : w = Opened(b)) \/ w.to <= r.published
    OBVIOUS
  <2>1. PICK b \in best : w = Opened(b) \/ w.to <= b.published
    BY <1>4 DEF BestLeads
  <2>2. b.published <= r.published
    BY <1>2, <1>5
  <2>3. w.to \in Int /\ b.published \in Int /\ r.published \in Int
    BY <1>6, <1>9
  <2> QED BY <2>1, <2>2, <2>3
<1>12. \A w \in windows' : w = Opened(r) \/ w.to <= r.published
  <2>1. ASSUME NEW b \in best PROVE closed(b).to = r.published
    BY DEF Opened
  <2>2. r.published <= r.published
    BY <1>6
  <2>3. ASSUME NEW w \in windows' PROVE w = Opened(r) \/ w.to <= r.published
    <3>1. CASE w \in windows /\ ~ \E b \in best : w = Opened(b)
      BY <1>11, <3>1
    <3>2. CASE \E b \in best : w = closed(b)
      <4>1. PICK b \in best : w = closed(b)
        BY <3>2
      <4> QED BY <2>1, <2>2, <4>1
    <3>3. CASE w = Opened(r)
      BY <3>3
    <3> QED BY <3>1, <3>2, <3>3
  <2> QED BY <2>3
<1>13. BestLeads'
  <2>1. best' = {r} /\ Opened(r) \in windows'
    OBVIOUS
  <2>2. \A p \in Seen \cup {r} : Precedence[p.version] <= Precedence[r.version]
    <3>1. Precedence[r.version] \in Int
      BY <1>6, PrecedenceAssumption
    <3>2. ASSUME NEW p \in Seen PROVE Precedence[p.version] \in Int
      BY <1>1, PrecedenceAssumption DEF Seen
    <3> QED BY <1>10, <3>1, <3>2
  <2> QED BY <1>3, <1>12, <2>1, <2>2 DEF BestLeads, Opened
<1>14. Tiles(windows', Seen \cup {r})
  <2> SUFFICES ASSUME NEW t \in Instants
               PROVE  /\ \A w \in windows' :
                            Contains(w, t) => IsAnswer(Seen \cup {r}, w.version, t)
                      /\ \A w, x \in windows' : Contains(w, t) /\ Contains(x, t) => w = x
                      /\ (\E o \in Seen \cup {r} : o.published <= t)
                            => \E w \in windows' : Contains(w, t)
    BY DEF Tiles
  <2>1. t \in Int /\ t < OpenInterval
    BY OpenIntervalAssumption DEF Instants
  <2>2. CASE r.published <= t
    <3>1. Contains(Opened(r), t)
      BY <1>6, <2>1, <2>2 DEF Contains, Opened
    <3>2. ASSUME NEW w \in windows', Contains(w, t) PROVE w = Opened(r)
      <4>1. w.to \in Int
        BY <1>7, OpenIntervalAssumption DEF TypeOK
      <4> QED BY <1>6, <1>12, <2>1, <2>2, <3>2, <4>1 DEF Contains
    <3>3. IsAnswer(Seen \cup {r}, r.version, t)
      <4>1. \A o \in Seen \cup {r} : Precedence[o.version] <= Precedence[r.version]
        BY <1>3, <1>13 DEF BestLeads
      <4> QED BY <2>2, <4>1 DEF IsAnswer
    <3>4. Opened(r).version = r.version
      BY DEF Opened
    <3>5. Opened(r) \in windows'
      OBVIOUS
    <3> QED BY <3>1, <3>2, <3>3, <3>4, <3>5
  <2>3. CASE ~ (r.published <= t)
    <3>1. t < r.published
      BY <1>6, <2>1, <2>3
    <3>2. ~ Contains(Opened(r), t)
      BY <2>3 DEF Contains, Opened
    <3>3. ASSUME NEW b \in best
          PROVE  Contains(closed(b), t) <=> Contains(Opened(b), t)
      BY <2>1, <3>1 DEF Contains, Opened
    <3>4. ASSUME NEW b \in best PROVE closed(b).version = Opened(b).version
      BY DEF Opened
    <3>5. \A b \in best : Opened(b) \in windows /\ \A c \in best : c = b
      BY <1>4 DEF BestLeads, IInv, TypeOK
    <3>6. ASSUME NEW w \in windows', Contains(w, t)
          PROVE  IsAnswer(Seen \cup {r}, w.version, t)
      <4>1. PICK x \in windows : Contains(x, t) /\ x.version = w.version
        <5>1. w # Opened(r)
          BY <3>2, <3>6
        <5>2. w \in windows \/ \E b \in best : w = closed(b)
          BY <5>1
        <5>3. CASE w \in windows
          BY <3>6, <5>3
        <5>4. ASSUME NEW b \in best, w = closed(b)
              PROVE  Opened(b) \in windows /\ Contains(Opened(b), t)
                     /\ Opened(b).version = w.version
          BY <3>3, <3>4, <3>5, <3>6, <5>4
        <5> QED BY <5>2, <5>3, <5>4
      <4>2. IsAnswer(Seen, w.version, t)
        BY <1>4, <4>1 DEF Tiles
      <4> QED BY <2>3, <4>2 DEF IsAnswer
    <3>7. ASSUME NEW w \in windows', NEW x \in windows', Contains(w, t), Contains(x, t)
          PROVE  w = x
      <4>1. \A u, v \in windows : Contains(u, t) /\ Contains(v, t) => u = v
        BY <1>4 DEF Tiles
      <4>2. \A u \in windows' : Contains(u, t) =>
                \/ u \in windows /\ \A b \in best : u # Opened(b)
                \/ \E b \in best : u = closed(b) /\ Contains(Opened(b), t)
        BY <3>2, <3>3
      <4> QED BY <3>5, <3>7, <4>1, <4>2
    <3>8. ASSUME NEW o \in Seen \cup {r}, o.published <= t
          PROVE  \E w \in windows' : Contains(w, t)
      <4>1. o \in Seen
        BY <2>3, <3>8
      <4>2. PICK w \in windows : Contains(w, t)
        BY <1>4, <3>8, <4>1 DEF Tiles
      <4>3. CASE \E b \in best : w = Opened(b)
        <5>1. PICK b \in best : w = Opened(b)
          BY <4>3
        <5>2. closed(b) \in windows' /\ Contains(closed(b), t)
          BY <3>3, <4>2, <5>1
        <5> QED BY <5>2
      <4>4. CASE ~ \E b \in best : w = Opened(b)
        BY <4>2, <4>4
      <4> QED BY <4>3, <4>4
    <3> QED BY <3>6, <3>7, <3>8
  <2> QED BY <2>2, <2>3
<1>15. Walk'
  BY <1>3, <1>8, <1>13, <1>14 DEF Walk, Tiles, IsAnswer, Contains, Instants
<1>16. IsResolution'
  BY DEF IsResolution
<1> QED BY <1>7, <1>15, <1>16 DEF IInv

\* clamp keeps, of every window, the instants from the declaration on
\* (windows.go:99-119).
LEMMA ClampPointwise ==
    ASSUME NEW W, W \subseteq [version : Versions, from : Nat, to : 0 .. OpenInterval],
           NEW at \in Nat, NEW t \in Instants
    PROVE  /\ \A w \in Clamp(W, at) : Contains(w, t) =>
                  \E v \in W : Contains(v, t) /\ t >= at /\ w = Cut(v, at)
           /\ \A v \in W : Contains(v, t) /\ t >= at =>
                  Cut(v, at) \in Clamp(W, at) /\ Contains(Cut(v, at), t)
<1> USE DEF Contains, Empty
<1>1. t \in Int /\ at \in Int /\ OpenInterval \in Int
  BY OpenIntervalAssumption DEF Instants
<1>2. ASSUME NEW v \in W
      PROVE  /\ v.from \in Int /\ v.to \in Int
             /\ Cut(v, at).to = v.to
             /\ Cut(v, at).from = IF at > 0 THEN Later(v.from, at) ELSE v.from
  <2>1. v \in [version : Versions, from : Nat, to : 0 .. OpenInterval]
    OBVIOUS
  <2> QED BY <1>1, <2>1 DEF Cut
<1>3. ASSUME NEW w \in Clamp(W, at), Contains(w, t)
      PROVE  \E v \in W : Contains(v, t) /\ t >= at /\ w = Cut(v, at)
  <2>1. PICK v \in W : w = Cut(v, at)
    BY DEF Clamp
  <2>2. Contains(v, t) /\ t >= at
    <3>1. v.from >= 0 /\ v.from \in Int
      OBVIOUS
    <3> QED BY <1>1, <1>2, <1>3, <2>1, <3>1 DEF Later
  <2> QED BY <2>1, <2>2
<1>4. ASSUME NEW v \in W, Contains(v, t), t >= at
      PROVE  Cut(v, at) \in Clamp(W, at) /\ Contains(Cut(v, at), t)
  <2>1. v.to > at /\ v.from <= t /\ t < v.to
    BY <1>1, <1>2, <1>4
  <2>2. Cut(v, at).from <= t /\ t < Cut(v, at).to
    BY <1>1, <1>2, <1>4, <2>1 DEF Later
  <2>3. Cut(v, at).from \in Int
    BY <1>1, <1>2 DEF Later
  <2>4. ~ Empty(Cut(v, at))
    BY <1>1, <1>2, <2>2, <2>3
  <2> QED BY <2>1, <2>2, <2>4 DEF Clamp
<1> QED BY <1>3, <1>4

LEMMA FinishStep ==
    ASSUME IInv, Finish
    PROVE  IInv'
<1> USE DEF Finish
<1>1. windows \subseteq [version : Versions, from : Nat, to : 0 .. OpenInterval]
  BY DEF IInv, TypeOK
<1>2. declaredAt \in Nat
  BY WindowsAssumption DEF IInv, TypeOK
<1>3. Answered' = Answered /\ declaredAt' = declaredAt /\ Seen = Answered
  BY DEF Answered, Seen, inputs
<1>4. Tiles(windows, Answered)
  BY <1>3 DEF IInv, Walk
<1>5. TypeOK'
  <2>1. ASSUME NEW w \in windows'
        PROVE  w \in [version : Versions, from : Nat, to : 0 .. OpenInterval]
    <3>1. PICK v \in windows : w = Cut(v, declaredAt)
      BY DEF Clamp
    <3>2. v \in [version : Versions, from : Nat, to : 0 .. OpenInterval]
      BY <1>1
    <3>3. Later(v.from, declaredAt) \in Nat
      BY <1>2, <3>2 DEF Later
    <3> QED BY <3>1, <3>2, <3>3 DEF Cut
  <2> QED BY <2>1 DEF IInv, TypeOK, inputs
<1>6. Walk'
  BY DEF Walk
<1>7. IsResolution'
  <2> SUFFICES ASSUME NEW t \in Instants
               PROVE  /\ \A w \in windows' : Contains(w, t) =>
                            t >= declaredAt /\ IsAnswer(Answered, w.version, t)
                      /\ \A w, x \in windows' : Contains(w, t) /\ Contains(x, t) => w = x
                      /\ t >= declaredAt /\ (\E r \in Answered : r.published <= t)
                            => \E w \in windows' : Contains(w, t)
    BY <1>3 DEF IsResolution, Instants, Contains, IsAnswer
  <2>1. /\ \A w \in windows' : Contains(w, t) =>
              \E v \in windows : Contains(v, t) /\ t >= declaredAt /\ w = Cut(v, declaredAt)
        /\ \A v \in windows : Contains(v, t) /\ t >= declaredAt =>
              Cut(v, declaredAt) \in windows' /\ Contains(Cut(v, declaredAt), t)
    <3>1. /\ \A w \in Clamp(windows, declaredAt) : Contains(w, t) =>
                \E v \in windows : Contains(v, t) /\ t >= declaredAt /\ w = Cut(v, declaredAt)
          /\ \A v \in windows : Contains(v, t) /\ t >= declaredAt =>
                Cut(v, declaredAt) \in Clamp(windows, declaredAt)
                  /\ Contains(Cut(v, declaredAt), t)
      BY <1>1, <1>2, ClampPointwise
    <3> QED BY <3>1
  <2>2. /\ \A v \in windows : Contains(v, t) => IsAnswer(Answered, v.version, t)
        /\ \A v, u \in windows : Contains(v, t) /\ Contains(u, t) => v = u
        /\ (\E r \in Answered : r.published <= t) => \E v \in windows : Contains(v, t)
    BY <1>4 DEF Tiles
  <2>3. ASSUME NEW v \in windows PROVE Cut(v, declaredAt).version = v.version
    <3>1. v \in [version : Versions, from : Nat, to : 0 .. OpenInterval]
      BY <1>1
    <3> QED BY <3>1 DEF Cut
  <2> QED BY <2>1, <2>2, <2>3
<1> QED BY <1>5, <1>6, <1>7 DEF IInv

\* Every state of the walk satisfies the invariant.
THEOREM WindowsInvariant == Spec => []IInv
<1>1. Init => IInv
  BY InitIInv
<1>2. IInv /\ [Next]_vars => IInv'
  <2> SUFFICES ASSUME IInv, [Next]_vars PROVE IInv'
    OBVIOUS
  <2>1. ASSUME NEW r \in rest, Pass(r) PROVE IInv'
    BY <2>1, PassStep
  <2>2. ASSUME NEW r \in rest, Take(r) PROVE IInv'
    BY <2>2, TakeStep
  <2>3. CASE Finish
    BY <2>3, FinishStep
  <2>4. CASE UNCHANGED vars
    BY <2>4 DEF vars, inputs, IInv, TypeOK, Walk, Ordered, BestLeads, Tiles, Seen, Answered,
                IsAnswer, IsResolution, Contains, Instants, Before, Opened
  <2> QED BY <2>1, <2>2, <2>3, <2>4 DEF Next
<1> QED BY <1>1, <1>2, PTL DEF Spec

\* The windows of a range are well formed (Windows, windows.go:43-91).
THEOREM WindowsTypeCorrect == Spec => []TypeOK
<1>1. IInv => TypeOK
  BY DEF IInv
<1> QED BY <1>1, WindowsInvariant, PTL

\* The windows answer every instant as an install at that instant would,
\* and exactly once (windows.go:29-42, equivalence_test.go:13-19).
THEOREM Resolves == Spec => []IsResolution
<1>1. IInv => IsResolution
  BY DEF IInv
<1> QED BY <1>1, WindowsInvariant, PTL

-----------------------------------------------------------------------------
(* The windows are the definition's.  The walk keeps, for the releases seen *)
(* so far, the windows of WindowsOf with nothing clamped; the others it     *)
(* keeps cover no time.                                                     *)

LaterSteps(S, r) == {s.published : s \in {o \in StepsOf(S) : o.published > r.published}}

\* The window the definition gives step r of the releases S.
StepWindow(S, r) ==
    [version |-> r.version,
     from    |-> r.published,
     to      |-> Least(LaterSteps(S, r) \cup {OpenInterval})]

Solid(W) == {w \in W : ~ Empty(w)}

SoFar ==
    phase = "walk" /\ Settled =>
        /\ Solid(windows) = {StepWindow(Seen, r) : r \in StepsOf(Seen)}
        /\ \A b \in best : /\ b \in StepsOf(Seen)
                           /\ \A s \in StepsOf(Seen) : s.published <= b.published

\* A step's window ends at a later step, or never; it covers some time.
LEMMA StepWindowEnd ==
    ASSUME NEW S, S \subseteq [version : Versions, published : 1 .. OpenInterval - 1],
           NEW r \in StepsOf(S)
    PROVE  /\ r \in S /\ r.published \in 1 .. OpenInterval - 1
           /\ StepWindow(S, r).to \in LaterSteps(S, r) \cup {OpenInterval}
           /\ \A y \in LaterSteps(S, r) \cup {OpenInterval} :
                 y \in Nat /\ StepWindow(S, r).to <= y
           /\ StepWindow(S, r).to \in Nat
           /\ r.published < StepWindow(S, r).to
           /\ StepWindow(S, r).to <= OpenInterval
           /\ ~ Empty(StepWindow(S, r))
<1>1. r \in S /\ r.published \in 1 .. OpenInterval - 1 /\ OpenInterval \in Nat
  BY OpenIntervalAssumption DEF StepsOf
<1>2. \A y \in LaterSteps(S, r) : y \in Nat /\ r.published < y
  BY <1>1 DEF LaterSteps, StepsOf
<1> DEFINE L == LaterSteps(S, r) \cup {OpenInterval}
<1>3. L \in SUBSET Nat /\ L # {} /\ \A y \in L : r.published < y
  BY <1>1, <1>2
<1>4. StepWindow(S, r).to = Least(L) /\ StepWindow(S, r).from = r.published
  BY DEF StepWindow
<1>5. OpenInterval \in L
  OBVIOUS
<1> HIDE DEF L
<1>6. Least(L) \in L /\ \A y \in L : Least(L) <= y
  BY <1>3, LeastNatural
<1>7. Least(L) \in Nat /\ r.published < Least(L) /\ Least(L) <= OpenInterval
  BY <1>3, <1>5, <1>6
<1>8. ~ Empty(StepWindow(S, r))
  BY <1>1, <1>4, <1>7 DEF Empty
<1> QED BY <1>1, <1>3, <1>4, <1>6, <1>7, <1>8 DEF L

\* Two sets of ends that agree have the same least one.
LEMMA LeastIs ==
    ASSUME NEW L \in SUBSET Nat, NEW x \in L, \A y \in L : x <= y
    PROVE  Least(L) = x
<1>1. Least(L) \in L /\ \A y \in L : Least(L) <= y
  BY LeastNatural
<1>2. Least(L) \in Nat /\ x \in Nat
  BY <1>1
<1>3. Least(L) <= x /\ x <= Least(L)
  BY <1>1
<1> QED BY <1>2, <1>3

\* A release that does not rank above the best is no step, and takes no step
\* away: it is not older than any of them, and no two releases tie.
LEMMA PassKeepsSoFar ==
    ASSUME IInv, SoFar, NEW r \in rest, Pass(r)
    PROVE  SoFar'
<1> SUFFICES ASSUME Settled PROVE SoFar'
  BY DEF SoFar, Settled, Answered, Pass, inputs
<1> DEFINE T == Seen \cup {r}
<1>1. /\ r \in Answered /\ r \notin Seen
      /\ \A p \in Seen : p.published <= r.published
      /\ Answered \ (rest \ {r}) = T
      /\ \A p \in Seen : Before(p, r)
  <2>1. Ordered
    BY DEF IInv, Walk, Pass
  <2> QED BY <2>1, NextRelease DEF Pass, Seen, Ordered
<1>2. Seen' = T /\ windows' = windows /\ best' = best
  BY <1>1 DEF Pass, Seen, Answered, inputs
<1>3. /\ Seen \subseteq Answered
      /\ Answered \subseteq [version : Versions, published : 1 .. OpenInterval - 1]
  BY AdmittedReleases DEF IInv, Seen
<1>4. /\ Solid(windows) = {StepWindow(Seen, s) : s \in StepsOf(Seen)}
      /\ \A b \in best : /\ b \in StepsOf(Seen)
                         /\ \A s \in StepsOf(Seen) : s.published <= b.published
  BY DEF SoFar, Pass
<1>5. PICK b \in best : Precedence[r.version] <= Precedence[b.version]
  <2>1. PICK b \in best : ~ (Precedence[r.version] > Precedence[b.version])
    BY DEF IsStep, Pass
  <2>2. b \in Answered
    BY <1>3, <1>4 DEF StepsOf
  <2>3. Precedence[r.version] \in Int /\ Precedence[b.version] \in Int
    BY <1>1, <1>3, <2>2, PrecedenceAssumption
  <2> QED BY <2>1, <2>3
<1>6. \A p \in T : p.published \in Int /\ Precedence[p.version] \in Int
  BY <1>1, <1>3, PrecedenceAssumption
<1>7. b \in Seen /\ b \in StepsOf(Seen)
  BY <1>4 DEF StepsOf
<1>8. r \notin StepsOf(T)
  BY <1>1, <1>5, <1>6, <1>7 DEF StepsOf
<1>9. ASSUME NEW s \in StepsOf(Seen) PROVE s \in StepsOf(T)
  <2>1. s \in Seen /\ s.published <= b.published /\ b.published <= r.published
    BY <1>1, <1>4, <1>7 DEF StepsOf
  <2>2. ASSUME r.published <= s.published
        PROVE  Precedence[r.version] < Precedence[s.version]
    <3>1. s.published = r.published /\ b.published = s.published
      BY <1>6, <1>7, <2>1, <2>2
    <3>2. Precedence[s.version] <= Precedence[r.version]
      BY <1>1, <1>6, <2>1, <3>1 DEF Before
    <3>3. Precedence[s.version] # Precedence[r.version]
      BY <1>1, <1>3, <2>1, <3>1 DEF Settled
    <3>4. CASE s = b
      BY <1>5, <1>6, <1>7, <3>2, <3>3, <3>4
    <3>5. CASE s # b
      <4>1. Precedence[b.version] < Precedence[s.version]
        BY <1>6, <1>7, <2>1, <3>1, <3>5 DEF StepsOf
      <4> QED BY <1>5, <1>6, <1>7, <2>1, <3>2, <4>1
    <3> QED BY <3>4, <3>5
  <2> QED BY <2>1, <2>2 DEF StepsOf
<1>10. StepsOf(T) \subseteq StepsOf(Seen)
  BY <1>8 DEF StepsOf
<1>11. StepsOf(T) = StepsOf(Seen)
  BY <1>9, <1>10
<1>12. \A s \in StepsOf(T) : StepWindow(T, s) = StepWindow(Seen, s)
  BY <1>11 DEF StepWindow, LaterSteps
<1>13. Solid(windows) = {StepWindow(T, s) : s \in StepsOf(T)}
  BY <1>4, <1>11, <1>12
<1> HIDE DEF T
<1>14. /\ Solid(windows') = {StepWindow(Seen', s) : s \in StepsOf(Seen')}
       /\ \A c \in best' : /\ c \in StepsOf(Seen')
                           /\ \A s \in StepsOf(Seen') : s.published <= c.published
  BY <1>2, <1>4, <1>11, <1>13
<1> QED BY <1>14 DEF SoFar

\* A release that ranks above everything seen is a step; it takes away the
\* last step if it shares its second, and ends its window otherwise.
LEMMA TakeKeepsSoFar ==
    ASSUME IInv, SoFar, NEW r \in rest, Take(r)
    PROVE  SoFar'
<1> SUFFICES ASSUME Settled PROVE SoFar'
  BY DEF SoFar, Settled, Answered, Take, inputs
<1> DEFINE S == Seen
           T == Seen \cup {r}
           closed(b) == [Opened(b) EXCEPT !.to = r.published]
<1>1. /\ r \in Answered /\ r \notin S
      /\ \A p \in S : p.published <= r.published
      /\ Answered \ (rest \ {r}) = T
  BY NextRelease DEF Take, Seen
<1>2. /\ Seen' = T /\ best' = {r}
      /\ windows' = (windows \ {Opened(b) : b \in best})
                      \cup {closed(b) : b \in best} \cup {Opened(r)}
  BY <1>1 DEF Take, Seen, Answered, inputs
<1>3. /\ S \subseteq [version : Versions, published : 1 .. OpenInterval - 1]
      /\ T \subseteq [version : Versions, published : 1 .. OpenInterval - 1]
  BY <1>1, AdmittedReleases DEF IInv, Seen
<1>4. /\ Solid(windows) = {StepWindow(S, s) : s \in StepsOf(S)}
      /\ \A b \in best : /\ b \in StepsOf(S)
                         /\ \A s \in StepsOf(S) : s.published <= b.published
  BY DEF SoFar, Take
<1>5. \A p \in T : /\ p.published \in Int /\ p.published < OpenInterval
                   /\ Precedence[p.version] \in Int
  BY <1>3, PrecedenceAssumption, OpenIntervalAssumption
<1>6. /\ S # {} => best # {}
      /\ \A b \in best : b \in S /\ \A p \in S : Precedence[p.version] <= Precedence[b.version]
      /\ \A b, c \in best : b = c
  BY DEF IInv, Walk, BestLeads, TypeOK, Take
<1>7. \A p \in S : Precedence[p.version] < Precedence[r.version]
  <2> SUFFICES ASSUME NEW p \in S PROVE Precedence[p.version] < Precedence[r.version]
    OBVIOUS
  <2>1. PICK b \in best : b \in S /\ Precedence[p.version] <= Precedence[b.version]
    BY <1>6
  <2>2. Precedence[r.version] > Precedence[b.version]
    BY DEF Take, IsStep
  <2> QED BY <1>5, <2>1, <2>2
<1> HIDE DEF S
<1>8. r \in StepsOf(T)
  BY <1>1, <1>7 DEF StepsOf, S
<1>9. \A s : s \in StepsOf(T) /\ s # r <=> s \in StepsOf(S) /\ s.published < r.published
  <2>1. ASSUME NEW s \in StepsOf(T), s # r
        PROVE  s \in StepsOf(S) /\ s.published < r.published
    <3>1. s \in S /\ r \in T \ {s}
      BY <2>1 DEF StepsOf, S
    <3>2. ~ (r.published <= s.published)
      BY <1>5, <1>7, <2>1, <3>1 DEF StepsOf, S
    <3>3. s \in StepsOf(S)
      BY <2>1, <3>1 DEF StepsOf, S
    <3> QED BY <1>5, <3>1, <3>2, <3>3 DEF S
  <2>2. ASSUME NEW s \in StepsOf(S), s.published < r.published
        PROVE  s \in StepsOf(T) /\ s # r
    <3>1. s \in S /\ s \in T
      BY <2>2 DEF StepsOf, S
    <3>2. ~ (r.published <= s.published)
      BY <1>5, <2>2, <3>1
    <3> QED BY <1>1, <2>2, <3>1, <3>2 DEF StepsOf, S
  <2> QED BY <2>1, <2>2
<1>10. StepWindow(T, r) = Opened(r)
  <2>1. \A o \in StepsOf(T) : ~ (o.published > r.published)
    BY <1>1, <1>5 DEF StepsOf, S
  <2>2. LaterSteps(T, r) = {}
    BY <2>1 DEF LaterSteps
  <2>3. Least({OpenInterval}) = OpenInterval
    BY LeastIs, OpenIntervalAssumption
  <2> QED BY <2>2, <2>3 DEF StepWindow, Opened
<1>11. ASSUME NEW b \in best PROVE StepWindow(S, b) = Opened(b)
  <2>1. b \in S /\ \A o \in StepsOf(S) : ~ (o.published > b.published)
    BY <1>4, <1>5, <1>6, <1>11 DEF StepsOf, S
  <2>2. LaterSteps(S, b) = {}
    BY <2>1 DEF LaterSteps
  <2>3. Least({OpenInterval}) = OpenInterval
    BY LeastIs, OpenIntervalAssumption
  <2> QED BY <2>2, <2>3 DEF StepWindow, Opened
<1>12. ASSUME NEW b \in best, b.published < r.published
       PROVE  b \in StepsOf(T) /\ StepWindow(T, b) = closed(b) /\ ~ Empty(closed(b))
  <2>1. b \in StepsOf(T) /\ b # r
    BY <1>4, <1>9, <1>12
  <2>2. LaterSteps(T, b) = {r.published}
    <3>1. \A o \in StepsOf(T) : o.published > b.published => o = r
      BY <1>4, <1>5, <1>6, <1>9, <1>12 DEF StepsOf, S
    <3>2. r.published > b.published
      BY <1>5, <1>6, <1>12 DEF S
    <3> QED BY <1>8, <3>1, <3>2 DEF LaterSteps
  <2>3. Least({r.published} \cup {OpenInterval}) = r.published
    <3>1. r.published \in Nat /\ r.published <= OpenInterval /\ OpenInterval \in Nat
      BY <1>3, OpenIntervalAssumption
    <3> DEFINE L == {r.published} \cup {OpenInterval}
    <3>2. L \in SUBSET Nat /\ r.published \in L /\ \A y \in L : r.published <= y
      BY <3>1
    <3> HIDE DEF L
    <3>3. Least(L) = r.published
      BY <3>2, LeastIs
    <3> QED BY <3>3 DEF L
  <2>4. StepWindow(T, b) = closed(b)
    BY <2>2, <2>3 DEF StepWindow, Opened
  <2> QED BY <2>1, <2>4, <1>3, StepWindowEnd
<1>13. ASSUME NEW s \in StepsOf(S), s \notin best
       PROVE  /\ s \in StepsOf(T) /\ StepWindow(T, s) = StepWindow(S, s)
              /\ \A b \in best : StepWindow(S, s) # Opened(b)
  <2>1. s \in S
    BY DEF StepsOf
  <2>2. PICK b \in best : b \in StepsOf(S) /\ b \in S
    BY <1>4, <1>6, <2>1 DEF S
  <2>3. s.published < b.published /\ b.published <= r.published
    <3>1. s.published <= b.published /\ b.published <= r.published
      BY <1>1, <1>4, <2>2
    <3>2. s # b
      BY <1>13
    <3>3. s.published # b.published
      BY <1>5, <2>1, <2>2, <3>2 DEF StepsOf, S
    <3> QED BY <1>5, <2>1, <2>2, <3>1, <3>3 DEF S
  <2> DEFINE e == StepWindow(S, s).to
             L == LaterSteps(T, s) \cup {OpenInterval}
  <2>4. s.published < r.published /\ s \in StepsOf(T)
    <3>1. s.published < r.published
      BY <1>5, <2>1, <2>2, <2>3 DEF S
    <3> QED BY <1>9, <3>1
  <2>5. /\ e \in LaterSteps(S, s) \cup {OpenInterval}
        /\ \A y \in LaterSteps(S, s) \cup {OpenInterval} : e <= y
        /\ e \in Nat
    BY <1>3, StepWindowEnd DEF S
  <2>6. b.published \in LaterSteps(S, s)
    BY <1>5, <2>1, <2>2, <2>3 DEF LaterSteps, S
  <2>7. e <= b.published /\ e <= r.published /\ e # OpenInterval
    <3>1. e <= b.published
      BY <2>5, <2>6
    <3>2. e \in Int /\ b.published \in Int /\ r.published \in Int /\ OpenInterval \in Int
      BY <1>5, <2>2, <2>5, OpenIntervalAssumption DEF S
    <3>3. b.published < OpenInterval
      BY <1>5, <2>2 DEF S
    <3> QED BY <2>3, <3>1, <3>2, <3>3
  <2>8. L \in SUBSET Nat
    <3>1. \A o \in StepsOf(T) : o.published \in Nat
      BY <1>3 DEF StepsOf
    <3> QED BY <3>1, OpenIntervalAssumption DEF LaterSteps
  <2>9. \A y \in L : e <= y
    <3> SUFFICES ASSUME NEW y \in LaterSteps(T, s) PROVE e <= y
      BY <2>5
    <3>1. PICK o \in StepsOf(T) : o.published > s.published /\ y = o.published
      BY DEF LaterSteps
    <3>2. CASE o = r
      BY <2>7, <3>1, <3>2
    <3>3. CASE o # r
      <4>1. y \in LaterSteps(S, s)
        BY <1>9, <3>1, <3>3 DEF LaterSteps
      <4> QED BY <2>5, <4>1
    <3> QED BY <3>2, <3>3
  <2>10. e \in L
    <3>1. PICK o \in StepsOf(S) : o.published > s.published /\ e = o.published
      BY <2>5, <2>7 DEF LaterSteps
    <3>2. CASE o.published < r.published
      BY <1>9, <3>1, <3>2 DEF LaterSteps
    <3>3. CASE ~ (o.published < r.published)
      <4>1. o \in S /\ o.published <= r.published
        BY <1>1 DEF StepsOf, S
      <4>2. e = r.published
        BY <1>5, <3>1, <3>3, <4>1 DEF S
      <4>3. r.published > s.published
        BY <1>5, <2>1, <2>4 DEF S
      <4> QED BY <1>8, <4>2, <4>3 DEF LaterSteps
    <3> QED BY <3>2, <3>3
  <2>11. Least(L) = e
    <3> HIDE DEF L, e
    <3> QED BY <2>8, <2>9, <2>10, LeastIs
  <2>12. StepWindow(T, s) = StepWindow(S, s)
    <3>1. StepWindow(T, s) = [version |-> s.version, from |-> s.published, to |-> Least(L)]
      BY DEF StepWindow
    <3>2. StepWindow(S, s) = [version |-> s.version, from |-> s.published, to |-> e]
      BY DEF StepWindow
    <3> QED BY <2>11, <3>1, <3>2
  <2>13. \A c : Opened(c).to = OpenInterval
    BY DEF Opened
  <2> QED BY <2>4, <2>7, <2>12, <2>13
<1>14. ASSUME NEW w \in Solid(windows')
       PROVE  \E s \in StepsOf(T) : w = StepWindow(T, s)
  <2>1. w \in windows' /\ ~ Empty(w)
    BY DEF Solid
  <2>2. CASE w \in windows /\ \A b \in best : w # Opened(b)
    <3>1. PICK s \in StepsOf(S) : w = StepWindow(S, s)
      BY <1>4, <2>1, <2>2 DEF Solid
    <3>2. s \notin best
      BY <1>11, <2>2, <3>1
    <3> QED BY <1>13, <3>1, <3>2
  <2>3. ASSUME NEW b \in best, w = closed(b) PROVE \E s \in StepsOf(T) : w = StepWindow(T, s)
    <3>1. closed(b).from = b.published /\ closed(b).to = r.published
      BY DEF Opened
    <3>2. b.published \in Int /\ r.published \in Int
      BY <1>5, <1>6 DEF S
    <3>3. b.published < r.published
      BY <2>1, <2>3, <3>1, <3>2 DEF Empty
    <3> QED BY <1>12, <2>3, <3>3
  <2>4. CASE w = Opened(r)
    BY <1>8, <1>10, <2>4
  <2>5. \/ w \in windows /\ \A b \in best : w # Opened(b)
        \/ \E b \in best : w = closed(b)
        \/ w = Opened(r)
    BY <1>2, <2>1
  <2> QED BY <2>2, <2>3, <2>4, <2>5
<1>15. ASSUME NEW s \in StepsOf(T)
       PROVE  StepWindow(T, s) \in Solid(windows')
  <2>1. ~ Empty(StepWindow(T, s))
    BY <1>3, StepWindowEnd
  <2>2. CASE s = r
    BY <1>2, <1>10, <2>1, <2>2 DEF Solid
  <2>3. CASE s # r /\ s \in best
    <3>1. s.published < r.published
      BY <1>9, <2>3
    <3> QED BY <1>2, <1>12, <2>1, <2>3, <3>1 DEF Solid
  <2>4. CASE s # r /\ s \notin best
    <3>1. s \in StepsOf(S)
      BY <1>9, <2>4
    <3>2. /\ StepWindow(T, s) = StepWindow(S, s)
          /\ \A b \in best : StepWindow(S, s) # Opened(b)
      BY <1>13, <2>4, <3>1
    <3>3. StepWindow(S, s) \in windows
      BY <1>4, <3>1 DEF Solid
    <3> QED BY <1>2, <2>1, <3>2, <3>3 DEF Solid
  <2> QED BY <2>2, <2>3, <2>4
<1>16. Solid(windows') = {StepWindow(T, s) : s \in StepsOf(T)}
  BY <1>14, <1>15
<1>17. \A s \in StepsOf(T) : s.published <= r.published
  BY <1>1, <1>5 DEF StepsOf, S
<1> HIDE DEF T
<1>18. /\ Solid(windows') = {StepWindow(Seen', s) : s \in StepsOf(Seen')}
       /\ \A c \in best' : /\ c \in StepsOf(Seen')
                           /\ \A s \in StepsOf(Seen') : s.published <= c.published
  BY <1>2, <1>8, <1>16, <1>17
<1> QED BY <1>18 DEF SoFar

\* The window of WindowsOf is the step's, from the declaration on.
LEMMA DefinedWindows ==
    ASSUME NEW at \in Nat,
           Answered \subseteq [version : Versions, published : 1 .. OpenInterval - 1]
    PROVE  WindowsOf(releases, range, at) =
               {w \in {Cut(StepWindow(Answered, r), at) : r \in StepsOf(Answered)} :
                    ~ Empty(w)}
<1> DEFINE window(r) ==
               [version |-> r.version,
                from |-> Later(at, r.published),
                to |-> Least(LaterSteps(Answered, r) \cup {OpenInterval})]
<1>1. ASSUME NEW r \in StepsOf(Answered)
      PROVE  Cut(StepWindow(Answered, r), at) = window(r)
  <2>1. r.published \in Nat
    BY DEF StepsOf
  <2>2. Later(at, r.published) = IF at > 0 THEN Later(r.published, at) ELSE r.published
    BY <2>1 DEF Later
  <2> QED BY <2>2 DEF Cut, StepWindow
<1>2. WindowsOf(releases, range, at) =
          {w \in {window(r) : r \in StepsOf(Answered)} : ~ Empty(w)}
  BY DEF WindowsOf, LaterSteps, Answered
<1> HIDE DEF window
<1> QED BY <1>1, <1>2

\* clamp drops the windows that cover no time, those of the walk included.
LEMMA ClampIsOfSolid ==
    ASSUME NEW W, W \subseteq [version : Versions, from : Nat, to : 0 .. OpenInterval],
           NEW at \in Nat
    PROVE  Clamp(W, at) = {w \in {Cut(v, at) : v \in Solid(W)} : ~ Empty(w)}
<1>1. ASSUME NEW v \in W, ~ Empty(Cut(v, at))
      PROVE  ~ Empty(v) /\ (at > 0 => v.to > at)
  <2>1. /\ v.from \in Nat /\ v.to \in Int
        /\ Cut(v, at).to = v.to
        /\ Cut(v, at).from = IF at > 0 THEN Later(v.from, at) ELSE v.from
    <3>1. v \in [version : Versions, from : Nat, to : 0 .. OpenInterval]
      OBVIOUS
    <3> QED BY <3>1, OpenIntervalAssumption DEF Cut
  <2> QED BY <1>1, <2>1 DEF Empty, Later
<1> QED BY <1>1 DEF Clamp, Solid

\* What the walk has found is the definition's, so what clamp leaves of it is.
LEMMA FinishMatches ==
    ASSUME IInv, SoFar, Finish
    PROVE  MatchesDefinition'
<1> SUFFICES ASSUME Settled
             PROVE  Clamp(windows, declaredAt) = WindowsOf(releases, range, declaredAt)
  BY DEF MatchesDefinition, Settled, Answered, Finish, inputs
<1>1. /\ Seen = Answered /\ declaredAt \in Nat
      /\ windows \subseteq [version : Versions, from : Nat, to : 0 .. OpenInterval]
      /\ Answered \subseteq [version : Versions, published : 1 .. OpenInterval - 1]
  BY WindowsAssumption, AdmittedReleases DEF IInv, TypeOK, Finish, Seen
<1>2. Solid(windows) = {StepWindow(Answered, r) : r \in StepsOf(Answered)}
  BY <1>1 DEF SoFar, Finish
<1>3. Clamp(windows, declaredAt) =
          {w \in {Cut(v, declaredAt) : v \in Solid(windows)} : ~ Empty(w)}
  BY <1>1, ClampIsOfSolid
<1>4. WindowsOf(releases, range, declaredAt) =
          {w \in {Cut(StepWindow(Answered, r), declaredAt) : r \in StepsOf(Answered)} :
               ~ Empty(w)}
  BY <1>1, DefinedWindows
<1> QED BY <1>2, <1>3, <1>4

\* The step forms of the two facts, for the walk and for its end.
MInv == IInv /\ SoFar /\ MatchesDefinition

LEMMA InitMInv == Init => MInv
<1> SUFFICES ASSUME Init PROVE MInv
  OBVIOUS
<1>1. IInv
  BY InitIInv
<1>2. Seen = {} /\ StepsOf(Seen) = {} /\ windows = {} /\ best = {}
  BY DEF Init, Seen, Answered, StepsOf
<1>3. SoFar
  BY <1>2 DEF SoFar, Solid
<1> QED BY <1>1, <1>3 DEF MInv, MatchesDefinition, Init

LEMMA MInvStep == MInv /\ [Next]_vars => MInv'
<1> SUFFICES ASSUME MInv, [Next]_vars PROVE MInv'
  OBVIOUS
<1>1. ASSUME NEW r \in rest, Pass(r) PROVE MInv'
  <2>1. IInv' /\ SoFar'
    BY <1>1, PassStep, PassKeepsSoFar DEF MInv
  <2> QED BY <1>1, <2>1 DEF MInv, MatchesDefinition, Pass
<1>2. ASSUME NEW r \in rest, Take(r) PROVE MInv'
  <2>1. IInv' /\ SoFar'
    BY <1>2, TakeStep, TakeKeepsSoFar DEF MInv
  <2> QED BY <1>2, <2>1 DEF MInv, MatchesDefinition, Take
<1>3. CASE Finish
  <2>1. IInv' /\ MatchesDefinition'
    BY <1>3, FinishStep, FinishMatches DEF MInv
  <2> QED BY <1>3, <2>1 DEF MInv, SoFar, Finish
<1>4. CASE UNCHANGED vars
  <2>1. IInv'
    BY <1>4 DEF MInv, vars, inputs, IInv, TypeOK, Walk, Ordered, BestLeads, Tiles, Seen,
                Answered, IsAnswer, IsResolution, Contains, Instants, Before, Opened
  <2>2. Seen' = Seen /\ Settled' = Settled
    BY <1>4 DEF vars, inputs, Seen, Answered, Settled
  <2>3. SoFar' /\ MatchesDefinition'
    BY <1>4, <2>2 DEF MInv, SoFar, MatchesDefinition, vars, inputs
  <2> QED BY <2>1, <2>3 DEF MInv
<1> QED BY <1>1, <1>2, <1>3, <1>4 DEF Next

\* The windows the walk and clamp leave are the definition's, for every
\* timeline whose order is settled: dropping the ones that cover no time
\* loses nothing (windows.go:102-104). The pass over the graph, modelled on
\* the definition, writes what the code computes.
THEOREM WindowsMatch == Spec => []MatchesDefinition
<1>1. MInv => MatchesDefinition
  BY DEF MInv
<1> QED BY <1>1, InitMInv, MInvStep, PTL DEF Spec

-----------------------------------------------------------------------------
(* The questions.                                                          *)

\* The windows are computed before a project is recorded or an advisory
\* read, and nothing the other writers do disturbs them.
LEMMA IncidentWindowsStep ==
    MInv /\ [IncidentNext]_incidentVars => MInv'
<1> SUFFICES ASSUME MInv, [IncidentNext]_incidentVars PROVE MInv'
  OBVIOUS
<1>1. [Next]_vars
  BY DEF IncidentNext, incidentVars, Advise, RecordProject, RecordLocks, RecordStops
<1> QED BY <1>1, MInvStep

\* What Resolves and WindowsMatch say of the windows is true of the graph
\* that the incident questions read.
THEOREM IncidentWindows == IncidentSpec => []MInv
<1>1. IncidentInit => MInv
  BY InitMInv DEF IncidentInit
<1> QED BY <1>1, IncidentWindowsStep, PTL DEF IncidentSpec

\* What the writers of the other two edge types keep: locks are of pins
\* that are ingested, and the first recording is the lockfile's.
IncidentInv ==
    /\ lockedAt \in Nat
    /\ \A l \in locks : l.at \in Nat
    /\ records \in Nat
    /\ records = 0 => locks = {} /\ unwritten = {} /\ lockfile = {}
    /\ records = 1 /\ whole =>
          /\ unwritten \subseteq lockfile
          /\ locks = {[pin |-> p, at |-> lockedAt] :
                          p \in (lockfile \ unwritten) \cap Ingested}
    /\ phase = "walk" => records = 0 /\ advisory = {} /\ affects = {}

LEMMA IncidentInvStep == IncidentInv /\ [IncidentNext]_incidentVars => IncidentInv'
<1> SUFFICES ASSUME IncidentInv, [IncidentNext]_incidentVars PROVE IncidentInv'
  OBVIOUS
<1> USE DEF IncidentInv, projectVars, advisoryVars, vars, inputs
<1>1. CASE Next /\ UNCHANGED <<projectVars, advisoryVars>>
  BY <1>1 DEF Next, Pass, Take, Finish
<1>2. ASSUME NEW blocks \in Advisories, Advise(blocks) PROVE IncidentInv'
  BY <1>2 DEF Advise
<1>3. ASSUME NEW pins \in Lockfiles, NEW at \in LockTimes, RecordProject(pins, at)
      PROVE  IncidentInv'
  <2>1. at \in Nat
    BY IncidentAssumption
  <2>2. records' = records + 1 /\ locks' = locks /\ unwritten' = pins /\ lockfile' = pins
        /\ lockedAt' = at /\ phase' = phase /\ phase = "done"
    BY <1>3 DEF RecordProject
  <2>3. records' = 1 => locks' = {}
    BY <2>2
  <2> QED BY <2>1, <2>2, <2>3
<1>4. ASSUME NEW P \in (SUBSET unwritten) \ {{}}, RecordLocks(P) PROVE IncidentInv'
  <2>1. /\ locks' = Relocked(locks, P \cap Ingested) /\ unwritten' = unwritten \ P
        /\ UNCHANGED <<lockedAt, records, lockfile, whole, phase, advisory, affects>>
    BY <1>4 DEF RecordLocks
  <2>2. \A l \in locks' : l.at \in Nat
    <3>1. \A p : [pin |-> p, at |-> lockedAt].at = lockedAt
      OBVIOUS
    <3>2. \A l \in locks' : l \in locks \/ l.at = lockedAt
      BY <2>1, <3>1 DEF Relocked
    <3> QED BY <3>2
  <2>3. records # 0
    BY <1>4
  <2>4. ASSUME records = 1, whole
        PROVE  locks' = {[pin |-> p, at |-> lockedAt] :
                            p \in (lockfile \ unwritten') \cap Ingested}
    <3>1. P \subseteq lockfile
      BY <1>4, <2>4
    <3>2. (lockfile \ unwritten') \cap Ingested =
              ((lockfile \ unwritten) \cap Ingested) \cup (P \cap Ingested)
      BY <1>4, <2>1, <3>1
    <3>3. \A l \in locks : l.pin \notin P
      BY <1>4, <2>4
    <3>4. locks' = locks \cup {[pin |-> p, at |-> lockedAt] : p \in P \cap Ingested}
      BY <2>1, <3>3 DEF Relocked
    <3>5. locks = {[pin |-> p, at |-> lockedAt] :
                        p \in (lockfile \ unwritten) \cap Ingested}
      BY <2>4
    <3> QED BY <3>2, <3>4, <3>5
  <2> QED BY <2>1, <2>2, <2>3, <2>4
<1>5. CASE RecordStops
  BY <1>5 DEF RecordStops
<1>6. CASE UNCHANGED incidentVars
  BY <1>6 DEF incidentVars
<1> QED BY <1>1, <1>2, <1>3, <1>4, <1>5, <1>6 DEF IncidentNext

THEOREM IncidentInvariant == IncidentSpec => []IncidentInv
<1>1. IncidentInit => IncidentInv
  BY DEF IncidentInit, IncidentInv
<1> QED BY <1>1, IncidentInvStep, PTL DEF IncidentSpec

\* A window that holds an instant is open before the end of time.
LEMMA WindowInstant ==
    ASSUME TypeOK, NEW w \in windows, NEW t \in Nat, w.from <= t, t < w.to
    PROVE  t \in Instants /\ Contains(w, t) /\ w.version \in Versions
<1>1. w \in [version : Versions, from : Nat, to : 0 .. OpenInterval]
  BY DEF TypeOK
<1> QED BY <1>1, OpenIntervalAssumption DEF Instants, Contains

\* What a project is said to have resolved while it was live is what an
\* install would have taken when its lockfile was written
\* (resolved_while_live.go:38-40).
THEOREM LiveIsAnInstall == IncidentSpec => []LiveIsInstall
<1>1. MInv /\ IncidentInv => LiveIsInstall
  <2> SUFFICES ASSUME MInv, IncidentInv, phase = "done" PROVE LiveIsInstall
    BY DEF LiveIsInstall
  <2> DEFINE live == {bad \in Versions : Live(bad) # {}}
             due  == {v \in Versions : \E l \in locks :
                        l.pin = Uses /\ l.at < OpenInterval /\ Installs(v, l.at)}
  <2>1. \A l \in locks : l.at \in Nat
    BY DEF IncidentInv
  <2>2. TypeOK /\ IsResolution
    BY DEF MInv, IInv
  <2>3. ASSUME NEW bad \in live PROVE bad \in due
    <3>1. PICK w \in windows, l \in locks :
             w.version = bad /\ l.pin = Uses /\ w.from <= l.at /\ l.at < w.to
      BY DEF Live
    <3>2. l.at \in Instants /\ Contains(w, l.at)
      BY <2>1, <2>2, <3>1, WindowInstant
    <3>3. l.at >= declaredAt /\ IsAnswer(Answered, bad, l.at)
      BY <2>2, <3>1, <3>2 DEF IsResolution
    <3>4. l.at < OpenInterval
      BY <3>2, OpenIntervalAssumption DEF Instants
    <3> QED BY <3>1, <3>3, <3>4 DEF Installs
  <2>4. ASSUME NEW v \in due PROVE live # {}
    <3>1. PICK l \in locks : l.pin = Uses /\ l.at < OpenInterval /\ Installs(v, l.at)
      OBVIOUS
    <3>2. l.at \in Instants
      BY <2>1, <3>1, OpenIntervalAssumption DEF Instants
    <3>3. PICK w \in windows : Contains(w, l.at)
      BY <2>2, <3>1, <3>2 DEF IsResolution, Installs, IsAnswer
    <3>4. w.version \in Versions /\ w \in Live(w.version)
      BY <2>1, <2>2, <3>1, <3>3, WindowInstant DEF Live, Contains
    <3> QED BY <3>4
  <2> HIDE DEF live, due
  <2>5. live \subseteq due /\ (live = {} => due = {})
    BY <2>3, <2>4
  <2> QED BY <2>5 DEF LiveIsInstall, live, due
<1> QED BY <1>1, IncidentWindows, IncidentInvariant, PTL

\* Nobody was exposed to an affected version before the version that is said
\* to have introduced the fault was published (bisect.go:57-63).
THEOREM IntroducedFirst == IncidentSpec => []IntroducedBeforeExposed
<1>1. MInv /\ IncidentInv => IntroducedBeforeExposed
  <2> SUFFICES ASSUME MInv, IncidentInv,
                      NEW bad \in affects, NEW w \in Live(bad),
                      NEW r \in Introductions, NEW l \in locks,
                      l.pin = Uses, Contains(w, l.at)
               PROVE  r.published <= l.at
    BY DEF IntroducedBeforeExposed
  <2>1. l.at \in Nat /\ TypeOK /\ IsResolution /\ phase = "done"
    BY DEF MInv, IInv, IncidentInv, TypeOK
  <2>2. w \in windows /\ w.version = bad /\ l.at \in Instants
    BY <2>1, WindowInstant DEF Live, Contains
  <2>3. IsAnswer(Answered, bad, l.at)
    BY <2>1, <2>2 DEF IsResolution
  <2>4. PICK o \in Answered : o.version = bad /\ o.published <= l.at
    BY <2>3 DEF IsAnswer
  <2>5. o \in releases
    BY DEF Answered, Admitted
  <2>6. r \in releases /\ r.published <= o.published
    BY <2>4, <2>5 DEF Introductions, Firsts
  <2>7. r.published \in Int /\ o.published \in Int
    BY <2>1, <2>5, <2>6, WindowsAssumption DEF TypeOK
  <2> QED BY <2>1, <2>4, <2>6, <2>7
<1> QED BY <1>1, IncidentWindows, IncidentInvariant, PTL

\* Ball satisfies the equation it is defined by: the function exists, by
\* induction on the number of edges.
LEMMA BallEquation ==
    ASSUME NEW P, NEW t
    PROVE  /\ Ball(P, t)[0] = P \cap Named \cap Existing(t)
           /\ \A d \in 1 .. MaxDepth :
                 Ball(P, t)[d] = Ball(P, t)[d - 1] \cup StepFrom(Ball(P, t)[d - 1], t)
<1> DEFINE F == P \cap Named \cap Existing(t)
           G(N) == StepFrom(N, t)
           IsBall(f, n) ==
               f = [d \in 0 .. n |-> IF d = 0 THEN F ELSE f[d - 1] \cup G(f[d - 1])]
           Upto == {n \in Nat : \E f : IsBall(f, n)}
<1>b. MaxDepth \in Nat
  BY IncidentAssumption
<1>1. MaxDepth \in Upto
  <2> HIDE DEF F, G
  <2>1. 0 \in Upto
    <3>1. IsBall([d \in 0 .. 0 |-> F], 0)
      OBVIOUS
    <3> QED BY <3>1
  <2>2. ASSUME NEW n \in Nat, n \in Upto PROVE n + 1 \in Upto
    <3>1. PICK f : IsBall(f, n)
      BY <2>2
    <3> DEFINE g == [d \in 0 .. n + 1 |-> IF d <= n THEN f[d] ELSE f[n] \cup G(f[n])]
    <3>2. /\ \A d \in 0 .. n : g[d] = f[d]
          /\ g[n + 1] = f[n] \cup G(f[n])
      OBVIOUS
    <3>3. \A d \in 0 .. n : f[d] = IF d = 0 THEN F ELSE f[d - 1] \cup G(f[d - 1])
      BY <3>1
    <3>4. ASSUME NEW d \in 0 .. n + 1
          PROVE  g[d] = IF d = 0 THEN F ELSE g[d - 1] \cup G(g[d - 1])
      <4>1. CASE d = n + 1
        <5>1. d # 0 /\ d - 1 = n /\ n \in 0 .. n
          BY <4>1
        <5> QED BY <3>2, <4>1, <5>1
      <4>2. CASE d \in 0 .. n
        <5>1. d = 0 \/ d - 1 \in 0 .. n
          BY <4>2
        <5>2. g[d] = f[d] /\ (d = 0 \/ g[d - 1] = f[d - 1])
          BY <3>2, <4>2, <5>1
        <5> QED BY <3>3, <4>2, <5>2
      <4> QED BY <4>1, <4>2
    <3>5. IsBall(g, n + 1)
      <4>1. g = [d \in 0 .. n + 1 |-> g[d]]
        OBVIOUS
      <4> HIDE DEF g
      <4> QED BY <3>4, <4>1
    <3> HIDE DEF IsBall, g
    <3> QED BY <3>5
  <2> HIDE DEF Upto
  <2>3. Nat \subseteq Upto
    BY <2>1, <2>2, NatInductive
  <2> QED BY <2>3, <1>b
<1>2. IsBall(Ball(P, t), MaxDepth)
  BY <1>1 DEF Ball
<1> DEFINE b == Ball(P, t)
           H(e) == IF e = 0 THEN F ELSE b[e - 1] \cup G(b[e - 1])
<1> HIDE DEF F, G, b
<1>3. b = [d \in 0 .. MaxDepth |-> H(d)]
  BY <1>2 DEF b
<1> HIDE DEF H
<1>4. \A d \in 0 .. MaxDepth : b[d] = H(d)
  BY <1>3
<1>5. H(0) = F /\ \A d \in 1 .. MaxDepth : H(d) = b[d - 1] \cup G(b[d - 1])
  BY <1>b DEF H
<1>6. b[0] = F /\ \A d \in 1 .. MaxDepth : b[d] = b[d - 1] \cup G(b[d - 1])
  BY <1>b, <1>4, <1>5
<1> QED BY <1>6 DEF F, G, b

\* A pin of a name that npmURN matches, of a version that existed, is reached,
\* and so is what one edge in force leads to from it.
LEMMA NearIsReached ==
    ASSUME NEW P, NEW t
    PROVE  LET seeds == P \cap Named \cap Existing(t)
           IN  seeds \cup StepFrom(seeds, t) \subseteq ReachFrom(P, t)
<1> DEFINE b == Ball(P, t)
           seeds == P \cap Named \cap Existing(t)
           near == seeds \cup StepFrom(seeds, t)
           Good == {n \in Nat : n + 1 <= MaxDepth => near \subseteq b[n + 1]}
<1>1. MaxDepth \in Nat /\ MaxDepth # 0 /\ 1 \in 1 .. MaxDepth
  BY IncidentAssumption
<1>2. /\ b[0] = seeds
      /\ \A d \in 1 .. MaxDepth : b[d] = b[d - 1] \cup StepFrom(b[d - 1], t)
  BY BallEquation
<1> HIDE DEF b, seeds
<1>3. 0 \in Good
  BY <1>1, <1>2
<1>4. ASSUME NEW n \in Nat, n \in Good PROVE n + 1 \in Good
  <2> SUFFICES ASSUME (n + 1) + 1 <= MaxDepth PROVE near \subseteq b[(n + 1) + 1]
    OBVIOUS
  <2>1. (n + 1) + 1 \in 1 .. MaxDepth /\ ((n + 1) + 1) - 1 = n + 1 /\ n + 1 <= MaxDepth
    BY <1>1
  <2>2. b[n + 1] \subseteq b[(n + 1) + 1]
    BY <1>2, <2>1
  <2>3. near \subseteq b[n + 1]
    BY <1>4, <2>1
  <2> QED BY <2>2, <2>3
<1> HIDE DEF Good
<1>5. MaxDepth - 1 \in Good
  BY <1>1, <1>3, <1>4, NatInductive
<1>6. near \subseteq b[MaxDepth]
  BY <1>1, <1>5 DEF Good
<1> QED BY <1>6 DEF b, seeds, ReachFrom

\* A set that has the pins, and whatever an edge in force leads to from what it
\* has, has all that is reached.
LEMMA ReachInClosed ==
    ASSUME NEW P, NEW t, NEW S, P \cap Named \cap Existing(t) \subseteq S,
           \A e \in Graph : e.from \in S \cap Named /\ Contains(e.valid, t) => e.to \in S
    PROVE  ReachFrom(P, t) \subseteq S
<1> DEFINE b == Ball(P, t)
           Good == {n \in Nat : n <= MaxDepth => b[n] \subseteq S}
<1>1. MaxDepth \in Nat
  BY IncidentAssumption
<1>2. /\ b[0] \subseteq S
      /\ \A d \in 1 .. MaxDepth : b[d] = b[d - 1] \cup StepFrom(b[d - 1], t)
  BY BallEquation
<1>3. ASSUME NEW N, N \subseteq S PROVE StepFrom(N, t) \subseteq S
  BY <1>3 DEF StepFrom
<1> HIDE DEF b
<1>4. 0 \in Good
  BY <1>2
<1>5. ASSUME NEW n \in Nat, n \in Good PROVE n + 1 \in Good
  <2> SUFFICES ASSUME n + 1 <= MaxDepth PROVE b[n + 1] \subseteq S
    OBVIOUS
  <2>1. n + 1 \in 1 .. MaxDepth /\ (n + 1) - 1 = n /\ n <= MaxDepth
    BY <1>1
  <2>2. b[n + 1] = b[n] \cup StepFrom(b[n], t)
    BY <1>2, <2>1
  <2>3. b[n] \subseteq S
    BY <1>5, <2>1
  <2> QED BY <1>3, <2>2, <2>3
<1> HIDE DEF Good
<1>6. MaxDepth \in Good
  BY <1>1, <1>4, <1>5, NatInductive
<1> QED BY <1>1, <1>6 DEF Good, b, ReachFrom

\* What the edges of the graph are: links, and windows.
LEMMA GraphEdges ==
    ASSUME TypeOK
    PROVE  /\ \A w \in windows : \E e \in Graph :
                 /\ e.from = Uses /\ e.to = w.version
                 /\ \A t : Contains(e.valid, t) <=> Contains(w, t)
           /\ \A e \in Graph :
                 \/ e \in Links /\ e.to \notin Versions
                 \/ \E w \in windows :
                       /\ e.from = Uses /\ e.to = w.version
                       /\ \A t : Contains(e.valid, t) <=> Contains(w, t)
<1> DEFINE edge(w) == [from |-> Uses, to |-> w.version,
                       valid |-> [from |-> w.from, to |-> w.to]]
<1>1. \A w : /\ edge(w).from = Uses /\ edge(w).to = w.version
             /\ \A t : Contains(edge(w).valid, t) <=> Contains(w, t)
  BY DEF Contains
<1>2. Graph = Links \cup {edge(w) : w \in windows}
  BY DEF Graph
<1>3. \A e \in Links : e.to \notin Versions
  BY IncidentAssumption
<1> HIDE DEF edge
<1> QED BY <1>1, <1>2, <1>3

\* A version that was live for Uses at t was published by then, and Uses was.
LEMMA LiveExisted ==
    ASSUME MInv, phase = "done", NEW w \in windows, NEW t \in Nat, Contains(w, t)
    PROVE  /\ w.version \in Versions /\ w.version \in {r.version : r \in releases}
           /\ Uses \in Existing(t)
<1>1. TypeOK /\ IsResolution
  BY DEF MInv, IInv
<1>2. t \in Instants /\ w.version \in Versions
  BY <1>1, WindowInstant DEF Contains
<1>3. t >= declaredAt /\ IsAnswer(Answered, w.version, t)
  BY <1>1, <1>2 DEF IsResolution
<1>4. declaredAt \in Nat
  BY <1>1, WindowsAssumption DEF TypeOK
<1>5. \E r \in releases : r.version = w.version
  BY <1>3 DEF IsAnswer, Answered, Admitted
<1> QED BY <1>2, <1>3, <1>4, <1>5 DEF Existing

\* Who is found to have resolved a bad version while it was live, or to have
\* locked it, is exposed; and of a lockfile that has the whole tree the audit
\* finds no more than that (exposed.go:32-35, resolved_while_live.go:45-49).
THEOREM TwoWaysAgree == IncidentSpec => []ExposedAgrees
<1>1. MInv /\ IncidentInv => ExposedAgrees
  <2> SUFFICES ASSUME MInv, IncidentInv, records = 1, whole, unwritten = {},
                      lockedAt < OpenInterval, NEW bad \in Versions
               PROVE  LET found == Live(bad) # {} \/ Pinned(bad)
                      IN  /\ found /\ {bad, Uses} \subseteq Named => Exposed(bad)
                          /\ Exposed(bad) /\ LocksWholeTree => found
    BY DEF ExposedAgrees
  <2>0. TypeOK /\ phase = "done" /\ lockedAt \in Nat /\ bad # Uses
    BY IncidentAssumption DEF MInv, IInv, IncidentInv, TypeOK
  <2>1. locks = {[pin |-> p, at |-> lockedAt] : p \in lockfile \cap Ingested}
    BY DEF IncidentInv
  <2>2. Locked = lockfile \cap Ingested /\ \A l \in locks : l.at = lockedAt
    <3>1. \A p : /\ [pin |-> p, at |-> lockedAt].at = lockedAt
                 /\ [pin |-> p, at |-> lockedAt].pin = p
      OBVIOUS
    <3>2. \A l \in locks : \E p \in lockfile \cap Ingested :
             l = [pin |-> p, at |-> lockedAt]
      BY <2>1
    <3>3. \A p \in lockfile \cap Ingested : [pin |-> p, at |-> lockedAt] \in locks
      BY <2>1
    <3>4. \A l \in locks : l.at = lockedAt /\ l.pin \in lockfile \cap Ingested
      BY <3>1, <3>2
    <3>5. \A p \in lockfile \cap Ingested : \E l \in locks : l.pin = p
      BY <3>1, <3>3
    <3> QED BY <3>4, <3>5 DEF Locked
  <2>3. \A pin \in Locked : \E l \in locks : l.pin = pin /\ l.at = lockedAt
    BY <2>1, <2>2
  <2>4. \A l \in locks : l.pin \in Locked
    BY DEF Locked
  <2>5. Live(bad) # {} <=>
           Uses \in Locked /\ \E w \in windows : w.version = bad /\ Contains(w, lockedAt)
    BY <2>2, <2>3, <2>4 DEF Live, Contains
  <2> DEFINE seeds == Locked \cap Named \cap Existing(lockedAt)
  <2>6. seeds \cup StepFrom(seeds, lockedAt) \subseteq ReachFrom(Locked, lockedAt)
    BY NearIsReached
  <2>7. ASSUME Live(bad) # {}, Uses \in Named PROVE Exposed(bad)
    <3>1. PICK w \in windows : w.version = bad /\ Contains(w, lockedAt)
      BY <2>5, <2>7
    <3>2. Uses \in seeds
      BY <2>0, <2>5, <2>7, <3>1, LiveExisted
    <3>3. PICK e \in Graph : e.from = Uses /\ e.to = bad /\ Contains(e.valid, lockedAt)
      BY <2>0, <3>1, GraphEdges
    <3>4. bad \in StepFrom(seeds, lockedAt)
      BY <2>7, <3>2, <3>3 DEF StepFrom
    <3> QED BY <2>6, <3>4 DEF Exposed
  <2>8. ASSUME Pinned(bad), bad \in Named PROVE Exposed(bad)
    BY <2>2, <2>6, <2>8 DEF Pinned, Exposed
  <2>9. ASSUME Exposed(bad), LocksWholeTree PROVE Live(bad) # {} \/ Pinned(bad)
    <3> DEFINE there == {v \in {r.version : r \in releases} \cap Versions :
                           \/ v \in Locked \cap Existing(lockedAt)
                           \/ Uses \in Locked /\ \E w \in windows :
                                 w.version = v /\ Contains(w, lockedAt)}
               S == (Locked \ Versions) \cup there
    <3>1. seeds \subseteq S
      <4>1. ASSUME NEW v \in seeds, v \in Versions PROVE v \in {r.version : r \in releases}
        BY <4>1, IncidentAssumption DEF Existing
      <4> QED BY <4>1
    <3>2. ASSUME NEW e \in Graph, e.from \in S \cap Named, Contains(e.valid, lockedAt)
          PROVE  e.to \in S
      <4>1. CASE e \in Links /\ e.to \notin Versions
        <5>1. e.from \in Locked \cup {r.version : r \in releases}
          BY <3>2
        <5> QED BY <2>9, <3>2, <4>1, <5>1 DEF LocksWholeTree
      <4>2. CASE \E w \in windows :
                    /\ e.from = Uses /\ e.to = w.version
                    /\ \A t : Contains(e.valid, t) <=> Contains(w, t)
        <5>1. PICK w \in windows : /\ e.from = Uses /\ e.to = w.version
                                   /\ Contains(w, lockedAt)
          BY <3>2, <4>2
        <5>2. w.version \in Versions /\ w.version \in {r.version : r \in releases}
          BY <2>0, <5>1, LiveExisted
        <5>3. Uses \in Locked
          BY <3>2, <5>1, IncidentAssumption
        <5> QED BY <5>1, <5>2, <5>3
      <4>3. \/ e \in Links /\ e.to \notin Versions
            \/ \E w \in windows :
                  /\ e.from = Uses /\ e.to = w.version
                  /\ \A t : Contains(e.valid, t) <=> Contains(w, t)
        <5> HIDE DEF S, there
        <5> QED BY <2>0, GraphEdges
      <4> QED BY <4>1, <4>2, <4>3
    <3> HIDE DEF S
    <3>3. bad \in S
      BY <2>9, <3>1, <3>2, ReachInClosed DEF Exposed
    <3>4. bad \in there
      BY <3>3 DEF S
    <3> QED BY <2>2, <2>5, <3>4 DEF Pinned
  <2> QED BY <2>7, <2>8, <2>9
<1> QED BY <1>1, IncidentWindows, IncidentInvariant, PTL

-----------------------------------------------------------------------------
(* The advisories.                                                         *)

\* Events stand somewhere among the versions, and do one of four things.
LEMMA EventsStand ==
    ASSUME NEW events \in Seq(Event), NEW k \in DOMAIN events
    PROVE  /\ events[k].kind \in {"first", "introduced", "fixed", "last_affected"}
           /\ Where(events[k]) \in Int /\ k \in Nat
<1>1. events[k] \in Event
  OBVIOUS
<1>2. events[k].kind \in {"first", "introduced", "fixed", "last_affected"}
      /\ events[k].place \in Int
  BY <1>1 DEF Event
<1>3. k \in Nat
  OBVIOUS
<1> QED BY <1>2, <1>3, IncidentAssumption DEF Where

\* The events of a range are walked in one order (ranges.go:68).
LEMMA WalkIsLinear ==
    ASSUME NEW events \in Seq(Event)
    PROVE  \A j, k \in DOMAIN events :
              /\ j # k => (Precedes(events, j, k) <=> ~ Precedes(events, k, j))
              /\ ~ Precedes(events, k, k)
              /\ \A i \in DOMAIN events :
                    Precedes(events, i, j) /\ Precedes(events, j, k) => Precedes(events, i, k)
<1>1. \A k \in DOMAIN events : Where(events[k]) \in Int /\ k \in Nat
  BY EventsStand
<1> QED BY <1>1 DEF Precedes

\* So of some events there is a last one.
LEMMA LastWalkedIs ==
    ASSUME NEW events \in Seq(Event), NEW K \in SUBSET DOMAIN events, K # {}
    PROVE  /\ LastWalked(events, K) \in K
           /\ \A j \in K \ {LastWalked(events, K)} : Precedes(events, j, LastWalked(events, K))
<1> DEFINE Last(S, k) == k \in S /\ \A j \in S \ {k} : Precedes(events, j, k)
           Upto == {n \in Nat : \A S \in SUBSET DOMAIN events :
                                   Cardinality(S) = n /\ S # {} => \E k : Last(S, k)}
<1>0. ASSUME NEW S \in SUBSET DOMAIN events
      PROVE  /\ IsFiniteSet(S) /\ Cardinality(S) \in Nat
             /\ \A k \in S : Cardinality(S \ {k}) = Cardinality(S) - 1
             /\ Cardinality(S) = 0 <=> S = {}
  <2>1. IsFiniteSet(1 .. Len(events))
    BY FS_Interval
  <2>2. IsFiniteSet(S)
    BY <2>1, FS_Subset
  <2> QED BY <2>2, FS_CardinalityType, FS_RemoveElement, FS_EmptySet
<1>1. 0 \in Upto
  BY <1>0
<1>2. ASSUME NEW n \in Nat, n \in Upto PROVE n + 1 \in Upto
  <2> SUFFICES ASSUME NEW S \in SUBSET DOMAIN events, Cardinality(S) = n + 1
               PROVE  \E k : Last(S, k)
    OBVIOUS
  <2>1. PICK x \in S : TRUE
    BY <1>0
  <2>2. Cardinality(S \ {x}) = n
    BY <1>0
  <2>3. CASE S \ {x} = {}
    <3>1. Last(S, x)
      BY <2>1, <2>3
    <3> QED BY <3>1
  <2>4. CASE S \ {x} # {}
    <3>1. PICK k : Last(S \ {x}, k)
      BY <1>2, <2>2, <2>4
    <3>2. CASE Precedes(events, x, k)
      <4>1. Last(S, k)
        BY <3>1, <3>2
      <4> QED BY <4>1
    <3>3. CASE ~ Precedes(events, x, k)
      <4>1. Precedes(events, k, x)
        BY <2>1, <3>1, <3>3, WalkIsLinear
      <4>2. \A j \in S \ {x} : Precedes(events, j, x)
        BY <2>1, <3>1, <4>1, WalkIsLinear
      <4>3. Last(S, x)
        BY <2>1, <4>2
      <4> QED BY <4>3
    <3> QED BY <3>2, <3>3
  <2> QED BY <2>3, <2>4
<1> HIDE DEF Upto
<1>3. Nat \subseteq Upto
  BY <1>1, <1>2, NatInductive
<1>4. Cardinality(K) \in Nat
  BY <1>0
<1>5. \E k : Last(K, k)
  BY <1>3, <1>4 DEF Upto
<1>6. \E k \in K : \A j \in K \ {k} : Precedes(events, j, k)
  BY <1>5
<1> QED BY <1>6 DEF LastWalked

\* The events with the indices K, and no others, make v affected.
AffectedBy(events, K, v) ==
    \E k \in K :
        /\ events[k].kind \in {"first", "introduced"} /\ Where(events[k]) <= Place(v)
        /\ \A j \in K : Precedes(events, k, j) =>
              /\ events[j].kind = "fixed" => ~ Where(events[j]) <= Place(v)
              /\ events[j].kind = "last_affected" => ~ Where(events[j]) < Place(v)

\* One event more, walked after the others (ranges.go, isAffected).
LEMMA OneEventMore ==
    ASSUME NEW events \in Seq(Event), NEW K \in SUBSET DOMAIN events, K # {},
           NEW v \in Versions, NEW before \in BOOLEAN,
           before <=> AffectedBy(events, K \ {LastWalked(events, K)}, v)
    PROVE  /\ After(v, before, events[LastWalked(events, K)]) \in BOOLEAN
           /\ After(v, before, events[LastWalked(events, K)]) <=> AffectedBy(events, K, v)
<1> DEFINE l == LastWalked(events, K)
<1>1. /\ l \in K /\ l \in DOMAIN events
      /\ \A j \in K \ {l} : Precedes(events, j, l) /\ ~ Precedes(events, l, j)
      /\ ~ Precedes(events, l, l)
  BY LastWalkedIs, WalkIsLinear
<1> HIDE DEF l
<1>2. Place(v) \in Int
  BY PrecedenceAssumption DEF Place
<1>3. \A k \in K : /\ events[k].kind \in {"first", "introduced", "fixed", "last_affected"}
                   /\ Where(events[k]) \in Int
  BY EventsStand
<1> DEFINE enters(k) == /\ events[k].kind \in {"first", "introduced"}
                        /\ Where(events[k]) <= Place(v)
           leaves(k) == \/ events[k].kind = "fixed" /\ Where(events[k]) <= Place(v)
                        \/ events[k].kind = "last_affected" /\ Where(events[k]) < Place(v)
<1>4. \A S \in SUBSET K :
          AffectedBy(events, S, v) <=>
              \E k \in S : enters(k) /\ \A j \in S : Precedes(events, k, j) => ~ leaves(j)
  BY DEF AffectedBy
<1>5. /\ enters(l) => After(v, before, events[l]) = TRUE
      /\ leaves(l) => After(v, before, events[l]) = FALSE
      /\ ~ enters(l) /\ ~ leaves(l) => (After(v, before, events[l]) <=> before)
  <2>1. l \in K
    BY <1>1
  <2>2. CASE Where(events[l]) > Place(v)
    <3>1. ~ enters(l) /\ ~ leaves(l)
      BY <1>2, <1>3, <2>1, <2>2
    <3> QED BY <2>2, <3>1 DEF After
  <2>3. CASE ~ Where(events[l]) > Place(v) /\ events[l].kind \in {"first", "introduced"}
    <3>1. enters(l) /\ ~ leaves(l)
      BY <1>2, <1>3, <2>1, <2>3
    <3> QED BY <2>3, <3>1 DEF After
  <2>4. CASE ~ Where(events[l]) > Place(v) /\ events[l].kind = "fixed"
    <3>1. ~ enters(l) /\ leaves(l)
      BY <1>2, <1>3, <2>1, <2>4
    <3> QED BY <2>4, <3>1 DEF After
  <2>5. CASE ~ Where(events[l]) > Place(v) /\ events[l].kind = "last_affected"
    <3>1. ~ enters(l) /\ (leaves(l) <=> Where(events[l]) # Place(v))
      BY <1>2, <1>3, <2>1, <2>5
    <3>2. After(v, before, events[l]) = (before /\ Where(events[l]) = Place(v))
      BY <2>5 DEF After
    <3> QED BY <3>1, <3>2
  <2> QED BY <1>3, <2>1, <2>2, <2>3, <2>4, <2>5
<1>6. After(v, before, events[l]) \in BOOLEAN
  BY <1>1, <1>2, <1>3 DEF After
<1>7. \A k \in K : ~ (enters(k) /\ leaves(k))
  OBVIOUS
<1> HIDE DEF enters, leaves
<1>8. CASE enters(l)
  BY <1>1, <1>4, <1>5, <1>6, <1>8 DEF l
<1>9. CASE leaves(l)
  BY <1>1, <1>4, <1>5, <1>6, <1>7, <1>9 DEF l
<1>10. CASE ~ enters(l) /\ ~ leaves(l)
  <2>1. AffectedBy(events, K, v) <=> AffectedBy(events, K \ {l}, v)
    BY <1>1, <1>4, <1>10
  <2> QED BY <1>5, <1>6, <1>10, <2>1 DEF l
<1> QED BY <1>8, <1>9, <1>10

\* The walk over the sorted events says of a version what the definition of
\* a range says (ranges.go:30-34).
LEMMA WalkIsTheRange ==
    ASSUME NEW events \in Seq(Event), NEW v \in Versions
    PROVE  IsAffected(v, events) <=> InRange(events, v)
<1> DEFINE I == DOMAIN events
           F == [x \in I \X BOOLEAN |-> After(v, x[2], events[x[1]])]
           order == [s \in SUBSET I |-> LastWalked(events, s)]
<1>0. IsFiniteSet(I)
  <2>1. I = 1 .. Len(events)
    OBVIOUS
  <2> QED BY <2>1, FS_Interval
<1>1. \A s \in SUBSET I : s # {} => order[s] = LastWalked(events, s) /\ order[s] \in s
  BY LastWalkedIs
<1>2. \A k \in I : \A b \in BOOLEAN : After(v, b, events[k]) \in BOOLEAN
  BY EventsStand DEF After
<1>3. F \in [I \X BOOLEAN -> BOOLEAN]
  BY <1>2
<1>4. \A k \in I : \A b \in BOOLEAN : F[<<k, b>>] = After(v, b, events[k])
  OBVIOUS
<1> HIDE DEF F, order
<1>5. PICK f : FoldOf(f, I, BOOLEAN, FALSE, F, order)
  <2>1. Folding(I, BOOLEAN, FALSE, F, order)
    BY <1>0, <1>1, <1>3 DEF Folding
  <2> HIDE DEF I
  <2> QED BY <2>1, FoldExists
<1> DEFINE IsFold(g) ==
              g = [s \in SUBSET I |-> IF s = {} THEN FALSE
                     ELSE After(v, g[s \ {LastWalked(events, s)}],
                                events[LastWalked(events, s)])]
<1>6. IsFold(f)
  <2>1. f \in [SUBSET I -> BOOLEAN] /\ f[{}] = FALSE
    BY <1>5 DEF FoldOf
  <2>2. ASSUME NEW s \in SUBSET I, s # {}
        PROVE  f[s] = After(v, f[s \ {LastWalked(events, s)}], events[LastWalked(events, s)])
    <3>1. f[s] = F[<<order[s], f[s \ {order[s]}]>>]
      BY <1>5, <2>2 DEF FoldOf
    <3>2. order[s] \in I /\ f[s \ {order[s]}] \in BOOLEAN
      BY <1>1, <2>1, <2>2
    <3>3. F[<<order[s], f[s \ {order[s]}]>>] = After(v, f[s \ {order[s]}], events[order[s]])
      BY <1>4, <3>2
    <3> QED BY <1>1, <2>2, <3>1, <3>3
  <2>3. f = [s \in SUBSET I |-> f[s]]
    BY <2>1
  <2> HIDE DEF I
  <2> QED BY <2>1, <2>2, <2>3
<1>7. IsAffected(v, events) = (CHOOSE g : IsFold(g))[I]
  BY DEF IsAffected, Sets!MapThenFoldSet
<1> DEFINE g == CHOOSE h : IsFold(h)
<1>8. IsFold(g)
  BY <1>6
<1>9. g[{}] = FALSE /\ \A s \in SUBSET I : s # {} =>
          g[s] = After(v, g[s \ {LastWalked(events, s)}], events[LastWalked(events, s)])
  BY <1>8
<1> HIDE DEF g, I
<1> DEFINE Right(s) == g[s] \in BOOLEAN /\ (g[s] <=> AffectedBy(events, s, v))
           Upto == {n \in Nat : \A s \in SUBSET I : Cardinality(s) = n => Right(s)}
<1>10. ASSUME NEW s \in SUBSET I
       PROVE  /\ Cardinality(s) \in Nat
              /\ Cardinality(s) = 0 <=> s = {}
              /\ \A k \in s : Cardinality(s \ {k}) = Cardinality(s) - 1
  <2>1. IsFiniteSet(s)
    BY <1>0, FS_Subset
  <2> QED BY <2>1, FS_CardinalityType, FS_RemoveElement, FS_EmptySet
<1>11. 0 \in Upto
  <2>1. Right({})
    BY <1>9 DEF AffectedBy
  <2> QED BY <1>10, <2>1
<1>12. ASSUME NEW n \in Nat, n \in Upto PROVE n + 1 \in Upto
  <2> SUFFICES ASSUME NEW s \in SUBSET I, Cardinality(s) = n + 1 PROVE Right(s)
    OBVIOUS
  <2> DEFINE l == LastWalked(events, s)
  <2>1. s # {}
    BY <1>10
  <2>2. l \in s
    BY <2>1, LastWalkedIs DEF I
  <2>3. Right(s \ {l})
    BY <1>10, <1>12, <2>2
  <2>4. g[s] = After(v, g[s \ {l}], events[l])
    BY <1>9, <2>1
  <2>5. /\ After(v, g[s \ {l}], events[l]) \in BOOLEAN
        /\ After(v, g[s \ {l}], events[l]) <=> AffectedBy(events, s, v)
    BY <2>1, <2>3, OneEventMore DEF I
  <2> QED BY <2>4, <2>5
<1> HIDE DEF Upto, Right
<1>13. Nat \subseteq Upto
  BY <1>11, <1>12, NatInductive
<1>14. Right(I)
  BY <1>10, <1>13 DEF Upto
<1>15. AffectedBy(events, I, v) <=> InRange(events, v)
  <2>1. \A k \in I : events[k].kind \in {"first", "introduced", "fixed", "last_affected"}
                     /\ Where(events[k]) \in Int /\ k \in Nat
    BY EventsStand DEF I
  <2>2. \A k, j \in I : Precedes(events, k, j) <=>
            \/ Where(events[j]) > Where(events[k])
            \/ Where(events[j]) = Where(events[k]) /\ j > k
    BY <2>1 DEF Precedes
  <2> QED BY <2>2 DEF AffectedBy, InRange, Undone, I
<1> QED BY <1>7, <1>14, <1>15 DEF Right, g

\* Once the advisory pass has run, its edges are those of its one advisory.
AdvisedInv ==
    /\ advisory \subseteq Advisories
    /\ \A blocks \in advisory :
          affects = UNION {Matched(blocks[k]) : k \in DOMAIN blocks}
    /\ phase = "walk" => advisory = {}

\* The pass runs after the windows are computed, and no other step changes
\* the releases, the advisory or its edges.
LEMMA AdvisedStep == AdvisedInv /\ [IncidentNext]_incidentVars => AdvisedInv'
<1> SUFFICES ASSUME AdvisedInv, [IncidentNext]_incidentVars PROVE AdvisedInv'
  OBVIOUS
<1> USE DEF AdvisedInv, projectVars, advisoryVars, vars, inputs
<1>0. releases' = releases => \A b : Matched(b)' = Matched(b)
  BY DEF Matched
<1>1. CASE Next /\ UNCHANGED <<projectVars, advisoryVars>>
  BY <1>0, <1>1 DEF Next, Pass, Take, Finish
<1>2. ASSUME NEW blocks \in Advisories, Advise(blocks) PROVE AdvisedInv'
  BY <1>0, <1>2 DEF Advise
<1>3. ASSUME NEW pins \in Lockfiles, NEW at \in LockTimes, RecordProject(pins, at)
      PROVE  AdvisedInv'
  BY <1>0, <1>3 DEF RecordProject
<1>4. ASSUME NEW P \in (SUBSET unwritten) \ {{}}, RecordLocks(P) PROVE AdvisedInv'
  BY <1>0, <1>4 DEF RecordLocks
<1>5. CASE RecordStops
  BY <1>0, <1>5 DEF RecordStops
<1>6. CASE UNCHANGED incidentVars
  BY <1>0, <1>6 DEF incidentVars
<1> QED BY <1>1, <1>2, <1>3, <1>4, <1>5, <1>6 DEF IncidentNext

\* The AFFECTS edges lead to exactly the releases inside a range of the
\* advisory, or listed by a block of it without ranges (ranges.go:30-34).
THEOREM AffectsAreRanges == IncidentSpec => []AffectsIsTheRanges
<1>1. IncidentInit => AdvisedInv
  BY DEF IncidentInit, AdvisedInv
<1>2. TypeOK /\ AdvisedInv => AffectsIsTheRanges
  <2> SUFFICES ASSUME TypeOK, AdvisedInv, NEW blocks \in advisory, NEW r \in releases
               PROVE  r.version \in affects <=>
                         \E k \in DOMAIN blocks :
                            \/ \E j \in DOMAIN blocks[k].ranges :
                                  InRange(blocks[k].ranges[j], r.version)
                            \/ blocks[k].ranges = << >> /\ r.version \in blocks[k].versions
    BY DEF AffectsIsTheRanges
  <2>1. blocks \in Seq(Block)
    BY IncidentAssumption DEF AdvisedInv
  <2>2. \A o \in releases : o.version \in Versions
    BY WindowsAssumption DEF TypeOK
  <2>3. ASSUME NEW k \in DOMAIN blocks
        PROVE  r.version \in Matched(blocks[k]) <=>
                  \/ \E j \in DOMAIN blocks[k].ranges :
                        InRange(blocks[k].ranges[j], r.version)
                  \/ blocks[k].ranges = << >> /\ r.version \in blocks[k].versions
    <3>1. blocks[k] \in Block
      BY <2>1
    <3>2. blocks[k].ranges \in Seq(Seq(Event))
      BY <3>1 DEF Block
    <3>3. \A j \in DOMAIN blocks[k].ranges : blocks[k].ranges[j] \in Seq(Event)
      BY <3>2
    <3>4. \A j \in DOMAIN blocks[k].ranges : \A o \in releases :
             IsAffected(o.version, blocks[k].ranges[j]) <=> InRange(blocks[k].ranges[j], o.version)
      BY <2>2, <3>3, WalkIsTheRange
    <3>5. blocks[k].ranges = << >> => DOMAIN blocks[k].ranges = {}
      OBVIOUS
    <3> QED BY <3>4, <3>5 DEF Matched
  <2>4. r.version \in affects <=> \E k \in DOMAIN blocks : r.version \in Matched(blocks[k])
    BY DEF AdvisedInv
  <2> QED BY <2>3, <2>4
<1>3. MInv => TypeOK
  BY DEF MInv, IInv
<1> QED BY <1>1, <1>2, <1>3, AdvisedStep, IncidentWindows, PTL DEF IncidentSpec
=============================================================================
