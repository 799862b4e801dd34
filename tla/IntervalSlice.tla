---------------------------- MODULE IntervalSlice ----------------------------
(***************************************************************************)
(* The type Set of internal/query/interval.go as the code keeps it: a      *)
(* slice of spans in order, searched by one walk from the left (Covers)    *)
(* and rebuilt by one pass that swallows what it touches (Insert).         *)
(*                                                                         *)
(* A behaviour inserts arbitrary spans one after another, empty ones       *)
(* included: Insert is called on whatever an intersection produced.        *)
(***************************************************************************)
EXTENDS Intervals, Sequences, FiniteSets, Functions

CONSTANT Spans          \* the spans that may be inserted

\* Nothing is valid before 0 or after OpenInterval, and so no intersection.
ASSUME SpansAssumption ==
    \A i \in Spans : i \in Span /\ i.from >= 0 /\ i.to <= OpenInterval

VARIABLES slice,        \* the sorted slice
          added         \* what the last Insert returned beside it

sliceVars == <<slice, added>>

\* A loop over the members of s: what Step makes of them, from the left.
Pass(Step(_, _), start, s) ==
    LET after[k \in 0 .. Len(s)] ==
            IF k = 0 THEN start ELSE Step(after[k - 1], s[k])
    IN  after[Len(s)]

Members(s) == {s[k] : k \in 1 .. Len(s)}

-----------------------------------------------------------------------------
(* Covers: consume i from the left.                                        *)

\* Mutant: a member that lies before what remains moves the walk as if it
\* had been progress.
WalkStepSkipAdvances(w, have) ==
    IF w.verdict # "open" THEN w
    ELSE IF have.from > w.from /\ have.to > w.from
         THEN [w EXCEPT !.verdict = "no"]
    ELSE IF have.to >= w.to /\ have.to > w.from
         THEN [w EXCEPT !.verdict = "yes"]
    ELSE [w EXCEPT !.from = have.from]

\* One member of the walk.  w is what remains of i and the verdict so far.
WalkStep(w, have) ==
    IF w.verdict # "open" \/ have.to <= w.from THEN w
    ELSE IF have.from > w.from THEN [w EXCEPT !.verdict = "no"]
    ELSE IF have.to >= w.to THEN [w EXCEPT !.verdict = "yes"]
    ELSE [w EXCEPT !.from = have.to]

SliceCovers(s, i) ==
    LET start == [from |-> i.from, to |-> i.to, verdict |-> "open"]
    IN  Empty(i) \/ Pass(WalkStep, start, s).verdict = "yes"

-----------------------------------------------------------------------------
(* Insert: one pass that copies what does not touch and swallows the rest. *)

\* Mutant: spans that abut are kept apart.
SwallowOverlapOnly(acc, have) ==
    IF have.to <= acc.merged.from \/ have.from >= acc.merged.to
    THEN [acc EXCEPT !.out = Append(@, have)]
    ELSE [acc EXCEPT !.merged = [from |-> Earlier(@.from, have.from),
                                 to   |-> Later(@.to, have.to)]]

Swallow(acc, have) ==
    IF have.to < acc.merged.from \/ have.from > acc.merged.to
    THEN [acc EXCEPT !.out = Append(@, have)]
    ELSE [acc EXCEPT !.merged = [from |-> Earlier(@.from, have.from),
                                 to   |-> Later(@.to, have.to)]]

\* sort.Slice: the members put in an order in which no start goes down.
SortByFrom(s) ==
    LET places == 1 .. Len(s)
        order == CHOOSE p \in Bijection(places, places) :
                    \A j, k \in places : j < k => s[p[j]].from <= s[p[k]].from
    IN  [k \in places |-> s[order[k]]]

\* Mutant: the slice is left in the order of insertion.
SliceInsertUnsorted(s, i) ==
    LET pass == Pass(Swallow, [out |-> << >>, merged |-> i], s)
    IN  IF SliceCovers(s, i) THEN s ELSE Append(pass.out, pass.merged)

SliceInsert(s, i) ==
    LET pass == Pass(Swallow, [out |-> << >>, merged |-> i], s)
    IN  IF SliceCovers(s, i)
        THEN s
        ELSE SortByFrom(Append(pass.out, pass.merged))

\* Mutant: a span is counted by its last instant, not by its length.
AddLengthInclusive(total, have) == total + (have.to - have.from) + 1

AddLength(total, have) == total + (have.to - have.from)

\* The total time covered, and the first instant covered.
Width(s) == Pass(AddLength, 0, s)

Earliest(s) == IF s = << >> THEN 0 ELSE s[1].from

-----------------------------------------------------------------------------

SliceInit ==
    /\ slice = << >>
    /\ added = FALSE

InsertSpan(i) ==
    /\ added' = ~ SliceCovers(slice, i)
    /\ slice' = SliceInsert(slice, i)

SliceNext == \E i \in Spans : InsertSpan(i)

SliceSpec == SliceInit /\ [][SliceNext]_sliceVars

-----------------------------------------------------------------------------
(* Properties.                                                             *)

\* The slice holds spans, none of them empty.
SliceTypeOK ==
    /\ slice \in Seq(Span)
    /\ \A n \in 1 .. Len(slice) : ~ Empty(slice[n])
    /\ added \in BOOLEAN

\* The instants the slice stands for.
Covered == {t \in Instants : Holds(Members(slice), t)}

\* However spans are inserted, the slice stays in ascending order with a
\* real gap between neighbours: the invariant that Covers' single walk and
\* Earliest's use of the first member both rest on.
SortedWithGaps ==
    \A n \in 2 .. Len(slice) : slice[n - 1].to < slice[n].from

\* The walk of Covers answers the pointwise question for every span, not
\* only for those that were inserted; Width is the number of instants covered
\* and Earliest the first of them, however the spans overlapped.
MeasuresCoverage ==
    /\ \A i \in Spans :
          SliceCovers(slice, i) <=> \A t \in Instants : Contains(i, t) => t \in Covered
    /\ Width(slice) = Cardinality(Covered)
    /\ Covered # {} => Earliest(slice) = Least(Covered)

\* The walks over the slice compute what the operators of module Intervals
\* say, which is what the search is modelled and proved with.
AgreesWithIntervals ==
    \A i \in Spans :
        /\ SliceCovers(slice, i) <=> Covers(Members(slice), i)
        /\ Members(SliceInsert(slice, i)) = Insert(Members(slice), i)

\* The slice implements a set of instants: an insertion adds exactly the
\* instants of its span and reports whether one of them was new.
Promise == INSTANCE InstantSet WITH instants <- Covered
ImplementsInstantSet == Promise!Spec
=============================================================================
