------------------------------ MODULE Expander ------------------------------
(***************************************************************************)
(* GraphExpander.Out and expand of internal/query/expander.go: one hop of  *)
(* a search, read from the graph in chunks.                                *)
(*                                                                         *)
(* A call for many sources returns at most ResultLimit rows and does not   *)
(* say when there were more.  expand takes a full answer as a sign of      *)
(* truncation, throws it away and asks again for each half.  The recursion *)
(* is modelled by the lists it still has to expand, the next one first.    *)
(***************************************************************************)
EXTENDS Naturals, FiniteSets, Sequences, Functions

CONSTANTS
    Urns,           \* the version URNs of the system, as VersionURN builds them
    Matched,        \* those that npmURN matches
    Edges,          \* the edges of the traversed type: pairs of URNs
    SourceChunk,    \* sourceChunk
    ResultLimit     \* resultLimit

ASSUME ExpanderAssumption ==
    /\ Matched \subseteq Urns
    /\ IsFiniteSet(Urns) /\ Edges \subseteq Urns \X Urns
    /\ SourceChunk \in Nat \ {0}
    /\ ResultLimit \in Nat \ {0}

VARIABLES
    asked,      \* the URNs Out was called with: a frontier, so no URN twice
    rest,       \* those no chunk holds yet
    pending,    \* the lists the recursion still has to expand, next first
    got,        \* the edges read so far
    rows,       \* how many edges the answer lists
    reads,      \* Reads
    hop         \* "reading", "done" or "failed"

hopVars == <<asked, rest, pending, got, rows, reads, hop>>

EdgesFrom(S) == {e \in Edges : e[1] \in S}

Listed(list) == {list[k] : k \in 1 .. Len(list)}

\* The URNs of a list that may be put into the text of a query.
Valid(list) ==
    LET valid[k \in 0 .. Len(list)] ==
            IF k = 0 THEN << >>
            ELSE IF list[k] \in Matched THEN Append(valid[k - 1], list[k])
                 ELSE valid[k - 1]
    IN  valid[Len(list)]

\* What algo.MSpaths may answer: everything, or ResultLimit rows of it.
Answers(list) ==
    LET all == EdgesFrom(Listed(list))
    IN  IF Cardinality(all) <= ResultLimit THEN {all}
        ELSE {answer \in SUBSET all : Cardinality(answer) = ResultLimit}

LeftHalf(list)  == SubSeq(list, 1, Len(list) \div 2)
RightHalf(list) == SubSeq(list, Len(list) \div 2 + 1, Len(list))

HopInit ==
    /\ \E n \in 0 .. Cardinality(Urns) : asked \in Injection(1 .. n, Urns)
    /\ rest = asked
    /\ pending = << >>
    /\ got = {}
    /\ rows = 0
    /\ reads = 0
    /\ hop = "reading"

\* Out takes the next chunk.
TakeChunk ==
    /\ hop = "reading" /\ pending = << >> /\ rest # << >>
    /\ LET n == IF Len(rest) < SourceChunk THEN Len(rest) ELSE SourceChunk
       IN  /\ pending' = << SubSeq(rest, 1, n) >>
           /\ rest' = SubSeq(rest, n + 1, Len(rest))
    /\ UNCHANGED <<asked, got, rows, reads, hop>>

\* Nothing in the list may be asked for.
NothingToAsk ==
    /\ hop = "reading" /\ pending # << >> /\ Valid(Head(pending)) = << >>
    /\ pending' = Tail(pending)
    /\ UNCHANGED <<asked, rest, got, rows, reads, hop>>

\* Mutant: an answer that fits exactly is taken as complete.
SplitsAboveTheLimit(list, answer) ==
    Cardinality(answer) > ResultLimit /\ Len(list) > 1

\* Mutant: a single source is split as well.
SplitsAlways(list, answer) == Cardinality(answer) >= ResultLimit

\* A full answer is a sign of truncation, and one source cannot be split.
Splits(list, answer) == Cardinality(answer) >= ResultLimit /\ Len(list) > 1

\* One query.
Read ==
    /\ hop = "reading" /\ pending # << >> /\ Valid(Head(pending)) # << >>
    /\ reads' = reads + 1
    /\ LET list == Valid(Head(pending)) IN
       \E answer \in Answers(list) :
          IF Splits(list, answer)
          THEN /\ pending' = <<LeftHalf(list), RightHalf(list)>> \o Tail(pending)
               /\ UNCHANGED <<got, rows>>
          ELSE /\ pending' = Tail(pending)
               /\ got' = got \cup answer
               /\ rows' = rows + Cardinality(answer)
    /\ UNCHANGED <<asked, rest, hop>>

\* A query fails: Out returns the error and no edges.
ReadFails ==
    /\ hop = "reading" /\ pending # << >> /\ Valid(Head(pending)) # << >>
    /\ reads' = reads + 1
    /\ hop' = "failed"
    /\ pending' = << >>
    /\ got' = {}
    /\ rows' = 0
    /\ UNCHANGED <<asked, rest>>

Finish ==
    /\ hop = "reading" /\ pending = << >> /\ rest = << >>
    /\ hop' = "done"
    /\ UNCHANGED <<asked, rest, pending, got, rows, reads>>

HopNext == TakeChunk \/ NothingToAsk \/ Read \/ ReadFails \/ Finish

HopSpec == HopInit /\ [][HopNext]_hopVars

-----------------------------------------------------------------------------
(* Properties.                                                             *)

HopTypeOK ==
    /\ asked \in Seq(Urns)
    /\ rest \in Seq(Urns)
    /\ pending \in Seq(Seq(Urns))
    /\ \A k \in 1 .. Len(pending) : Len(pending[k]) \in 1 .. SourceChunk
    /\ got \subseteq Edges
    /\ rows \in Nat
    /\ reads \in Nat
    /\ hop \in {"reading", "done", "failed"}

\* At most ResultLimit edges leave the source: one call can return them all.
Fits(u) == Cardinality(EdgesFrom({u})) <= ResultLimit

\* The comment on splitting in expand: no edge of a source that fits one call
\* and that the pattern matches is missing from the answer, whichever rows the
\* truncated calls left out; no edge is listed twice, and none that was not
\* asked for: what a truncated call returned is thrown away before its halves
\* are read.
NoSilentTruncation ==
    /\ hop = "done" =>
          \A u \in Listed(asked) \cap Matched : Fits(u) => EdgesFrom({u}) \subseteq got
    /\ rows = Cardinality(got)
    /\ got \subseteq EdgesFrom(Listed(asked))

\* While the recursion runs, what is still to be read and what has been read
\* do not overlap and leave out no source.
PendingCoversTheRest ==
    LET waiting == (UNION {Listed(pending[k]) : k \in 1 .. Len(pending)})
                       \cup Listed(rest)
    IN  hop = "reading" =>
          /\ \A e \in got : e[1] \notin waiting
          /\ \A u \in (Listed(asked) \cap Matched) \ waiting :
                Fits(u) => EdgesFrom({u}) \subseteq got

\* Splitting costs at most one query more for every source.
ReadsAreBounded == reads <= 2 * Len(asked)

\* expander.go:100-102: splitting "prevents a silently incomplete traversal in
\* every other" case.  It does not when one source alone exceeds the limit.
SplittingPreventsTruncation ==
    hop = "done" => EdgesFrom(Listed(asked) \cap Matched) \subseteq got

\* expander.go:56: npmURN "matches the URNs we construct, and nothing else".
\* A name with a capital letter is constructed and not matched; its edges are
\* left out without an error.
ConstructedUrnsAreExpanded ==
    hop = "done" => \A u \in Listed(asked) : Fits(u) => EdgesFrom({u}) \subseteq got
=============================================================================
