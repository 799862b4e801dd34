----------------------------- MODULE Checkpoint -----------------------------
(***************************************************************************)
(* The checkpoint file of internal/checkpoint/checkpoint.go: an            *)
(* append-only list of the names whose work is committed, one per line.    *)
(* The ingest and the resolve pass both resume from one.                   *)
(*                                                                         *)
(* A file is a sequence of lines, and a text is a sequence of pieces.  A   *)
(* line that was written only in part has no line break, so only the last  *)
(* line can be of that kind.  What is appended later joins its text, and   *)
(* the whole may spell any name: "is-", torn from "is-number", and "array" *)
(* make "is-array".                                                        *)
(***************************************************************************)
EXTENDS Naturals, Sequences

CONSTANTS
    Pieces,     \* what texts are made of; a write can stop after any piece
    Names       \* the names of units of work

ASSUME CheckpointAssumption == Names \subseteq Seq(Pieces) \ {<< >>}

\* The program cannot see whether a line is sound: whether it is, in full,
\* what one Record wrote.  No line is that was ever torn.
Line == [text : Seq(Pieces), whole : BOOLEAN, sound : BOOLEAN]

Torn(x) == [text |-> x, whole |-> FALSE, sound |-> FALSE]

EndsTorn(file) == file # << >> /\ ~ file[Len(file)].whole

LinesOf(file) == {file[k] : k \in 1 .. Len(file)}

\* The lines that have their line break, and the text behind the last one.
EndedLines(file) == IF EndsTorn(file) THEN SubSeq(file, 1, Len(file) - 1) ELSE file
Dangling(file) == IF EndsTorn(file) THEN file[Len(file)].text ELSE << >>

Beginnings(x) == {SubSeq(x, 1, k) : k \in 1 .. Len(x)}

\* Open: every line counts, also one that was torn.
Claims(file) == {l.text : l \in LinesOf(file)} \cap Names

\* The claims that a Record made.
SoundClaims(file) == {l.text : l \in {m \in LinesOf(file) : m.sound}} \cap Names

\* Record appends a name and a line break to whatever the file ends with.
WriteLine(file, n) ==
    Append(EndedLines(file), [text  |-> Dangling(file) \o n,
                              whole |-> TRUE,
                              sound |-> ~ EndsTorn(file)])

\* The write of n's line stops after some of its bytes.
TornWrites(file, n) ==
    {Append(EndedLines(file), Torn(Dangling(file) \o b)) : b \in Beginnings(n)}

\* What a power failure leaves of a file of which the first k lines are on
\* disk: some more lines, and perhaps the beginning of the next.
AfterPowerLoss(file, k) ==
    LET kept == {SubSeq(file, 1, m) : m \in k .. Len(file)}
        torn(f) == {Append(f, Torn(b)) : b \in Beginnings(file[Len(f) + 1].text)}
    IN  kept \cup UNION {torn(f) : f \in {g \in kept : Len(g) < Len(file)}}
=============================================================================
