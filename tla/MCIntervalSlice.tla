--------------------------- MODULE MCIntervalSlice ---------------------------
(* Every sequence of insertions of spans within seven instants.            *)
EXTENDS IntervalSlice

\* All spans with ends among 0 .. OpenInterval, the empty and the inverted
\* ones that an intersection can produce included.
MCSpans == [from : 0 .. OpenInterval, to : 0 .. OpenInterval]
=============================================================================
