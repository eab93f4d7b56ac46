------------------------------- MODULE LogTail -------------------------------
(***************************************************************************)
(* read_output against what its documentation promises, over every log of  *)
(* a few chunks: processes write, and every query may be asked at any time.*)
(***************************************************************************)
EXTENDS OutputLog

CONSTANTS
    Asked,      \* the queries clients make
    Tails       \* the line counts given to --tail

ASSUME TailAssumption == Asked \subseteq Queries /\ Tails \subseteq Nat

Init == log = <<>>

Capture == \E p \in Procs, s \in Streams, d \in Data, at \in Times : InsertOutputChunk(p, s, d, at)

Spec == Init /\ [][Capture]_log

-----------------------------------------------------------------------------
(* Reference: the lines of a text, a trailing partial line included. *)

Text(chunks) == FlattenSeq([k \in DOMAIN chunks |-> chunks[k].data])

TextOf(q) == Text(Answer(q, 0, 0).chunks)

LineStarts(text) == {k \in DOMAIN text : k = 1 \/ text[k - 1] = NL}

LastLines(text, n) ==
    IF n = 0 THEN <<>>
    ELSE IF Cardinality(LineStarts(text)) <= n THEN text
    ELSE LET first == CHOOSE k \in LineStarts(text) :
                         Cardinality({j \in LineStarts(text) : j >= k}) = n
         IN  SubSeq(text, first, Len(text))

\* A read with --tail n returns exactly the last n lines of what the query
\* selects, however the lines are cut into chunks (seek_tail and the slicing
\* of the boundary chunk).
TailIsLastLines ==
    \A q \in Asked, n \in Tails :
        Text(ReadOutput(q, 0, n).chunks) = LastLines(TextOf(q), n)

\* The cursor a tail read returns repeats nothing and loses nothing: no row
\* that there is and that the query selects is behind it, and every row still
\* to come is, even when the tail was empty or its first chunk was trimmed
\* away.
CursorIsExact ==
    \A q \in Asked, n \in Tails :
        LET resume == ReadOutput(q, 0, n).resume
        IN  Selected(q, resume) = {} /\ resume <= Len(log)
=============================================================================
