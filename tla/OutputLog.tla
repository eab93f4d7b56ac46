------------------------------ MODULE OutputLog ------------------------------
(***************************************************************************)
(* Captured output: the `process_output` table of the daemon's database    *)
(* and the read primitive every log command is built from (read_output,    *)
(* seek_tail and trim_leading_lines of src/src/daemon/store.rs).           *)
(*                                                                         *)
(* A row is a chunk; its id, shared by all processes, is its position in   *)
(* the log.  A chunk's bytes matter only as line ends and anything else.   *)
(* read_output runs in one read transaction, so it sees one log.           *)
(***************************************************************************)
EXTENDS Naturals, FiniteSetsExt, SequencesExt

CONSTANTS
    Procs,      \* the processes whose output is captured
    Streams,    \* stdout, stderr
    Bytes,      \* what output is made of
    NL,         \* the newline byte
    Data,       \* what a process may write at a time, as a capture task reads it
    Times,      \* the clock readings a chunk may be stamped with
    Null,       \* no restriction: a NULL parameter of a query
    MaxChunks   \* bound: how many chunks are captured

ASSUME OutputAssumption ==
    /\ MaxChunks \in Nat
    /\ Times \subseteq Nat
    /\ Null \notin Procs /\ Null \notin Streams /\ Null \notin Nat
    /\ Data \subseteq Seq(Bytes)
    /\ <<>> \notin Data     \* a read of zero bytes ends the capture

VARIABLE log    \* the rows, by id

Chunks == [proc : Procs, stream : Streams, data : Data, at : Times]

Queries == [proc : Procs \cup {Null}, stream : Streams \cup {Null},
            since : Times \cup {Null}, until : Times \cup {Null}]

LogTypeOK == log \in Seq(Chunks) /\ Len(log) <= MaxChunks

-----------------------------------------------------------------------------
\* capture_output and insert_output_chunk: a capture task stores what it
\* read from the process's pipe, stamped with a clock read before.
InsertOutputChunk(p, s, d, at) ==
    /\ Len(log) < MaxChunks
    /\ log' = Append(log, [proc |-> p, stream |-> s, data |-> d, at |-> at])

-----------------------------------------------------------------------------
Matches(q, c) ==
    /\ q.proc \in {Null, c.proc}
    /\ q.stream \in {Null, c.stream}
    /\ q.since # Null => c.at >= q.since
    /\ q.until # Null => c.at <= q.until

\* The rows the WHERE clause of both queries selects.
Selected(q, after) == {i \in DOMAIN log : i > after /\ Matches(q, log[i])}

Newlines(d) == {k \in DOMAIN d : d[k] = NL}

\* The line ends from row i on, as pairs of a row and a place in it.
LineEnds(rows, i) == UNION {{j} \X Newlines(log[j].data) : j \in {j \in rows : j >= i}}

\* The lines counted when the backward scan of seek_tail has reached row i:
\* its newlines and those of every newer row, and the partial line at the
\* end of the newest one.
LinesFrom(rows, i) ==
    Cardinality(LineEnds(rows, i)) + IF Last(log[Max(rows)].data) = NL THEN 0 ELSE 1

\* Mutant of SeekTail: the scan stops as soon as it has seen n lines.
SeekTailShort(q, n) ==
    LET rows == Selected(q, 0)
        over == {i \in rows : LinesFrom(rows, i) >= n}
    IN  IF rows = {} \/ (n > 0 /\ over = {}) THEN [start |-> 0, trim |-> 0]
        ELSE IF n = 0 THEN [start |-> Max(rows), trim |-> 0]
        ELSE [start |-> Max(over) - 1, trim |-> LinesFrom(rows, Max(over)) - n]

\* Where to read from for the last n lines, and how many lines of the first
\* row are too many.
SeekTail(q, n) ==
    LET rows == Selected(q, 0)
        over == {i \in rows : LinesFrom(rows, i) > n}
    IN  IF rows = {} \/ (n > 0 /\ over = {}) THEN [start |-> 0, trim |-> 0]
        ELSE IF n = 0 THEN [start |-> Max(rows), trim |-> 0]
        ELSE [start |-> Max(over) - 1, trim |-> LinesFrom(rows, Max(over)) - n]

Rank(S, k) == Cardinality({j \in S : j <= k})

\* The n-th member of S, from the least.
Nth(S, n) == CHOOSE k \in S : Rank(S, k) = n

\* ORDER BY id ASC
InOrder(S) == [n \in 1 .. Cardinality(S) |-> Nth(S, n)]

\* What is left of d after its first n lines, nothing if it has fewer.
TrimLeadingLines(d, n) ==
    IF n = 0 THEN d
    ELSE IF Cardinality(Newlines(d)) < n THEN <<>>
    ELSE SubSeq(d, Nth(Newlines(d), n) + 1, Len(d))

\* What is sent of row i: the first row is trimmed.
Sent(rows, trim, i) == TrimLeadingLines(log[i].data, IF i = Min(rows) THEN trim ELSE 0)

\* The rows something is sent of: the first is dropped when nothing is left.
Kept(rows, trim) == {i \in rows : Sent(rows, trim, i) # <<>>}

ChunksOf(rows, trim) ==
    LET ids == InOrder(Kept(rows, trim))
    IN  [k \in DOMAIN ids |->
            [id |-> ids[k], proc |-> log[ids[k]].proc, data |-> Sent(rows, trim, ids[k])]]

\* Mutant of Resume: no chunk, no cursor.
ResumeFromZero(kept, start) == IF kept = {} THEN 0 ELSE Max(kept)

\* The cursor to resume from: the last chunk sent, valid without one too.
Resume(kept, start) == IF kept = {} THEN start ELSE Max(kept)

\* The rows after `start`, and the cursor.
Answer(q, start, trim) ==
    LET rows == Selected(q, start)
    IN  [chunks |-> ChunksOf(rows, trim), resume |-> Resume(Kept(rows, trim), start)]

\* tail overrides after.
ReadOutput(q, after, tail) ==
    IF tail = Null THEN Answer(q, after, 0)
    ELSE LET seek == SeekTail(q, tail) IN Answer(q, seek.start, seek.trim)
=============================================================================
