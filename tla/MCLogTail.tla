------------------------------ MODULE MCLogTail ------------------------------
(***************************************************************************)
(* LogTail for TLC: a chunk is a partial line, a line, a line and the      *)
(* beginning of another, the end of one and the beginning of another, or   *)
(* two line ends.  Queries select by one column, or by process and time.   *)
(***************************************************************************)
EXTENDS LogTail, TLC

MCStreams == {"stdout", "stderr"}

MCBytes == {"x", NL}

MCData == {<<"x">>, <<"x", NL>>, <<NL, "x">>, <<NL, NL>>, <<"x", NL, "x">>}

MCAsked ==
    LET all == [proc |-> Null, stream |-> Null, since |-> Null, until |-> Null]
    IN  {all} \cup {[all EXCEPT !.proc = p] : p \in Procs}
              \cup {[all EXCEPT !.stream = s] : s \in Streams}
              \cup {[all EXCEPT !.until = t] : t \in Times}
              \cup {[all EXCEPT !.proc = p, !.since = t] : p \in Procs, t \in Times}

Symmetry == Permutations(Procs)
=============================================================================
