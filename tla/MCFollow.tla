------------------------------- MODULE MCFollow -------------------------------
(***************************************************************************)
(* Follow for TLC: a chunk ends in mid-line, with the end of a line in it  *)
(* or none.                                                                *)
(***************************************************************************)
EXTENDS Follow

MCBytes == {"x", NL}

MCPieces == {<<"x">>, <<NL, "x">>}

MCStreams == {"stdout"}
=============================================================================
