------------------------------ MODULE MCDaemon ------------------------------
(***************************************************************************)
(* Daemon for TLC.  The .cfg files choose which requests clients make and  *)
(* what may fail; handlers are interchangeable.                            *)
(***************************************************************************)
EXTENDS DaemonInvariant, TLC

Symmetry == Permutations(Tasks)
=============================================================================
