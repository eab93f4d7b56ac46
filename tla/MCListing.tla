----------------------------- MODULE MCListing -----------------------------
(***************************************************************************)
(* Listing for TLC: pids are interchangeable.                              *)
(***************************************************************************)
EXTENDS Listing, TLC

Symmetry == Permutations(Pids)
=============================================================================
