------------------------------ MODULE MCStartup ------------------------------
(***************************************************************************)
(* Startup for TLC: two shells with different sockets and databases, one   *)
(* by PZ_RUNTIME_DIR and $HOME, one by XDG_RUNTIME_DIR alone.              *)
(***************************************************************************)
EXTENDS Startup, TLC

ShellA == [pz_runtime |-> "a", xdg_runtime |-> Unset, pz_state |-> Unset, xdg_state |-> Unset,
           home |-> "h"]

ShellB == [pz_runtime |-> Unset, xdg_runtime |-> "b", pz_state |-> Unset, xdg_state |-> Unset,
           home |-> Unset]

TwoShells == {ShellA, ShellB}
OneShell == {ShellA}
=============================================================================
