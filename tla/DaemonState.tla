----------------------------- MODULE DaemonState -----------------------------
(***************************************************************************)
(* The daemon's in-memory map of the processes it supervises               *)
(* (src/src/daemon/daemon_state.rs): an entry per child from its spawn     *)
(* until it is finished, with the handle of its timeout's task.  Removing  *)
(* the entry sends Finished on its lifecycle channel, so a subscriber is   *)
(* released exactly when the entry is gone.  Every method locks the map    *)
(* once.  Aborting a handle ends its task; dropping one lets it go on.     *)
(***************************************************************************)
EXTENDS Store

VARIABLES
    live,       \* the map has an entry for the generation
    timer,      \* the entry holds the task of a timeout that has not run
    orphan      \* such a task runs that no entry holds

stateVars == <<live, timer, orphan>>

StateTypeOK ==
    /\ live \in [Ids -> BOOLEAN]
    /\ timer \in [Ids -> BOOLEAN]
    /\ orphan \in [Ids -> BOOLEAN]

StateInit ==
    /\ live = [i \in Ids |-> FALSE]
    /\ timer = [i \in Ids |-> FALSE]
    /\ orphan = [i \in Ids |-> FALSE]

InsertProcess(i) ==
    /\ live' = [live EXCEPT ![i] = TRUE]
    /\ timer' = [timer EXCEPT ![i] = FALSE]
    /\ UNCHANGED orphan

\* Removes the entry and aborts its timeout task.
FinishProcess(i) ==
    /\ live' = [live EXCEPT ![i] = FALSE]
    /\ timer' = [timer EXCEPT ![i] = FALSE]
    /\ UNCHANGED orphan

\* Replaces the timeout task of an entry that is there, aborting the one it
\* held.  When there is no entry the new handle is dropped: the task runs on.
StateSetTimeout(i, timed) ==
    /\ timer' = [timer EXCEPT ![i] = timed /\ live[i]]
    /\ orphan' = [orphan EXCEPT ![i] = @ \/ (timed /\ ~live[i])]
    /\ UNCHANGED live
=============================================================================
