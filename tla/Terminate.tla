------------------------------ MODULE Terminate ------------------------------
(***************************************************************************)
(* kill_group_confirmed of src/src/daemon/terminate.rs as a machine of     *)
(* four phases: SIGTERM is about to be sent, the grace period is running,  *)
(* SIGKILL is about to be sent, the kill deadline is running.  Whoever     *)
(* runs it (a stop request, an expired timeout) takes one phase per step,  *)
(* so anything may happen to the group, and to the daemon, in between.     *)
(***************************************************************************)
EXTENDS ProcessGroups

Phases == {"term", "grace", "kill", "confirm"}

Outcomes == {"dead", "gaveup"}

FirstPhase(force) == IF force THEN "kill" ELSE "term"

\* Mutant of EscalateStep: a signal sent is taken for a death.
SignalAndForget(i, phase, next) ==
    \/ /\ phase = "term"
       /\ next = "dead"
       /\ UNCHANGED groupVars
    \/ /\ phase = "kill"
       /\ KillGroup(i)
       /\ next = "dead"

\* Mutant of EscalateStep: the grace period has no end.
GraceForever(i, phase, next) ==
    \/ /\ phase = "term"
       /\ next = "grace"
       /\ UNCHANGED groupVars
    \/ /\ phase \in {"grace", "confirm"}
       /\ ~GroupAlive(i)
       /\ next = "dead"
       /\ UNCHANGED groupVars
    \/ /\ phase = "kill"
       /\ KillGroup(i)
       /\ next = "confirm"

\* wait_until_dead polls group_alive and looks at the clock only after it
\* saw a live group, so a budget never ends on a dead one.  SIGTERM changes
\* nothing by itself: the group may exit at any time, and need not.
EscalateStep(i, phase, next) ==
    \/ /\ phase = "term"
       /\ next = "grace"
       /\ UNCHANGED groupVars
    \/ /\ phase \in {"grace", "confirm"}
       /\ ~GroupAlive(i)
       /\ next = "dead"
       /\ UNCHANGED groupVars
    \/ /\ phase = "grace"
       /\ GroupAlive(i)
       /\ next = "kill"
       /\ UNCHANGED groupVars
    \/ /\ phase = "kill"
       /\ KillGroup(i)
       /\ next = "confirm"
    \/ /\ phase = "confirm"
       /\ GroupAlive(i)
       /\ next = "gaveup"
       /\ UNCHANGED groupVars
=============================================================================
