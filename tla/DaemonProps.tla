----------------------------- MODULE DaemonProps -----------------------------
(***************************************************************************)
(* What makes the daemon correct.  The first part holds; the second part   *)
(* states what the documentation says and the code does not always do.     *)
(***************************************************************************)
EXTENDS Daemon

\* The leader runs and the daemon may signal it: a group none of whose
\* members it may signal is taken for dead (group_alive).
Reachable(i) == leader[i] = "running" /\ "leader" \notin foreign[i]

\* The handlers between the claim of i and the launch of its reaper.
Spawning(t, i) == target[t] = i /\ pc[t] \in {"fork", "failed", "activate", "insert"}

-----------------------------------------------------------------------------
(* What holds *)

\* A process whose pid is recorded is never reported dead while it runs,
\* but for killed of one that became another user's: its row says running,
\* lost, or timed_out while its group is being killed.
\* (mark_process_finished follows child.wait, mark_process_killed follows
\* kill_group_confirmed, each after other steps of other tasks.)
VisibleWhileAlive ==
    \A i \in Ids : leader[i] = "running" /\ pid[i] =>
        \/ status[i] \in {"running", "lost", "timed_out"}
        \/ status[i] = "killed" /\ "leader" \in foreign[i]

\* "`pz ps` shows live processes by default - running, plus lost rows whose
\* pid still matches its identity token" (DESIGN.md): while one daemon lives,
\* a process that runs, that the daemon may signal and that no timeout is
\* killing is among them, whatever stops, timeouts and exits race for its
\* row.  (A daemon that starts after an escalation was cut short does not list
\* its process.)
ListedWhileAlive ==
    up /\ boots = 0 => \A i \in Ids : Reachable(i) /\ pid[i] /\ fire[i] = "idle"
                           => status[i] = "running"

\* Two live processes never compete for one name with both rows visible to
\* `pz ps`: whatever runs, replaces and restarts race, and across daemon
\* restarts (reserve_process and its unique index after
\* ensure_name_not_lost_alive, in two separate statements).
Visible(i) == status[i] = "running" \/ (status[i] = "lost" /\ pid[i])

OneVisibleHolder ==
    \A i, j \in Ids :
        /\ i # j /\ name[i] = name[j] /\ name[i] # NoName
        /\ leader[i] = "running" /\ leader[j] = "running"
        => ~(Visible(i) /\ Visible(j))

\* A running row is being taken care of: a reaper will record its exit, or
\* a handler is about to launch one.  Otherwise it would stay running, and
\* hold its name, until the daemon is restarted.  (No store failure.)
RunningIsSupervised ==
    up => \A i \in Ids : status[i] = "running" =>
        \/ reaper[i] \in {"waiting", "reaped"} /\ live[i]
        \/ \E t \in Tasks : Spawning(t, i)

\* No signal is about to be sent to a group whose pid a stranger has got,
\* provided a pid is not recycled in the middle of an operation on it: the
\* identity token guards lost rows, the unreaped child running ones.
NoStrangerSignaled ==
    \A i \in Ids : recycled[i] =>
        /\ fire[i] \notin {"term", "kill"}
        /\ \A t \in Tasks : target[t] = i => pc[t] \notin {"term", "kill"}

\* A stop that reports success on a process this daemon spawned has seen
\* its whole group dead, members that outlived their leader included, but
\* for those it may not signal (KilledMeansDead).
StopConfirmsDeath ==
    [][\A i \in Ids : status[i] \notin {"lost", "killed"} /\ status'[i] = "killed"
                        => ~InReach(i)]_vars

\* The daemon implements the abstract lifecycle of a generation.
Abstract == INSTANCE Lifecycle WITH
                known <- pid,
                alive <- [i \in Ids |-> leader[i] = "running"],
                beyond <- [i \in Ids |-> leader[i] = "running" /\ "leader" \in foreign[i]]

Implements == Abstract!LSpec

\* An expired timeout ends in the death of every member of the group that
\* the daemon may signal, whatever they do with SIGTERM and whatever stops
\* race with it (the escalation is a detached task).
TimeoutKills == \A i \in Ids : (fire[i] # "idle" ~> ~InReach(i))

\* A request is answered, unless it waits for a process that runs on.  (The
\* run makes runs, stops and waits, which block on the process groups and on
\* the reapers; the other requests are made of their steps.)
RequestsAnswered ==
    \A t \in Tasks : pc[t] \notin {"idle", "wwait"}
        ~> pc[t] = "idle" \/ (pc[t] = "wwait" /\ live[target[t]])

\* Once the leader has exited, its row stops saying running and whoever
\* waits for it is answered.
ExitNoticed == \A i \in Ids : (leader[i] = "zombie" ~> leader[i] = "reaped" /\ status[i] # "running")

WaitersReleased ==
    \A t \in Tasks, i \in Ids :
        pc[t] = "wwait" /\ target[t] = i /\ leader[i] = "zombie" ~> pc[t] = "idle"

-----------------------------------------------------------------------------
(* What the documentation says *)

\* "restart spawns the successor only after" the group of the old
\* generation is confirmed dead (DESIGN.md): when the successor is forked,
\* nothing of the name's recorded generations is left.
SuccessorAfterDeath ==
    \A t \in Tasks, i \in Ids :
        /\ pc[t] = "fork" /\ job[t].op = "restart" /\ job[t].name # NoName
        /\ i # target[t] /\ name[i] = job[t].name /\ pid[i]
        => leader[i] # "running"

\* For a group of another user's processes "Linux ... times out and errors
\* honestly" (DESIGN.md): killed of a process this daemon spawned says that
\* nothing of its group runs, whoever it runs as.
KilledMeansDead ==
    [][\A i \in Ids : status[i] \notin {"lost", "killed"} /\ status'[i] = "killed"
                        => ~Survives(i)]_vars
=============================================================================
