--------------------------- MODULE DaemonInvariant ---------------------------
(***************************************************************************)
(* The inductive invariant behind the safety properties of Daemon: what    *)
(* every step may rely on, whoever runs in between.  DaemonProof proves it *)
(* inductive; TLC checks it first.                                         *)
(***************************************************************************)
EXTENDS DaemonProps

\* A handler that claimed an id owns the row until its reaper runs: how far
\* the row, the child and the handle are is told by where the handler is.
\* (Once the pid is recorded a stop may come first.)
Owns(t, i) ==
    /\ status[i] = "running" \/ (pc[t] = "insert" /\ status[i] = "killed")
    /\ ~live[i] /\ fire[i] = "idle"
    /\ pc[t] \in {"fork", "failed"} => leader[i] = "none" /\ ~pid[i] /\ reaper[i] = "none"
    /\ pc[t] = "activate" => leader[i] # "none" /\ ~pid[i] /\ reaper[i] = "held"
    /\ pc[t] = "insert" => leader[i] # "none" /\ pid[i] /\ reaper[i] = "held"

OwnersInv ==
    \A t \in Tasks, i \in Ids : Spawning(t, i) =>
        /\ Owns(t, i)
        /\ \A u \in Tasks : u # t => ~Spawning(u, i)

\* Ids are handed out in order, and nothing exists of one before that.
FreshInv ==
    \A i \in Ids : i > nrows =>
        /\ status[i] = "absent" /\ ~pid[i] /\ leader[i] = "none"
        /\ ~live[i] /\ reaper[i] = "none" /\ fire[i] = "idle"

\* A recorded pid is the pid of a child that was started; what is in the
\* runtime state, expired or reaped has one.
PidInv ==
    \A i \in Ids :
        /\ pid[i] => leader[i] # "none"
        /\ live[i] \/ fire[i] # "idle" => pid[i]
        /\ reaper[i] \in {"waiting", "reaped", "marked"} => pid[i]
        /\ reaper[i] \in {"reaped", "marked"} => leader[i] = "reaped"

\* What each final status says of the leader.
VerdictInv ==
    \A i \in Ids :
        /\ status[i] = "absent" => i > nrows
        /\ status[i] = "exited" => leader[i] = "reaped"
        /\ status[i] = "failed" => ~pid[i] /\ leader[i] = "none"
        /\ status[i] \in {"timed_out", "exited"} => pid[i]
        /\ status[i] = "killed" /\ pid[i] => ~Reachable(i)
        /\ status[i] = "lost" => ~live[i] /\ reaper[i] = "none" /\ fire[i] = "idle"

\* What a stop may rely on once it is past its checks: it only signals a
\* recorded pid, and only concludes on a leader that is dead or another
\* user's, or on an unknown one.
StopInv ==
    \A t \in Tasks, i \in Ids : target[t] = i =>
        /\ pc[t] = "stoken" => status[i] \in {"lost", "killed"}
        /\ pc[t] \in Phases => pid[i]
        /\ pc[t] = "markkilled" => \/ pid[i] /\ ~Reachable(i)
                                   \/ ~pid[i] /\ status[i] \in {"lost", "killed"}

\* A name has one holder at most, running or lost and known to be alive,
\* and a handler about to claim a name knows of no live lost one.
Holds(i) == status[i] = "running" \/ (status[i] = "lost" /\ pid[i] /\ leader[i] = "running")

NamesInv ==
    /\ \A i, j \in Ids : i # j /\ name[i] = name[j] /\ name[i] # NoName => ~(Holds(i) /\ Holds(j))
    /\ \A t \in Tasks, i \in Ids :
         /\ pc[t] = "reserve" /\ job[t].name # NoName /\ name[i] = job[t].name
         /\ status[i] = "lost" /\ pid[i]
         => leader[i] # "running"

\* A daemon that is down has no task.
DownInv ==
    ~up => /\ \A t \in Tasks : pc[t] = "idle"
           /\ \A i \in Ids : ~live[i] /\ reaper[i] = "none" /\ fire[i] = "idle"

TargetInv == \A t \in Tasks :
    pc[t] \in {"fork", "failed", "activate", "insert", "sread", "stoken", "slive", "markkilled",
               "rspec", "rread", "wread", "wsub", "wwait", "wfinal", "tstore", "tstate"}
                 \cup Phases
        => target[t] \in Ids

IndInv == /\ TypeOK /\ TargetInv /\ OwnersInv /\ FreshInv /\ PidInv
          /\ VerdictInv /\ StopInv /\ NamesInv /\ DownInv

\* Without store failures a row leaves running before its entry is removed,
\* and the entry is removed by the time the reaper ends.
SupervisedInv ==
    /\ RunningIsSupervised
    /\ \A i \in Ids : /\ reaper[i] = "marked" => status[i] # "running"
                      /\ fire[i] = "marked" => status[i] # "running"
                      /\ live[i] => reaper[i] \in {"waiting", "reaped", "marked"}

\* A stop about to record killed of a row the daemon supervises has seen the
\* whole group dead, as far as it may signal it, and dead it stays.
DeathInv ==
    \A t \in Tasks, i \in Ids :
        target[t] = i /\ pc[t] = "markkilled" /\ status[i] \notin {"lost", "killed"}
            => ~InReach(i)

\* Once a stranger has the pid of a generation nothing of the daemon is left
\* that would signal it, nor a row that would make a stop do so.
StrangerInv ==
    \A i \in Ids : recycled[i] =>
        /\ leader[i] = "reaped" /\ reaper[i] = "none" /\ fire[i] = "idle" /\ ~live[i]
        /\ up => status[i] # "running"
        /\ \A t \in Tasks : target[t] = i =>
             pc[t] \notin {"fork", "failed", "activate", "insert", "slive"} \cup Phases

\* Where SIGKILL kills: a row says timed_out of a process that still runs
\* only while its escalation has the kill before it, unless a daemon has
\* died meanwhile; and only a daemon that starts loses rows.
ListedInv ==
    /\ \A i \in Ids : fire[i] = "confirm" => ~Reachable(i)
    /\ up /\ boots = 0 =>
         \A i \in Ids :
            /\ status[i] # "lost"
            /\ status[i] = "timed_out" /\ Reachable(i)
                 => fire[i] \in {"marked", "term", "grace", "kill"}
=============================================================================
