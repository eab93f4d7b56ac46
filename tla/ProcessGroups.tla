---------------------------- MODULE ProcessGroups ----------------------------
(***************************************************************************)
(* The operating system as the daemon sees it: the process group of each   *)
(* generation (supervisor.rs spawns every child with process_group(0), so  *)
(* the child leads a group numbered by its own pid), the signals sent to   *)
(* it and the two liveness checks the daemon makes, group_alive of         *)
(* terminate.rs and is_alive of pid_identity.rs.                           *)
(*                                                                         *)
(* A generation's leader is running, then a zombie, then reaped.  A pid    *)
(* is pinned while its leader is unreaped or its group has members; after  *)
(* that the kernel may give the number to a stranger.                      *)
(*                                                                         *)
(* A process of the group may run as another user (sudo): the daemon may   *)
(* not signal it, and kill answers EPERM when the group has no other.      *)
(***************************************************************************)
EXTENDS Store

CONSTANTS
    Families,       \* leaders may fork group members that outlive them
    Unkillable,     \* a group may survive SIGKILL (uninterruptible sleep)
    OtherUsers      \* the generations whose processes may become another
                    \* user's, which the daemon may not signal

ASSUME GroupsAssumption ==
    Families \in BOOLEAN /\ Unkillable \in BOOLEAN /\ OtherUsers \subseteq Ids

VARIABLES
    leader,     \* the state of the group's leader, the daemon's child
    others,     \* the group has members other than its leader
    recycled,   \* the pid now belongs to a stranger
    foreign     \* those of a pid's processes that the daemon may not signal

groupVars == <<leader, others, recycled, foreign>>

LeaderStates == {"none", "running", "zombie", "reaped"}

Parts == {"leader", "others", "stranger"}

GroupsTypeOK ==
    /\ leader \in [Ids -> LeaderStates]
    /\ others \in [Ids -> BOOLEAN]
    /\ recycled \in [Ids -> BOOLEAN]
    /\ foreign \in [Ids -> SUBSET Parts]

GroupsInit ==
    /\ leader = [i \in Ids |-> "none"]
    /\ others = [i \in Ids |-> FALSE]
    /\ recycled = [i \in Ids |-> FALSE]
    /\ foreign = [i \in Ids |-> {}]

-----------------------------------------------------------------------------
\* A process of generation i still runs.
Survives(i) == leader[i] = "running" \/ others[i]

\* One that the daemon may signal does.
InReach(i) == \/ leader[i] = "running" /\ "leader" \notin foreign[i]
              \/ others[i] /\ "others" \notin foreign[i]

\* kill(-pgid, 0) succeeds: it may signal a process of the group, a zombie
\* or a stranger's included.
Signalable(i) == \/ leader[i] \in {"running", "zombie"} /\ "leader" \notin foreign[i]
                 \/ others[i] /\ "others" \notin foreign[i]
                 \/ recycled[i] /\ "stranger" \notin foreign[i]

\* Mutant of GroupAlive: only the leader counts, as with kill(pid, 0).
LeaderAlive(i) == Signalable(i) /\ (leader[i] = "running" \/ recycled[i])

\* group_alive: some member of the group is not a zombie, whoever it is.  A
\* group is dead as well when it cannot be signalled, whatever the error.
GroupAlive(i) == Signalable(i) /\ (Survives(i) \/ recycled[i])

\* is_alive: the recorded pid is in use and carries the recorded token.  A
\* zombie is in the process table and has its start time; a stranger's
\* differs (start times of the same second are not modelled).
IsAlive(i) == pid[i] /\ leader[i] \in {"running", "zombie"}

\* The pid of i is in use: the kernel cannot hand it out.
Pinned(i) == leader[i] \in {"running", "zombie"} \/ others[i]

-----------------------------------------------------------------------------
(* What the daemon does to a group *)

\* The child runs as the daemon's user.
Fork(i) ==
    /\ leader' = [leader EXCEPT ![i] = "running"]
    /\ foreign' = [foreign EXCEPT ![i] = {}]
    /\ UNCHANGED <<others, recycled>>

\* SIGKILL to those of the group that may be signalled; the error is ignored
\* if there is none.
KillGroup(i) ==
    \/ /\ leader' = [leader EXCEPT ![i] = IF @ = "running" /\ "leader" \notin foreign[i]
                                          THEN "zombie" ELSE @]
       /\ others' = [others EXCEPT ![i] = @ /\ "others" \in foreign[i]]
       /\ UNCHANGED <<recycled, foreign>>
    \/ Unkillable /\ UNCHANGED groupVars

ReapLeader(i) ==
    /\ leader[i] = "zombie"
    /\ leader' = [leader EXCEPT ![i] = "reaped"]
    /\ foreign' = [foreign EXCEPT ![i] = @ \ {"leader"}]
    /\ UNCHANGED <<others, recycled>>

-----------------------------------------------------------------------------
(* What happens to a group on its own.  A process may exit at any time, of *)
(* its own accord or on SIGTERM, and may as well ignore SIGTERM.           *)

LeaderExits(i) ==
    /\ leader[i] = "running"
    /\ leader' = [leader EXCEPT ![i] = "zombie"]
    /\ UNCHANGED <<others, recycled, foreign>>

\* A child runs as the user of its parent.
LeaderForks(i) ==
    /\ Families
    /\ leader[i] = "running"
    /\ ~others[i]
    /\ others' = [others EXCEPT ![i] = TRUE]
    /\ foreign' = [foreign EXCEPT ![i] =
                     IF "leader" \in @ THEN @ \cup {"others"} ELSE @ \ {"others"}]
    /\ UNCHANGED <<leader, recycled>>

OthersExit(i) ==
    /\ others[i]
    /\ others' = [others EXCEPT ![i] = FALSE]
    /\ foreign' = [foreign EXCEPT ![i] = @ \ {"others"}]
    /\ UNCHANGED <<leader, recycled>>

\* A process becomes another user's, for good.
ChangesUser(i) ==
    /\ i \in OtherUsers
    /\ \/ leader[i] = "running" /\ foreign' = [foreign EXCEPT ![i] = @ \cup {"leader"}]
       \/ others[i] /\ foreign' = [foreign EXCEPT ![i] = @ \cup {"others"}]
    /\ UNCHANGED <<leader, others, recycled>>

\* The stranger may be another user's.
RecyclePid(i) ==
    /\ leader[i] = "reaped"
    /\ ~Pinned(i)
    /\ ~recycled[i]
    /\ recycled' = [recycled EXCEPT ![i] = TRUE]
    /\ \/ UNCHANGED foreign
       \/ i \in OtherUsers /\ foreign' = [foreign EXCEPT ![i] = @ \cup {"stranger"}]
    /\ UNCHANGED <<leader, others>>
=============================================================================
