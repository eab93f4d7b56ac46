------------------------------ MODULE Lifecycle ------------------------------
(***************************************************************************)
(* What the daemon promises about a generation of a service, without the   *)
(* requests, tasks and timers that bring it about: how its recorded status *)
(* may move, what each status says about the process itself, and when a    *)
(* name may be claimed.  Daemon implements it (DaemonProps, Implements).   *)
(***************************************************************************)
EXTENDS Naturals

CONSTANTS Names, NoName, MaxId

Ids == 1 .. MaxId

VARIABLES
    status,     \* the recorded status of each generation
    name,       \* the name it claimed
    known,      \* its pid is recorded
    alive,      \* its process runs
    beyond      \* it runs as a user the daemon may not signal

lifecycleVars == <<status, name, known, alive, beyond>>

LInit ==
    /\ status = [i \in Ids |-> "absent"]
    /\ name = [i \in Ids |-> NoName]
    /\ known = [i \in Ids |-> FALSE]
    /\ alive = [i \in Ids |-> FALSE]
    /\ beyond = [i \in Ids |-> FALSE]

\* A generation holds its name while it is recorded running, and while it
\* is lost but known to be alive.
Holds(i) == status[i] = "running" \/ (status[i] = "lost" /\ known[i] /\ alive[i])

Claim(i, n) ==
    /\ status[i] = "absent"
    /\ n # NoName => ~\E j \in Ids : name[j] = n /\ Holds(j)
    /\ status' = [status EXCEPT ![i] = "running"]
    /\ name' = [name EXCEPT ![i] = n]
    /\ UNCHANGED <<known, alive, beyond>>

\* A claimed generation starts once, before its pid is known.
Start(i) ==
    /\ status[i] = "running" /\ ~known[i] /\ ~alive[i]
    /\ alive' = [alive EXCEPT ![i] = TRUE]
    /\ UNCHANGED <<status, name, known, beyond>>

Record(i) ==
    /\ status[i] = "running" /\ ~known[i]
    /\ known' = [known EXCEPT ![i] = TRUE]
    /\ UNCHANGED <<status, name, alive, beyond>>

Die(i) ==
    /\ alive[i]
    /\ alive' = [alive EXCEPT ![i] = FALSE]
    /\ beyond' = [beyond EXCEPT ![i] = FALSE]
    /\ UNCHANGED <<status, name, known>>

\* It becomes another user's (sudo).
ChangeUser(i) ==
    /\ alive[i]
    /\ beyond' = [beyond EXCEPT ![i] = TRUE]
    /\ UNCHANGED <<status, name, known, alive>>

\* The process is dead, as far as a signal can tell.
Gone(i) == ~alive[i] \/ beyond[i]

\* exited and failed say that the process is dead, killed that it is gone;
\* timed_out says that it will be.  A kill overwrites every verdict but
\* failed.
Verdict(i, s) ==
    /\ \/ s = "exited" /\ status[i] = "running" /\ ~alive[i] /\ known[i]
       \/ s = "failed" /\ status[i] = "running" /\ ~alive[i] /\ ~known[i]
       \/ s = "timed_out" /\ status[i] = "running" /\ known[i]
       \/ s = "killed" /\ status[i] \in {"running", "exited", "timed_out"}
                       /\ known[i] /\ Gone(i)
       \/ s = "killed" /\ status[i] = "lost" /\ (known[i] => Gone(i))
    /\ status' = [status EXCEPT ![i] = s]
    /\ UNCHANGED <<name, known, alive, beyond>>

\* A new daemon loses everything its predecessor left running.
LoseAll ==
    /\ status' = [i \in Ids |-> IF status[i] = "running" THEN "lost" ELSE status[i]]
    /\ UNCHANGED <<name, known, alive, beyond>>

LNext ==
    \/ \E i \in Ids : \/ \E n \in Names \cup {NoName} : Claim(i, n)
                      \/ Start(i) \/ Record(i) \/ Die(i) \/ ChangeUser(i)
                      \/ \E s \in {"exited", "failed", "timed_out", "killed"} : Verdict(i, s)
    \/ LoseAll

LSpec == LInit /\ [][LNext]_lifecycleVars
=============================================================================
