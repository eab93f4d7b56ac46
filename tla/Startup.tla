------------------------------- MODULE Startup -------------------------------
(***************************************************************************)
(* How a daemon comes up and goes down (src/src/daemon/server.rs), when    *)
(* several are started for the same user: the socket file they compete     *)
(* for, the boot pass over the database they share, and `pz daemon start`, *)
(* which asks, launches and polls.  A step is one call on the file system, *)
(* the socket or the database.                                             *)
(*                                                                         *)
(* Daemon abstracts a daemon's life into Crash and Boot; this module shows *)
(* what it takes for the two to alternate.                                 *)
(***************************************************************************)
EXTENDS FiniteSets

CONSTANTS
    Daemons,    \* bound: the daemon processes ever launched
    Rows,       \* bound: the registry rows they claim
    Envs,       \* the environments of the shells that launch them
    Unset,      \* a variable an environment does not set
    None,       \* no daemon
    Earlier,    \* those that were launched and killed before
    Overlaps    \* may a start overlap with another: TRUE, FALSE or both

ASSUME StartupAssumption ==
    /\ None \notin Daemons
    /\ Earlier \subseteq Daemons
    /\ Overlaps \subseteq BOOLEAN

-----------------------------------------------------------------------------
(* RuntimePaths *)

\* The first of the variables that is set decides.
RuntimeDir(e) ==
    CASE e.pz_runtime # Unset -> <<e.pz_runtime>>
      [] e.pz_runtime = Unset /\ e.xdg_runtime # Unset -> <<e.xdg_runtime, "pz">>
      [] OTHER -> <<"tmp">>

StateDir(e) ==
    CASE e.pz_state # Unset -> <<e.pz_state>>
      [] e.pz_state = Unset /\ e.xdg_state # Unset -> <<e.xdg_state, "pz">>
      [] e.pz_state = Unset /\ e.xdg_state = Unset /\ e.home # Unset -> <<e.home, ".local", "state", "pz">>
      [] OTHER -> RuntimeDir(e)

Paths == {RuntimeDir(e) : e \in Envs}

\* Shells that share a database share the socket: what one daemon per
\* database rests on.
Consistent == \A e, f \in Envs : StateDir(e) = StateDir(f) => RuntimeDir(e) = RuntimeDir(f)

-----------------------------------------------------------------------------
VARIABLES
    overlap,    \* whether a start may overlap with another (chosen once)
    env,        \* the environment a daemon is launched from (chosen once)
    file,       \* whose socket is linked at a path
    pc,         \* where a daemon stands
    told,       \* it has answered a stop request
    client,     \* where the `pz daemon start` that launches it stands
    status,     \* the status of a row
    owner       \* the daemon that claimed it

daemonVars == <<file, pc, told>>
rowVars == <<status, owner>>
vars == <<overlap, env, daemonVars, client, rowVars>>

Socket(d) == RuntimeDir(env[d])
Database(d) == StateDir(env[d])

StartingPcs == {"exists", "connect", "unlink", "lose", "bind", "listen"}

\* A daemon ends with an error of its own, or killed, before or after it
\* listened, or at a stop, or because accept failed.
EndedPcs == {"bailed", "aborted", "crashed", "stopped", "failed"}

Pcs == {"off", "serve", "remove", "exit", "fail"} \cup StartingPcs \cup EndedPcs

ClientPcs == {"none", "ask", "launch", "poll", "ok", "failed"}

TypeOK ==
    /\ overlap \in Overlaps
    /\ env \in [Daemons -> Envs]
    /\ file \in [Paths -> Daemons \cup {None}]
    /\ pc \in [Daemons -> Pcs]
    /\ told \in [Daemons -> BOOLEAN]
    /\ client \in [Daemons -> ClientPcs]
    /\ status \in [Rows -> {"free", "running", "lost"}]
    /\ owner \in [Rows -> Daemons \cup {None}]

\* A daemon that was killed has left a socket file, its own or a later one's.
Init ==
    /\ overlap \in Overlaps
    /\ env \in [Daemons -> Envs]
    /\ file \in [Paths -> Earlier \cup {None}]
    /\ \A p \in Paths : file[p] # None => Socket(file[p]) = p
    /\ \A d \in Earlier : file[Socket(d)] # None
    /\ pc = [d \in Daemons |-> IF d \in Earlier THEN "crashed" ELSE "off"]
    /\ told = [d \in Daemons |-> FALSE]
    /\ client = [d \in Daemons |-> "none"]
    /\ status = [r \in Rows |-> "free"]
    /\ owner = [r \in Rows |-> None]

-----------------------------------------------------------------------------
Starting(d) == pc[d] \in StartingPcs

\* Mutant of Listening: the listener is closed before the file is removed.
ListeningToServe(d) == pc[d] = "serve"

\* The listener lives until start_with_paths returns; once the file is gone
\* nobody finds it.
Listening(d) == pc[d] \in {"serve", "remove"}

\* A connection to p succeeds.
Connectable(p) == file[p] # None /\ Listening(file[p])

\* Tasks of the daemon's runtime run until its process is gone.
Running(d) == pc[d] \in {"serve", "remove", "exit", "fail"}

Step(d, from, to) == pc[d] = from /\ pc' = [pc EXCEPT ![d] = to]

-----------------------------------------------------------------------------
(* prepare_socket, the boot pass, bind *)

\* No start but those that may overlap is under way.
MayLaunch(d) == overlap \/ \A e \in Daemons : ~Starting(e)

\* `pz daemon run`, by hand or by a service manager.
RunDaemon(d) ==
    /\ client[d] = "none"
    /\ MayLaunch(d)
    /\ Step(d, "off", "exists")
    /\ UNCHANGED <<overlap, env, file, told, client, rowVars>>

\* Mutant of TryExists: a file that is there is taken for a daemon.
TrustTheFile(d) ==
    /\ Step(d, "exists", IF file[Socket(d)] = None THEN "lose" ELSE "bailed")
    /\ UNCHANGED <<overlap, env, file, told, client, rowVars>>

TryExists(d) ==
    /\ Step(d, "exists", IF file[Socket(d)] = None THEN "lose" ELSE "connect")
    /\ UNCHANGED <<overlap, env, file, told, client, rowVars>>

\* Mutant of Probe: every file is taken for a stale one.
NoProbe(d) ==
    /\ Step(d, "connect", "unlink")
    /\ UNCHANGED <<overlap, env, file, told, client, rowVars>>

Probe(d) ==
    /\ Step(d, "connect", IF Connectable(Socket(d)) THEN "bailed" ELSE "unlink")
    /\ UNCHANGED <<overlap, env, file, told, client, rowVars>>

\* Whatever file is there by now; none is an error.
RemoveStale(d) ==
    /\ Step(d, "unlink", IF file[Socket(d)] = None THEN "bailed" ELSE "lose")
    /\ file' = [file EXCEPT ![Socket(d)] = None]
    /\ UNCHANGED <<overlap, env, told, client, rowVars>>

Lost(r, d) == status[r] = "running" /\ Database(owner[r]) = Database(d)

\* Mutant of LoseRows: the boot pass is missing.
LoseNothing(d) ==
    /\ Step(d, "lose", "bind")
    /\ UNCHANGED <<overlap, env, file, told, client, rowVars>>

\* mark_running_processes_lost, before the socket is bound.
LoseRows(d) ==
    /\ Step(d, "lose", "bind")
    /\ status' = [r \in Rows |-> IF Lost(r, d) THEN "lost" ELSE status[r]]
    /\ UNCHANGED <<overlap, env, file, told, client, owner>>

\* The file is linked by bind; connections are accepted from listen on.
Bind(d) ==
    /\ Step(d, "bind", IF file[Socket(d)] = None THEN "listen" ELSE "bailed")
    /\ file' = [file EXCEPT ![Socket(d)] = IF @ = None THEN d ELSE @]
    /\ UNCHANGED <<overlap, env, told, client, rowVars>>

Listen(d) ==
    /\ Step(d, "listen", "serve")
    /\ UNCHANGED <<overlap, env, file, told, client, rowVars>>

StartStep(d) == TryExists(d) \/ Probe(d) \/ RemoveStale(d) \/ LoseRows(d) \/ Bind(d) \/ Listen(d)

-----------------------------------------------------------------------------
(* Serving and stopping *)

\* A handler claims a row for a process (Daemon has what becomes of it).
Claim(d, r) ==
    /\ Running(d)
    /\ status[r] = "free"
    /\ status' = [status EXCEPT ![r] = "running"]
    /\ owner' = [owner EXCEPT ![r] = d]
    /\ UNCHANGED <<overlap, env, daemonVars, client>>

\* A stop request is answered, and only then passed on.  (If the answer
\* cannot be written it is not passed on.)
AnswerStop(d) ==
    /\ pc[d] = "serve"
    /\ ~told[d]
    /\ told' = [told EXCEPT ![d] = TRUE]
    /\ UNCHANGED <<overlap, env, file, pc, client, rowVars>>

\* Mutant of Shutdown: the loop ends and the file stays.
ShutdownOnly(d) ==
    /\ told[d]
    /\ Step(d, "serve", "exit")
    /\ UNCHANGED <<overlap, env, file, told, client, rowVars>>

Shutdown(d) ==
    /\ told[d]
    /\ Step(d, "serve", "remove")
    /\ UNCHANGED <<overlap, env, file, told, client, rowVars>>

\* Whoever's file is there is removed, and an error ignored.
RemoveFile(d) ==
    /\ Step(d, "remove", "exit")
    /\ file' = [file EXCEPT ![Socket(d)] = None]
    /\ UNCHANGED <<overlap, env, told, client, rowVars>>

\* accept fails: the loop is left by `?`, and the file stays.
AcceptFails(d) ==
    /\ Step(d, "serve", "fail")
    /\ UNCHANGED <<overlap, env, file, told, client, rowVars>>

\* The process ends and its tasks with it.
Exit(d) ==
    /\ Step(d, "exit", "stopped") \/ Step(d, "fail", "failed")
    /\ UNCHANGED <<overlap, env, file, told, client, rowVars>>

StopStep(d) == Shutdown(d) \/ RemoveFile(d) \/ Exit(d)

Crash(d) ==
    /\ \/ Starting(d) /\ pc' = [pc EXCEPT ![d] = "aborted"]
       \/ Listening(d) /\ pc' = [pc EXCEPT ![d] = "crashed"]
    /\ UNCHANGED <<overlap, env, file, told, client, rowVars>>

-----------------------------------------------------------------------------
(* `pz daemon start` (start) *)

Turn(d, to) == client' = [client EXCEPT ![d] = to]

UnchangedButClient == UNCHANGED <<overlap, env, daemonVars, rowVars>>

\* A status request is answered.
Answered(d) == Connectable(Socket(d)) /\ pc[file[Socket(d)]] = "serve"

StartCommand(d) ==
    /\ pc[d] = "off" /\ client[d] = "none"
    /\ Turn(d, "ask")
    /\ UnchangedButClient

\* Answered: it is already running.  An answer may also come too late.
Ask(d) ==
    /\ client[d] = "ask"
    /\ \/ Answered(d) /\ Turn(d, "ok")
       \/ ~Connectable(Socket(d)) /\ Turn(d, "launch")
    /\ UnchangedButClient

LaunchChild(d) ==
    /\ client[d] = "launch"
    /\ MayLaunch(d)
    /\ Step(d, "off", "exists")
    /\ Turn(d, "poll")
    /\ UNCHANGED <<overlap, env, file, told, rowVars>>

\* Mutant of Poll: a socket file is taken for a daemon that answers.
PollForTheFile(d) ==
    /\ client[d] = "poll"
    /\ \/ pc[d] \in EndedPcs /\ Turn(d, "failed")
       \/ file[Socket(d)] # None /\ Turn(d, "ok")
       \/ ~Connectable(Socket(d)) /\ Turn(d, "failed")
    /\ UnchangedButClient

\* The child has ended, the daemon answers, or the rounds are over.
Poll(d) ==
    /\ client[d] = "poll"
    /\ \/ pc[d] \in EndedPcs /\ Turn(d, "failed")
       \/ Answered(d) /\ Turn(d, "ok")
       \/ ~Connectable(Socket(d)) /\ Turn(d, "failed")
    /\ UnchangedButClient

ClientStep(d) == StartCommand(d) \/ Ask(d) \/ LaunchChild(d) \/ Poll(d)

-----------------------------------------------------------------------------
Next == \E d \in Daemons :
    \/ RunDaemon(d) \/ StartStep(d) \/ AnswerStop(d) \/ StopStep(d) \/ AcceptFails(d) \/ Crash(d)
    \/ ClientStep(d)
    \/ \E r \in Rows : Claim(d, r)

Spec == Init /\ [][Next]_vars

\* A daemon that starts or stops goes on; nobody need start, stop or kill
\* one.
Fairness == \A d \in Daemons : WF_vars(StartStep(d)) /\ WF_vars(StopStep(d))

FairSpec == Spec /\ Fairness

-----------------------------------------------------------------------------
(* Properties *)

\* While starts do not overlap, a daemon that accepts connections is the one
\* its socket file leads to, from listen to the removal of the file: so no
\* two daemons serve one socket, whatever stops and crashes there were.
ReachableWhileServing ==
    ~overlap => \A d \in Daemons : Listening(d) => file[Socket(d)] = d

\* While starts do not overlap, and shells agree on the paths, the boot pass
\* takes no row from a daemon that still serves (mark_running_processes_lost
\* runs before bind, on a database the other daemon may be using).
LosesOnlyTheEnded ==
    [][~overlap /\ Consistent => \A r \in Rows : status[r] = "running" /\ status'[r] = "lost"
                                     => ~Listening(owner[r])]_vars

\* "If the daemon dies, previously running processes are marked `lost` on
\* daemon restart" (README.md): under the same provisos, once a daemon
\* serves, no row of one that crashed still says running.
CrashLosesRows ==
    ~overlap /\ Consistent => \A d \in Daemons, r \in Rows :
        /\ pc[d] = "serve" /\ status[r] = "running"
        /\ Database(owner[r]) = Database(d)
        => pc[owner[r]] # "crashed"

\* A start leads to a daemon that serves its socket and that the file leads
\* to, however many starts race and whatever file a dead daemon has left,
\* unless meanwhile a daemon of that socket is stopped, or one was killed
\* before it listened.
Served(p) == file[p] # None /\ pc[file[p]] = "serve"

Stopping(p) == \E e \in Daemons : Socket(e) = p /\ told[e] /\ Listening(e)

SomebodyServes ==
    \A d \in Daemons : pc[d] = "exists" ~>
        \/ Served(Socket(d)) \/ Stopping(Socket(d))
        \/ \E e \in Daemons : Socket(e) = Socket(d) /\ pc[e] = "aborted"

\* A stop that was answered ends the daemon, and removes its socket unless
\* the daemon dies first.
StopCompletes ==
    \A d \in Daemons : told[d] ~>
        pc[d] \in {"crashed", "failed"} \/ (pc[d] = "stopped" /\ file[Socket(d)] # d)

\* While starts do not overlap, what `pz daemon start` reports is true: the
\* daemon can be reached until one is stopped or dies, whoever answered and
\* whichever of them the command had launched.
SuccessMeansServed ==
    ~overlap => \A d \in Daemons : client[d] = "ok" =>
        \/ Connectable(Socket(d))
        \/ \E e \in Daemons \ Earlier :
              Socket(e) = Socket(d) /\ (told[e] \/ pc[e] \in {"crashed", "fail", "failed"})

-----------------------------------------------------------------------------
(* What the documentation says *)

\* "When the daemon boots and finds registry rows from a previous daemon
\* generation, it marks them `lost`" (DESIGN.md): rows of a daemon that has
\* ended, then.
LostOnlyFromPrevious ==
    [][\A r \in Rows : status[r] = "running" /\ status'[r] = "lost"
                         => ~Listening(owner[r])]_vars
=============================================================================
