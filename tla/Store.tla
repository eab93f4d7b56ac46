-------------------------------- MODULE Store --------------------------------
(***************************************************************************)
(* The `processes` table of the daemon's SQLite database                   *)
(* (src/src/daemon/store.rs).  A row is one generation of a service; its   *)
(* id is the AUTOINCREMENT primary key, so ids are never reused and rows   *)
(* are never deleted.  Every operator that primes a variable is one SQL    *)
(* statement, and every statement is atomic: the store opens a connection  *)
(* per call and runs one statement on it.                                  *)
(*                                                                         *)
(* Of a row's columns the model keeps those the daemon decides by: the     *)
(* status, the name, whether the pid, pgid and identity token have been    *)
(* recorded (activate_process writes the three at once) and whether a      *)
(* timeout is recorded.                                                    *)
(***************************************************************************)
EXTENDS Naturals, FiniteSets

CONSTANTS
    Names,      \* the service names clients use
    NoName,     \* the NULL name of a process run without --name
    MaxId       \* bound: how many generations are ever spawned

ASSUME NamesAssumption == /\ NoName \notin Names
                          /\ MaxId \in Nat
                          /\ (Names \cup {NoName}) \cap Nat = {}

Ids == 1 .. MaxId

VARIABLES
    nrows,      \* the highest id handed out so far
    status,     \* the status column; "absent" before the row exists
    name,       \* the name column
    pid,        \* pid, pgid and pid_started_at are recorded
    timeout     \* timeout_ms and timeout_at_ms are recorded

storeVars == <<nrows, status, name, pid, timeout>>

Statuses == {"running", "exited", "failed", "killed", "timed_out", "lost"}

StoreTypeOK ==
    /\ nrows \in 0 .. MaxId
    /\ status \in [Ids -> Statuses \cup {"absent"}]
    /\ name \in [Ids -> Names \cup {NoName}]
    /\ pid \in [Ids -> BOOLEAN]
    /\ timeout \in [Ids -> BOOLEAN]

StoreInit ==
    /\ nrows = 0
    /\ status = [i \in Ids |-> "absent"]
    /\ name = [i \in Ids |-> NoName]
    /\ pid = [i \in Ids |-> FALSE]
    /\ timeout = [i \in Ids |-> FALSE]

-----------------------------------------------------------------------------
(* Queries *)

Exists(i) == status[i] # "absent"

\* i is the row a `WHERE name = n AND status = 'running'` finds.
RunningAs(n, i) == name[i] = n /\ status[i] = "running"

\* Mutant of NameTaken: the unique index is missing.
NeverTaken(n) == FALSE

\* The unique partial index of the migration: one running row per name,
\* with NULL names distinct from each other.
NameTaken(n) == n # NoName /\ \E i \in Ids : RunningAs(n, i)

\* The generations of n that a previous daemon lost, with a recorded pid.
LostGenerations(n) == {i \in Ids : name[i] = n /\ status[i] = "lost" /\ pid[i]}

\* A selector is an id, taken as it is whether or not a row has it, or a
\* name: its running generation if it has one, its newest one otherwise.
Named(n) == {i \in Ids : Exists(i) /\ name[i] = n}

Resolves(sel, i) ==
    \/ sel \in Ids /\ i = sel
    \/ /\ sel \in Names
       /\ i \in Named(sel)
       /\ \/ status[i] = "running"
          \/ /\ ~NameTaken(sel)
             /\ \A j \in Named(sel) : j <= i

Resolvable(sel) == sel \in Ids \/ (sel \in Names /\ Named(sel) # {})

-----------------------------------------------------------------------------
(* Statements *)

\* INSERT a running row that holds its name, without a pid.
ReserveProcess(n, i) ==
    /\ ~NameTaken(n)
    /\ i = nrows + 1
    /\ nrows' = i
    /\ status' = [status EXCEPT ![i] = "running"]
    /\ name' = [name EXCEPT ![i] = n]
    /\ UNCHANGED <<pid, timeout>>

ActivateProcess(i) ==
    /\ pid' = [pid EXCEPT ![i] = TRUE]
    /\ UNCHANGED <<nrows, status, name, timeout>>

SetStatus(i, s) ==
    /\ status' = [status EXCEPT ![i] = s]
    /\ UNCHANGED <<nrows, name, pid, timeout>>

\* UPDATE ... WHERE id = i AND status = 'running'
SetRunningStatus(i, s) == SetStatus(i, IF status[i] = "running" THEN s ELSE status[i])

MarkSpawnFailed(i) == SetStatus(i, "failed")

\* Mutant of MarkProcessFinished: the WHERE clause is missing.
MarkFinishedAlways(i) == SetStatus(i, "exited")

MarkProcessFinished(i) == SetRunningStatus(i, "exited")

\* Mutant of MarkProcessTimedOut: a status the code does not know.
MarkTimedOutMisspelt(i) == SetRunningStatus(i, "timeout")

MarkProcessTimedOut(i) == SetRunningStatus(i, "timed_out")

\* Not conditional: a confirmed kill overwrites what the reaper wrote.
MarkProcessKilled(i) == SetStatus(i, "killed")

\* Mutant of MarkRunningProcessesLost: the startup pass is missing.
LoseNothing == UNCHANGED storeVars

MarkRunningProcessesLost ==
    /\ status' = [i \in Ids |-> IF status[i] = "running" THEN "lost" ELSE status[i]]
    /\ UNCHANGED <<nrows, name, pid, timeout>>

\* An UPDATE of an id no row has changes nothing and is not an error.
StoreSetTimeout(i, timed) ==
    /\ timeout' = [timeout EXCEPT ![i] = timed /\ Exists(i)]
    /\ UNCHANGED <<nrows, status, name, pid>>
=============================================================================
