-------------------------------- MODULE Daemon --------------------------------
(***************************************************************************)
(* The pz daemon: client requests (service.rs), the spawning of processes  *)
(* and their reapers (supervisor.rs), the timeout tasks (service.rs) and   *)
(* the daemon's own death and restart (server.rs), over the store, the     *)
(* runtime state and the operating system's process groups.                *)
(*                                                                         *)
(* The runtime is multi-threaded and every request is a task, so two       *)
(* handlers interleave between any two calls they make on the store, the   *)
(* runtime state or the operating system, at an await or not.  A step of   *)
(* this module is therefore one such call with the decision taken on its   *)
(* answer.                                                                 *)
(***************************************************************************)
EXTENDS Terminate, DaemonState

CONSTANTS
    Tasks,          \* bound: the requests the daemon serves at a time
    Requests,       \* the kinds of requests clients make
    Spawnable,      \* the names given to `pz run`, NoName for none
    Selectors,      \* how clients designate a process: names, ids
    Timeouts,       \* whether `pz run` and `pz timeout` give a timeout
    Faults,         \* what may fail, see below
    Recycling,      \* when a free pid may be recycled, see below
    MaxBoots        \* bound: how often the daemon comes back

Kinds == {"run", "replace", "stop", "force", "restart", "wait", "timeout"}

\* "env": an env file is unreadable, or inline env values were not stored.
\* "exec": the program cannot be started.  "deadline": the timeout's
\* deadline overflows.  "store": a call on the store fails.
FaultKinds == {"env", "exec", "deadline", "store"}

\* Pids are never recycled, are not while the daemon is in the middle of
\* something about them, or may be at any time.
RecyclingKinds == {"never", "late", "any"}

ASSUME DaemonAssumption ==
    /\ Requests \subseteq Kinds
    /\ Spawnable \subseteq Names \cup {NoName}
    /\ Selectors \subseteq Names \cup Ids
    /\ Timeouts \subseteq BOOLEAN
    /\ Faults \subseteq FaultKinds
    /\ Recycling \in RecyclingKinds
    /\ MaxBoots \in Nat

VARIABLES
    up,         \* the daemon runs
    boots,      \* how often it has been started again
    pc,         \* where each request handler stands
    target,     \* the generation a handler works on, 0 for none
    job,        \* what a handler still has to do
    reaper,     \* the child handle of each generation and its reaper task
    fire        \* the expired timeout of each generation

taskVars == <<pc, target, job>>
hostVars == <<up, boots>>
vars == <<storeVars, groupVars, stateVars, hostVars, taskVars, reaper, fire>>

-----------------------------------------------------------------------------
Spawners == {"run", "replace", "restart"}

\* Where a stop goes once the process is dead: to its own answer, or back
\* into the replace or restart that called it.
Conts == {"reply", "gens", "reap", "check"}

SpawnPcs == {"check", "reserve", "fork", "failed", "activate", "insert"}
StopPcs == {"stop", "sread", "stoken", "slive", "markkilled"} \cup Phases
ReplacePcs == {"find", "gens", "reap"}
RestartPcs == {"rlookup", "rspec", "rread"}
WaitPcs == {"wlookup", "wread", "wsub", "wwait", "wfinal"}
TimeoutPcs == {"tlookup", "tstore", "tstate"}
Pcs == {"idle"} \cup SpawnPcs \cup StopPcs \cup ReplacePcs \cup RestartPcs
          \cup WaitPcs \cup TimeoutPcs

Jobs == [op : Kinds \cup {"none"}, sel : Names \cup {NoName} \cup Ids,
         name : Names \cup {NoName}, timed : BOOLEAN, cont : Conts,
         todo : SUBSET Ids]

NewJob(op, sel, n, timed) ==
    [op |-> op, sel |-> sel, name |-> n, timed |-> timed, cont |-> "reply", todo |-> {}]

NoJob == NewJob("none", NoName, NoName, FALSE)

\* The generation's child handle: none, held by the handler that spawned
\* it, awaited by the reaper task; then the reaper has waited for it, and
\* then it has written the exit to the store.
ReaperStates == {"none", "held", "waiting", "reaped", "marked"}

\* An expired timeout has seen the entry, then marked the row, then runs
\* the escalation, which is a task of its own.
FireStates == {"idle", "checked", "marked"} \cup Phases

TasksTypeOK ==
    /\ pc \in [Tasks -> Pcs]
    /\ target \in [Tasks -> Ids \cup {0}]
    /\ job \in [Tasks -> Jobs]

HostTypeOK ==
    /\ up \in BOOLEAN
    /\ boots \in Nat
    /\ reaper \in [Ids -> ReaperStates]
    /\ fire \in [Ids -> FireStates]

TypeOK == StoreTypeOK /\ GroupsTypeOK /\ StateTypeOK /\ TasksTypeOK /\ HostTypeOK

Init ==
    /\ StoreInit
    /\ GroupsInit
    /\ StateInit
    /\ up = TRUE
    /\ boots = 0
    /\ pc = [t \in Tasks |-> "idle"]
    /\ target = [t \in Tasks |-> 0]
    /\ job = [t \in Tasks |-> NoJob]
    /\ reaper = [i \in Ids |-> "none"]
    /\ fire = [i \in Ids |-> "idle"]

-----------------------------------------------------------------------------
\* The handler goes on at `to`, with the same job and target.
Goto(t, to) ==
    /\ pc' = [pc EXCEPT ![t] = to]
    /\ UNCHANGED <<target, job>>

\* The same, now working on generation i.
GotoOn(t, i, to) ==
    /\ pc' = [pc EXCEPT ![t] = to]
    /\ target' = [target EXCEPT ![t] = i]
    /\ UNCHANGED job

\* The handler answers, with a response or an error.
Reply(t) ==
    /\ pc' = [pc EXCEPT ![t] = "idle"]
    /\ target' = [target EXCEPT ![t] = 0]
    /\ job' = [job EXCEPT ![t] = NoJob]

\* A selector is resolved and the handler goes on at `to`, or fails.
Resolve(t, to) ==
    \/ \E i \in Ids : Resolves(job[t].sel, i) /\ GotoOn(t, i, to)
    \/ ~Resolvable(job[t].sel) /\ Reply(t)

UnchangedButTask == UNCHANGED <<storeVars, groupVars, stateVars, hostVars, reaper, fire>>

-----------------------------------------------------------------------------
(* Requests *)

\* A spawner that has not claimed its id yet.
Unclaimed(t) == job[t].op \in Spawners
                  /\ pc[t] \notin {"fork", "failed", "activate", "insert", "tstore", "tstate"}

\* Bound: no more spawning requests than ids are left.
MaySpawn == nrows + Cardinality({t \in Tasks : Unclaimed(t)}) < MaxId

FirstPc(op) == CASE op = "run" -> "check"
                 [] op = "replace" -> "find"
                 [] op \in {"stop", "force"} -> "stop"
                 [] op = "restart" -> "rlookup"
                 [] op = "wait" -> "wlookup"
                 [] op = "timeout" -> "tlookup"

Receive(t, op) ==
    /\ up
    /\ pc[t] = "idle"
    /\ op \in Spawners => MaySpawn
    /\ \/ /\ op \in {"run", "replace"}
          /\ \E n \in Spawnable, timed \in Timeouts :
               /\ op = "replace" => n # NoName
               /\ job' = [job EXCEPT ![t] = NewJob(op, NoName, n, timed)]
       \/ /\ op \in {"stop", "force", "restart", "wait", "timeout"}
          /\ \E sel \in Selectors, timed \in BOOLEAN :
               /\ timed => op = "timeout" /\ TRUE \in Timeouts
               /\ job' = [job EXCEPT ![t] = NewJob(op, sel, NoName, timed)]
    /\ pc' = [pc EXCEPT ![t] = FirstPc(op)]
    /\ UNCHANGED target
    /\ UnchangedButTask

-----------------------------------------------------------------------------
(* Spawning (Supervisor::spawn) *)

\* Mutant of LostButAlive: lost generations do not stand in the way.
LostNeverBlock(n) == FALSE

LostButAlive(n) == n # NoName /\ \E i \in LostGenerations(n) : IsAlive(i)

\* effective_env reads the env files; ensure_name_not_lost_alive follows.
Check(t) ==
    /\ pc[t] = "check"
    /\ \/ "env" \in Faults /\ Reply(t)
       \/ LostButAlive(job[t].name) /\ Reply(t)
       \/ ~LostButAlive(job[t].name) /\ Goto(t, "reserve")
    /\ UnchangedButTask

Reserve(t) ==
    /\ pc[t] = "reserve"
    /\ \/ NameTaken(job[t].name) /\ Reply(t) /\ UNCHANGED storeVars
       \/ \E i \in Ids : ReserveProcess(job[t].name, i) /\ GotoOn(t, i, "fork")
    /\ UNCHANGED <<groupVars, stateVars, hostVars, reaper, fire>>

\* Command::spawn: the child leads a new group and the handler holds it.
ForkChild(t) ==
    /\ pc[t] = "fork"
    /\ \/ /\ Fork(target[t])
          /\ reaper' = [reaper EXCEPT ![target[t]] = "held"]
          /\ Goto(t, "activate")
       \/ /\ "exec" \in Faults
          /\ Goto(t, "failed")
          /\ UNCHANGED <<groupVars, reaper>>
    /\ UNCHANGED <<storeVars, stateVars, hostVars, fire>>

SpawnFailed(t) ==
    /\ pc[t] = "failed"
    /\ \/ MarkSpawnFailed(target[t])
       \/ "store" \in Faults /\ UNCHANGED storeVars
    /\ Reply(t)
    /\ UNCHANGED <<groupVars, stateVars, hostVars, reaper, fire>>

\* Mutant of Activate: the result of activate_process is ignored.
ActivateIgnored(t) ==
    /\ pc[t] = "activate"
    /\ \/ ActivateProcess(target[t])
       \/ "store" \in Faults /\ UNCHANGED storeVars
    /\ Goto(t, "insert")
    /\ UNCHANGED <<groupVars, stateVars, hostVars, reaper, fire>>

\* If the store fails here, in the update or in the read of the row that
\* follows it, the handle is dropped: the runtime reaps the child when it
\* exits, and nobody records it.
Activate(t) ==
    /\ pc[t] = "activate"
    /\ \/ /\ ActivateProcess(target[t])
          /\ Goto(t, "insert")
          /\ UNCHANGED reaper
       \/ /\ "store" \in Faults
          /\ reaper' = [reaper EXCEPT ![target[t]] = "none"]
          /\ Reply(t)
          /\ ActivateProcess(target[t]) \/ UNCHANGED storeVars
    /\ UNCHANGED <<groupVars, stateVars, hostVars, fire>>

\* Mutant of Insert: the reaper task is not launched.
InsertOnly(t) ==
    /\ pc[t] = "insert"
    /\ InsertProcess(target[t])
    /\ IF job[t].timed THEN Goto(t, "tstore") ELSE Reply(t)
    /\ UNCHANGED <<storeVars, groupVars, hostVars, reaper, fire>>

\* The entry is inserted and the reaper task launched.
Insert(t) ==
    /\ pc[t] = "insert"
    /\ InsertProcess(target[t])
    /\ reaper' = [reaper EXCEPT ![target[t]] = "waiting"]
    /\ IF job[t].timed THEN Goto(t, "tstore") ELSE Reply(t)
    /\ UNCHANGED <<storeVars, groupVars, hostVars, fire>>

-----------------------------------------------------------------------------
(* Stopping (stop_process) *)

Stop(t) == pc[t] = "stop" /\ Resolve(t, "sread") /\ UnchangedButTask

Signal(t) == Goto(t, FirstPhase(job[t].op = "force"))

\* The row is read once: its status decides, and its pgid is used unless it
\* had none yet.
StopRead(t) ==
    LET i == target[t] IN
    /\ pc[t] = "sread"
    /\ \/ status[i] \notin {"running", "lost"} /\ Reply(t)
       \/ status[i] = "lost" /\ Goto(t, "stoken")
       \/ status[i] = "running" /\ pid[i] /\ Signal(t)
       \/ status[i] = "running" /\ ~pid[i] /\ Goto(t, "slive")
    /\ UnchangedButTask

\* Mutant of StopToken: a lost row's pid is trusted.
StopTrusting(t) ==
    /\ pc[t] = "stoken"
    /\ IF pid[target[t]] THEN Signal(t) ELSE Goto(t, "markkilled")
    /\ UnchangedButTask

StopToken(t) ==
    /\ pc[t] = "stoken"
    /\ IF IsAlive(target[t]) THEN Signal(t) ELSE Goto(t, "markkilled")
    /\ UnchangedButTask

\* The row had no pid: the runtime state may have one by now.
StopLive(t) ==
    /\ pc[t] = "slive"
    /\ IF live[target[t]] THEN Signal(t) ELSE Reply(t)
    /\ UnchangedButTask

StopEscalate(t) ==
    /\ pc[t] \in Phases
    /\ \E next \in Phases \cup Outcomes :
         /\ EscalateStep(target[t], pc[t], next)
         /\ \/ next = "dead" /\ Goto(t, "markkilled")
            \/ next = "gaveup" /\ Reply(t)
            \/ next \in Phases /\ Goto(t, next)
    /\ UNCHANGED <<storeVars, stateVars, hostVars, reaper, fire>>

StopMark(t) ==
    /\ pc[t] = "markkilled"
    /\ MarkProcessKilled(target[t])
    /\ IF job[t].cont = "reply" THEN Reply(t) ELSE Goto(t, job[t].cont)
    /\ UNCHANGED <<groupVars, stateVars, hostVars, reaper, fire>>

-----------------------------------------------------------------------------
(* Replacing (stop_holders_of) *)

\* The running holder of the name, if any, is stopped by its id.
FindHolder(t) ==
    LET n == job[t].name IN
    /\ pc[t] = "find"
    /\ \/ /\ ~NameTaken(n)
          /\ Goto(t, "gens")
       \/ \E i \in Ids :
            /\ RunningAs(n, i)
            /\ pc' = [pc EXCEPT ![t] = "sread"]
            /\ target' = [target EXCEPT ![t] = i]
            /\ job' = [job EXCEPT ![t].cont = "gens"]
    /\ UnchangedButTask

ListGenerations(t) ==
    /\ pc[t] = "gens"
    /\ pc' = [pc EXCEPT ![t] = "reap"]
    /\ job' = [job EXCEPT ![t].todo = LostGenerations(job[t].name), ![t].cont = "reap"]
    /\ UNCHANGED target
    /\ UnchangedButTask

\* The listed generations, newest first: a live one is stopped by its id.
NextGeneration(t) ==
    LET todo == job[t].todo IN
    /\ pc[t] = "reap"
    /\ \/ todo = {} /\ Goto(t, "check")
       \/ \E i \in todo :
            /\ \A j \in todo : j <= i
            /\ job' = [job EXCEPT ![t].todo = todo \ {i}]
            /\ IF IsAlive(i)
               THEN /\ pc' = [pc EXCEPT ![t] = "sread"]
                    /\ target' = [target EXCEPT ![t] = i]
               ELSE UNCHANGED <<pc, target>>
    /\ UnchangedButTask

-----------------------------------------------------------------------------
(* Restarting (restart_process) *)

RestartLookup(t) == pc[t] = "rlookup" /\ Resolve(t, "rspec") /\ UnchangedButTask

\* restart_spec: the successor's name and timeout are the row's.
RestartSpec(t) ==
    LET i == target[t] IN
    /\ pc[t] = "rspec"
    /\ \/ (~Exists(i) \/ "env" \in Faults) /\ Reply(t)
       \/ /\ Exists(i)
          /\ pc' = [pc EXCEPT ![t] = "rread"]
          /\ job' = [job EXCEPT ![t].name = name[i], ![t].timed = timeout[i]]
          /\ UNCHANGED target
    /\ UnchangedButTask

\* The stop resolves the client's selector again.
RestartRead(t) ==
    /\ pc[t] = "rread"
    /\ IF status[target[t]] \in {"running", "lost"}
       THEN /\ pc' = [pc EXCEPT ![t] = "stop"]
            /\ job' = [job EXCEPT ![t].cont = "check"]
            /\ UNCHANGED target
       ELSE Goto(t, "check")
    /\ UnchangedButTask

-----------------------------------------------------------------------------
(* Waiting (wait_process) *)

WaitLookup(t) == pc[t] = "wlookup" /\ Resolve(t, "wread") /\ UnchangedButTask

WaitRead(t) ==
    /\ pc[t] = "wread"
    /\ IF status[target[t]] = "running" THEN Goto(t, "wsub") ELSE Reply(t)
    /\ UnchangedButTask

WaitSubscribe(t) ==
    /\ pc[t] = "wsub"
    /\ Goto(t, IF live[target[t]] THEN "wwait" ELSE "wfinal")
    /\ UnchangedButTask

WaitFinished(t) ==
    /\ pc[t] = "wwait"
    /\ ~live[target[t]]
    /\ Goto(t, "wfinal")
    /\ UnchangedButTask

\* The row is read again and is the answer.
WaitReturn(t) == pc[t] = "wfinal" /\ Reply(t) /\ UnchangedButTask

-----------------------------------------------------------------------------
(* Timeouts (set_timeout_for_id and the task it spawns) *)

TimeoutLookup(t) == pc[t] = "tlookup" /\ Resolve(t, "tstore") /\ UnchangedButTask

TimeoutStore(t) ==
    /\ pc[t] = "tstore"
    /\ \/ StoreSetTimeout(target[t], job[t].timed) /\ Goto(t, "tstate")
       \/ job[t].timed /\ "deadline" \in Faults /\ Reply(t) /\ UNCHANGED storeVars
    /\ UNCHANGED <<groupVars, stateVars, hostVars, reaper, fire>>

TimeoutState(t) ==
    /\ pc[t] = "tstate"
    /\ StateSetTimeout(target[t], job[t].timed)
    /\ Reply(t)
    /\ UNCHANGED <<storeVars, groupVars, hostVars, reaper, fire>>

\* A timeout task that was spawned but is not in the entry yet.
Sleeping(i) == \E t \in Tasks : pc[t] = "tstate" /\ target[t] = i /\ job[t].timed

\* The task wakes up and finds the entry.  Two tasks of one generation that
\* expire at once are one.
FireTimer(i) ==
    /\ timer[i] \/ orphan[i] \/ Sleeping(i)
    /\ live[i]
    /\ fire[i] = "idle"
    /\ fire' = [fire EXCEPT ![i] = "checked"]
    /\ timer' = [timer EXCEPT ![i] = FALSE]
    /\ orphan' = [orphan EXCEPT ![i] = FALSE]
    /\ UNCHANGED <<live, storeVars, groupVars, hostVars, taskVars, reaper>>

\* It finds no entry and ends.
OrphanEnds(i) ==
    /\ orphan[i]
    /\ ~live[i]
    /\ orphan' = [orphan EXCEPT ![i] = FALSE]
    /\ UNCHANGED <<live, timer, storeVars, groupVars, hostVars, taskVars, reaper, fire>>

FireMark(i) ==
    /\ fire[i] = "checked"
    /\ fire' = [fire EXCEPT ![i] = "marked"]
    /\ \/ MarkProcessTimedOut(i)
       \/ "store" \in Faults /\ UNCHANGED storeVars
    /\ UNCHANGED <<groupVars, stateVars, hostVars, taskVars, reaper>>

\* Mutant of FireFinish: removing the entry aborts the task that runs the
\* escalation.
FireAborted(i) ==
    /\ fire[i] = "marked"
    /\ fire' = [fire EXCEPT ![i] = "idle"]
    /\ FinishProcess(i)
    /\ UNCHANGED <<storeVars, groupVars, hostVars, taskVars, reaper>>

\* The entry is removed and the escalation spawned, detached.
FireFinish(i) ==
    /\ fire[i] = "marked"
    /\ fire' = [fire EXCEPT ![i] = FirstPhase(FALSE)]
    /\ FinishProcess(i)
    /\ UNCHANGED <<storeVars, groupVars, hostVars, taskVars, reaper>>

FireEscalate(i) ==
    /\ fire[i] \in Phases
    /\ \E next \in Phases \cup Outcomes :
         /\ EscalateStep(i, fire[i], next)
         /\ fire' = [fire EXCEPT ![i] = IF next \in Outcomes THEN "idle" ELSE next]
    /\ UNCHANGED <<storeVars, stateVars, hostVars, taskVars, reaper>>

-----------------------------------------------------------------------------
(* The reaper task of a generation *)

Reap(i) ==
    /\ reaper[i] = "waiting"
    /\ ReapLeader(i)
    /\ reaper' = [reaper EXCEPT ![i] = "reaped"]
    /\ UNCHANGED <<storeVars, stateVars, hostVars, taskVars, fire>>

ReaperMark(i) ==
    /\ reaper[i] = "reaped"
    /\ reaper' = [reaper EXCEPT ![i] = "marked"]
    /\ \/ MarkProcessFinished(i)
       \/ "store" \in Faults /\ UNCHANGED storeVars
    /\ UNCHANGED <<groupVars, stateVars, hostVars, taskVars, fire>>

\* Mutant of ReaperFinish: the entry stays.
ReaperForgets(i) ==
    /\ reaper[i] = "marked"
    /\ reaper' = [reaper EXCEPT ![i] = "none"]
    /\ UNCHANGED <<storeVars, groupVars, stateVars, hostVars, taskVars, fire>>

ReaperFinish(i) ==
    /\ reaper[i] = "marked"
    /\ reaper' = [reaper EXCEPT ![i] = "none"]
    /\ FinishProcess(i)
    /\ UNCHANGED <<storeVars, groupVars, hostVars, taskVars, fire>>

-----------------------------------------------------------------------------
(* The daemon's host *)

\* Any request whose call on the store fails answers with the error.
StoreError(t) ==
    /\ "store" \in Faults
    /\ pc[t] \notin {"idle", "fork", "failed", "activate", "insert", "slive",
                     "tstate", "wsub", "wwait", "reap"} \cup Phases
    /\ Reply(t)
    /\ UnchangedButTask

\* The daemon dies, by `pz daemon stop` or a crash: every task goes with
\* it, and the children live on.
Crash ==
    /\ up
    /\ boots < MaxBoots
    /\ up' = FALSE
    /\ live' = [i \in Ids |-> FALSE]
    /\ timer' = [i \in Ids |-> FALSE]
    /\ orphan' = [i \in Ids |-> FALSE]
    /\ pc' = [t \in Tasks |-> "idle"]
    /\ target' = [t \in Tasks |-> 0]
    /\ job' = [t \in Tasks |-> NoJob]
    /\ reaper' = [i \in Ids |-> "none"]
    /\ fire' = [i \in Ids |-> "idle"]
    /\ UNCHANGED <<storeVars, groupVars, boots>>

\* start_with_paths: what the previous daemon left running is lost.
Boot ==
    /\ ~up
    /\ up' = TRUE
    /\ boots' = boots + 1
    /\ MarkRunningProcessesLost
    /\ UNCHANGED <<groupVars, stateVars, taskVars, reaper, fire>>

\* A child without a handle is reaped by init, or by the runtime.
InitReaps(i) ==
    /\ reaper[i] = "none"
    /\ ReapLeader(i)
    /\ UNCHANGED <<storeVars, stateVars, hostVars, taskVars, reaper, fire>>

\* The daemon is in the middle of something about i.
InUse(i) == reaper[i] # "none" \/ fire[i] # "idle" \/ \E t \in Tasks : target[t] = i

Recycle(i) ==
    /\ pid[i]
    /\ Recycling = "any" \/ (Recycling = "late" /\ ~InUse(i))
    /\ RecyclePid(i)
    /\ UNCHANGED <<storeVars, stateVars, hostVars, taskVars, reaper, fire>>

GroupMoves(i) ==
    /\ LeaderExits(i) \/ LeaderForks(i) \/ OthersExit(i) \/ ChangesUser(i)
    /\ UNCHANGED <<storeVars, stateVars, hostVars, taskVars, reaper, fire>>

-----------------------------------------------------------------------------
SpawnStep(t) == Check(t) \/ Reserve(t) \/ ForkChild(t) \/ SpawnFailed(t)
                  \/ Activate(t) \/ Insert(t)

StopStep(t) == Stop(t) \/ StopRead(t) \/ StopToken(t) \/ StopLive(t)
                 \/ StopEscalate(t) \/ StopMark(t)

ReplaceStep(t) == FindHolder(t) \/ ListGenerations(t) \/ NextGeneration(t)

RestartStep(t) == RestartLookup(t) \/ RestartSpec(t) \/ RestartRead(t)

WaitStep(t) == WaitLookup(t) \/ WaitRead(t) \/ WaitSubscribe(t) \/ WaitFinished(t)
                 \/ WaitReturn(t)

TimeoutStep(t) == TimeoutLookup(t) \/ TimeoutStore(t) \/ TimeoutState(t)

\* What the daemon's scheduler runs of a request once it was received.
TaskStep(t) == SpawnStep(t) \/ StopStep(t) \/ ReplaceStep(t) \/ RestartStep(t)
                 \/ WaitStep(t) \/ TimeoutStep(t)

FireStep(i) == FireMark(i) \/ FireFinish(i) \/ FireEscalate(i)

ReaperStep(i) == Reap(i) \/ ReaperMark(i) \/ ReaperFinish(i)

OSStep(i) == GroupMoves(i) \/ InitReaps(i) \/ Recycle(i)

Next ==
    \/ \E t \in Tasks : TaskStep(t) \/ StoreError(t) \/ \E op \in Requests : Receive(t, op)
    \/ \E i \in Ids : FireTimer(i) \/ OrphanEnds(i) \/ FireStep(i) \/ ReaperStep(i) \/ OSStep(i)
    \/ Crash
    \/ Boot

Spec == Init /\ [][Next]_vars

\* tokio runs every task that can run, a sleep ends, and a child without a
\* handle is reaped.  Clients need not call, processes need not exit, and
\* the daemon need not die nor come back.
Fairness ==
    /\ \A t \in Tasks : WF_vars(TaskStep(t))
    /\ \A i \in Ids : /\ WF_vars(FireTimer(i))
                      /\ WF_vars(FireStep(i))
                      /\ WF_vars(ReaperStep(i))
                      /\ WF_vars(InitReaps(i))

FairSpec == Spec /\ Fairness
=============================================================================
