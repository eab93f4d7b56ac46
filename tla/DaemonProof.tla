----------------------------- MODULE DaemonProof -----------------------------
(***************************************************************************)
(* Proofs about Daemon, for every number of handlers, names, generations   *)
(* and daemon restarts, and whatever may fail: the invariant of            *)
(* DaemonInvariant is inductive, and the safety properties follow.         *)
(*                                                                         *)
(* Types come first: they are inductive, given that a handler that has     *)
(* looked up its process has a target (TargetInv).  Of the rest, most steps *)
(* are quiet: one handler moves on without touching what the invariant     *)
(* reads, or a leader goes on its way from running to zombie to reaped.  One *)
(* lemma covers them; the others are taken one by one.                     *)
(***************************************************************************)
EXTENDS DaemonInvariant, TLAPS

-----------------------------------------------------------------------------
(* Every operation keeps the types of the variables it changes. *)

\* Every statement on the processes table keeps its columns in their domains.
LEMMA StoreTypes ==
    StoreTypeOK =>
        /\ \A i \in Ids, n \in Names \cup {NoName} : ReserveProcess(n, i) => StoreTypeOK'
        /\ \A i : ActivateProcess(i) => StoreTypeOK'
        /\ \A i : MarkSpawnFailed(i) \/ MarkProcessKilled(i) => StoreTypeOK'
        /\ \A i \in Ids : MarkProcessFinished(i) \/ MarkProcessTimedOut(i) => StoreTypeOK'
        /\ MarkRunningProcessesLost => StoreTypeOK'
        /\ \A i, b : StoreSetTimeout(i, b) => StoreTypeOK'
        /\ UNCHANGED storeVars => StoreTypeOK'
<1> USE DEF StoreTypeOK
<1> SUFFICES ASSUME StoreTypeOK
             PROVE  /\ \A i \in Ids, n \in Names \cup {NoName} : ReserveProcess(n, i) => StoreTypeOK'
                    /\ \A i : ActivateProcess(i) => StoreTypeOK'
                    /\ \A i : MarkSpawnFailed(i) \/ MarkProcessKilled(i) => StoreTypeOK'
                    /\ \A i \in Ids : MarkProcessFinished(i) \/ MarkProcessTimedOut(i) => StoreTypeOK'
                    /\ MarkRunningProcessesLost => StoreTypeOK'
                    /\ \A i, b : StoreSetTimeout(i, b) => StoreTypeOK'
                    /\ UNCHANGED storeVars => StoreTypeOK'
  OBVIOUS
<1>1. \A i \in Ids, n \in Names \cup {NoName} : ReserveProcess(n, i) => StoreTypeOK'
  BY NamesAssumption DEF ReserveProcess, Statuses, Ids
<1>2. \A i : ActivateProcess(i) => StoreTypeOK'
  BY DEF ActivateProcess
<1>3. \A i : MarkSpawnFailed(i) \/ MarkProcessKilled(i) => StoreTypeOK'
  BY DEF MarkSpawnFailed, MarkProcessKilled, SetStatus, Statuses
<1>4. \A i \in Ids : MarkProcessFinished(i) \/ MarkProcessTimedOut(i) => StoreTypeOK'
  BY DEF MarkProcessFinished, MarkProcessTimedOut, SetRunningStatus, SetStatus, Statuses
<1>5. MarkRunningProcessesLost => StoreTypeOK'
  BY DEF MarkRunningProcessesLost, Statuses
<1>6. \A i, b : StoreSetTimeout(i, b) => StoreTypeOK'
  BY DEF StoreSetTimeout, Exists
<1>7. UNCHANGED storeVars => StoreTypeOK'
  BY DEF storeVars
<1> QED
  BY <1>1, <1>2, <1>3, <1>4, <1>5, <1>6, <1>7

\* Whatever happens to a process group keeps its state in its domain.
LEMMA GroupTypes ==
    GroupsTypeOK =>
        /\ \A i : Fork(i) => GroupsTypeOK'
        /\ \A i : KillGroup(i) => GroupsTypeOK'
        /\ \A i : ReapLeader(i) \/ LeaderExits(i) => GroupsTypeOK'
        /\ \A i : LeaderForks(i) \/ OthersExit(i) \/ ChangesUser(i) => GroupsTypeOK'
        /\ \A i : RecyclePid(i) => GroupsTypeOK'
        /\ \A i, phase, next : EscalateStep(i, phase, next) => GroupsTypeOK'
        /\ UNCHANGED groupVars => GroupsTypeOK'
<1> USE DEF GroupsTypeOK, LeaderStates, Parts
<1>1. GroupsTypeOK => \A i : Fork(i) => GroupsTypeOK'
  BY DEF Fork
<1>2. GroupsTypeOK => \A i : KillGroup(i) => GroupsTypeOK'
  BY DEF KillGroup, groupVars
<1>3. GroupsTypeOK => \A i : ReapLeader(i) \/ LeaderExits(i) => GroupsTypeOK'
  BY DEF ReapLeader, LeaderExits
<1>4. GroupsTypeOK => \A i : LeaderForks(i) \/ OthersExit(i) \/ ChangesUser(i) => GroupsTypeOK'
  <2> SUFFICES ASSUME GroupsTypeOK, NEW i, LeaderForks(i) \/ OthersExit(i) \/ ChangesUser(i)
               PROVE  GroupsTypeOK'
    OBVIOUS
  <2>1. CASE LeaderForks(i)
    <3>1. CASE "leader" \in foreign[i]
      BY <2>1, <3>1 DEF LeaderForks
    <3>2. CASE "leader" \notin foreign[i]
      BY <2>1, <3>2 DEF LeaderForks
    <3> QED
      BY <3>1, <3>2
  <2>2. CASE OthersExit(i)
    BY <2>2 DEF OthersExit
  <2>3. CASE ChangesUser(i)
    BY <2>3 DEF ChangesUser
  <2> QED
    BY <2>1, <2>2, <2>3
<1>5. GroupsTypeOK => \A i : RecyclePid(i) => GroupsTypeOK'
  <2> SUFFICES ASSUME GroupsTypeOK, NEW i, RecyclePid(i) PROVE GroupsTypeOK'
    OBVIOUS
  <2>1. leader' \in [Ids -> LeaderStates] /\ others' \in [Ids -> BOOLEAN] /\ recycled' \in [Ids -> BOOLEAN]
    BY DEF RecyclePid
  <2>2. foreign' \in [Ids -> SUBSET Parts]
    BY DEF RecyclePid
  <2> QED
    BY <2>1, <2>2
<1>6. GroupsTypeOK => (UNCHANGED groupVars => GroupsTypeOK')
  BY DEF groupVars
<1> HIDE DEF GroupsTypeOK, LeaderStates, Parts
<1>7. GroupsTypeOK => \A i, phase, next : EscalateStep(i, phase, next) => GroupsTypeOK'
  BY <1>2, <1>6 DEF EscalateStep
<1> QED
  BY <1>1, <1>2, <1>3, <1>4, <1>5, <1>6, <1>7

\* Every method of the runtime state keeps its maps total.
LEMMA StateTypes ==
    StateTypeOK =>
        /\ \A i : InsertProcess(i) \/ FinishProcess(i) => StateTypeOK'
        /\ \A i, b : StateSetTimeout(i, b) => StateTypeOK'
        /\ UNCHANGED stateVars => StateTypeOK'
  BY DEF StateTypeOK, InsertProcess, FinishProcess, StateSetTimeout, stateVars

\* An idle handler has a job of the type of the others.
LEMMA NoJobType == NoJob \in Jobs
  BY DEF Jobs, NewJob, NoJob, Kinds, Conts

\* What a client may ask for is a job.
LEMMA NewJobType ==
    \A op \in Kinds, sel \in Names \cup {NoName} \cup Ids, n \in Names \cup {NoName},
       timed \in BOOLEAN : NewJob(op, sel, n, timed) \in Jobs
  BY DEF Jobs, NewJob, Kinds, Conts

\* So is a job with any of its fields updated the way handlers do.
LEMMA JobUpdates ==
    ASSUME job \in [Tasks -> Jobs], NEW t \in Tasks
    PROVE  /\ \A c \in Conts : [job EXCEPT ![t].cont = c] \in [Tasks -> Jobs]
           /\ \A d \in SUBSET Ids : [job EXCEPT ![t].todo = d] \in [Tasks -> Jobs]
           /\ \A c \in Conts, d \in SUBSET Ids :
                 [job EXCEPT ![t].todo = d, ![t].cont = c] \in [Tasks -> Jobs]
           /\ \A n \in Names \cup {NoName}, b \in BOOLEAN :
                 [job EXCEPT ![t].name = n, ![t].timed = b] \in [Tasks -> Jobs]
<1>1. ASSUME NEW c \in Conts PROVE [job EXCEPT ![t].cont = c] \in [Tasks -> Jobs]
  BY DEF Jobs
<1>2. ASSUME NEW d \in SUBSET Ids PROVE [job EXCEPT ![t].todo = d] \in [Tasks -> Jobs]
  BY DEF Jobs
<1>3. ASSUME NEW c \in Conts, NEW d \in SUBSET Ids
      PROVE  [job EXCEPT ![t].todo = d, ![t].cont = c] \in [Tasks -> Jobs]
  BY DEF Jobs
<1>4. ASSUME NEW n \in Names \cup {NoName}, NEW b \in BOOLEAN
      PROVE  [job EXCEPT ![t].name = n, ![t].timed = b] \in [Tasks -> Jobs]
  BY DEF Jobs
<1> QED
  BY <1>1, <1>2, <1>3, <1>4

-----------------------------------------------------------------------------
\* TypeOK is inductive: every state variable keeps its type, the bounds on
\* ids included (the AUTOINCREMENT key never passes MaxId).
LEMMA TypeStep == TypeOK /\ TargetInv /\ [Next]_vars => TypeOK'
<1> SUFFICES ASSUME TypeOK, TargetInv, [Next]_vars PROVE TypeOK'
  OBVIOUS
<1> USE DEF TypeOK
<1>0. \A t \in Tasks : job[t].name \in Names \cup {NoName} /\ job[t].timed \in BOOLEAN
                        /\ job[t].cont \in Conts /\ job[t].todo \in SUBSET Ids
  BY DEF TasksTypeOK, Jobs
<1>s. UNCHANGED storeVars => StoreTypeOK'
  BY StoreTypes
<1>g. UNCHANGED groupVars => GroupsTypeOK'
  BY GroupTypes
<1>d. UNCHANGED stateVars => StateTypeOK'
  BY StateTypes
<1>t. UNCHANGED taskVars => TasksTypeOK'
  BY DEF TasksTypeOK, taskVars
<1>h. UNCHANGED <<hostVars, reaper, fire>> => HostTypeOK'
  BY DEF HostTypeOK, hostVars
<1>u. UnchangedButTask => StoreTypeOK' /\ GroupsTypeOK' /\ StateTypeOK' /\ HostTypeOK'
  BY <1>s, <1>g, <1>d, <1>h DEF UnchangedButTask
<1>x. \A t \in Tasks : Reply(t) => TasksTypeOK'
  BY NoJobType DEF TasksTypeOK, Reply, Pcs
<1>y. \A t \in Tasks, to \in Pcs : Goto(t, to) => TasksTypeOK'
  BY DEF TasksTypeOK, Goto
<1>z. \A t \in Tasks, to \in Pcs, i \in Ids : GotoOn(t, i, to) => TasksTypeOK'
  BY DEF TasksTypeOK, GotoOn
<1>w. \A t \in Tasks, to \in Pcs : Resolve(t, to) => TasksTypeOK'
  BY <1>x, <1>z DEF Resolve
<1>1. ASSUME NEW t \in Tasks, SpawnStep(t) PROVE TypeOK'
  <2> USE DEF Pcs, SpawnPcs
  <2>1. CASE Check(t)
    BY <2>1, <1>u, <1>x, <1>y DEF Check
  <2>2. CASE Reserve(t)
    BY <2>2, <1>0, <1>s, <1>g, <1>d, <1>h, <1>x, <1>z, StoreTypes DEF Reserve
  <2>3. CASE ForkChild(t)
    BY <2>3, <1>s, <1>g, <1>d, <1>y, GroupTypes DEF ForkChild, HostTypeOK, ReaperStates, hostVars
  <2>4. CASE SpawnFailed(t)
    BY <2>4, <1>s, <1>g, <1>d, <1>h, <1>x, StoreTypes DEF SpawnFailed
  <2>5. CASE Activate(t)
    BY <2>5, <1>s, <1>g, <1>d, <1>x, <1>y, StoreTypes
       DEF Activate, HostTypeOK, ReaperStates, hostVars
  <2>6. CASE Insert(t)
    <3>1. TasksTypeOK'
      BY <2>6, <1>x, <1>y DEF Insert, TimeoutPcs
    <3> QED
      BY <2>6, <3>1, <1>s, <1>g, StateTypes DEF Insert, HostTypeOK, ReaperStates, hostVars
  <2> QED
    BY <1>1, <2>1, <2>2, <2>3, <2>4, <2>5, <2>6 DEF SpawnStep
<1>2. ASSUME NEW t \in Tasks, StopStep(t) PROVE TypeOK'
  <2>0. FirstPhase(job[t].op = "force") \in Pcs
    BY DEF FirstPhase, Pcs, StopPcs, Phases
  <2> USE DEF Pcs, StopPcs
  <2>1. CASE Stop(t)
    BY <2>1, <1>u, <1>w DEF Stop
  <2>2. CASE StopRead(t)
    BY <2>2, <2>0, <1>u, <1>x, <1>y DEF StopRead, Signal
  <2>3. CASE StopToken(t)
    BY <2>3, <2>0, <1>u, <1>y DEF StopToken, Signal
  <2>4. CASE StopLive(t)
    BY <2>4, <2>0, <1>u, <1>x, <1>y DEF StopLive, Signal
  <2>5. CASE StopEscalate(t)
    BY <2>5, <1>s, <1>d, <1>h, <1>x, <1>y, GroupTypes DEF StopEscalate
  <2>6. CASE StopMark(t)
    <3>1. TasksTypeOK'
      BY <2>6, <1>0, <1>x, <1>y DEF StopMark, Conts, SpawnPcs, ReplacePcs
    <3> QED
      BY <2>6, <3>1, <1>g, <1>d, <1>h, StoreTypes DEF StopMark
  <2> QED
    BY <1>2, <2>1, <2>2, <2>3, <2>4, <2>5, <2>6 DEF StopStep
<1>3. ASSUME NEW t \in Tasks, ReplaceStep(t) PROVE TypeOK'
  <2>1. CASE FindHolder(t)
    <3>1. TasksTypeOK'
      <4>1. CASE Goto(t, "gens")
        BY <4>1, <1>y DEF Pcs, ReplacePcs
      <4>2. CASE \E i \in Ids : /\ pc' = [pc EXCEPT ![t] = "sread"]
                                /\ target' = [target EXCEPT ![t] = i]
                                /\ job' = [job EXCEPT ![t].cont = "gens"]
        <5>1. "gens" \in Conts /\ "sread" \in Pcs
          BY DEF Conts, Pcs, StopPcs
        <5>2. [job EXCEPT ![t].cont = "gens"] \in [Tasks -> Jobs]
          BY <5>1, JobUpdates DEF TasksTypeOK
        <5> QED
          BY <4>2, <5>1, <5>2 DEF TasksTypeOK
      <4> QED
        BY <2>1, <4>1, <4>2 DEF FindHolder
    <3> QED
      BY <2>1, <3>1, <1>u DEF FindHolder
  <2>2. CASE ListGenerations(t)
    <3>1. LostGenerations(job[t].name) \in SUBSET Ids
      BY DEF LostGenerations
    <3>2. "reap" \in Conts /\ "reap" \in Pcs
      BY DEF Conts, Pcs, ReplacePcs
    <3> QED
      BY <2>2, <3>1, <3>2, <1>u, JobUpdates DEF ListGenerations, TasksTypeOK
  <2>3. CASE NextGeneration(t)
    <3>1. TasksTypeOK'
      <4>1. CASE Goto(t, "check")
        BY <4>1, <1>y DEF Pcs, SpawnPcs
      <4>2. ASSUME NEW i \in job[t].todo,
                   job' = [job EXCEPT ![t].todo = job[t].todo \ {i}],
                   \/ /\ pc' = [pc EXCEPT ![t] = "sread"]
                      /\ target' = [target EXCEPT ![t] = i]
                   \/ UNCHANGED <<pc, target>>
            PROVE TasksTypeOK'
        <5>1. job' \in [Tasks -> Jobs]
          BY <4>2, <1>0 DEF TasksTypeOK, Jobs
        <5> QED
          BY <4>2, <5>1, <1>0 DEF TasksTypeOK, Pcs, StopPcs
      <4> QED
        BY <2>3, <4>1, <4>2 DEF NextGeneration
    <3> QED
      BY <2>3, <3>1, <1>u DEF NextGeneration
  <2> QED
    BY <1>3, <2>1, <2>2, <2>3 DEF ReplaceStep
<1>4. ASSUME NEW t \in Tasks, RestartStep(t) PROVE TypeOK'
  <2>1. CASE RestartLookup(t)
    BY <2>1, <1>u, <1>w DEF RestartLookup, Pcs, RestartPcs
  <2>2. CASE RestartSpec(t)
    <3>1. TasksTypeOK'
      <4>1. CASE Reply(t)
        BY <4>1, <1>x
      <4>2. ASSUME pc[t] = "rspec",
                   pc' = [pc EXCEPT ![t] = "rread"],
                   job' = [job EXCEPT ![t].name = name[target[t]],
                                      ![t].timed = timeout[target[t]]],
                   target' = target
            PROVE TasksTypeOK'
        <5>1. target[t] \in Ids
          BY <4>2 DEF TargetInv
        <5>2. name[target[t]] \in Names \cup {NoName} /\ timeout[target[t]] \in BOOLEAN
          BY <5>1 DEF StoreTypeOK
        <5>3. "rread" \in Pcs
          BY DEF Pcs, RestartPcs
        <5> QED
          BY <4>2, <5>2, <5>3, JobUpdates DEF TasksTypeOK
      <4> QED
        BY <2>2, <4>1, <4>2 DEF RestartSpec
    <3> QED
      BY <2>2, <3>1, <1>u DEF RestartSpec
  <2>3. CASE RestartRead(t)
    <3>1. "check" \in Conts /\ "check" \in Pcs /\ "stop" \in Pcs
      BY DEF Conts, Pcs, SpawnPcs, StopPcs
    <3>2. TasksTypeOK'
      <4>1. CASE Goto(t, "check")
        BY <4>1, <3>1, <1>y
      <4>2. CASE /\ pc' = [pc EXCEPT ![t] = "stop"]
                 /\ job' = [job EXCEPT ![t].cont = "check"]
                 /\ UNCHANGED target
        BY <4>2, <3>1, JobUpdates DEF TasksTypeOK
      <4> QED
        BY <2>3, <4>1, <4>2 DEF RestartRead
    <3> QED
      BY <2>3, <3>2, <1>u DEF RestartRead
  <2> QED
    BY <1>4, <2>1, <2>2, <2>3 DEF RestartStep
<1>5. ASSUME NEW t \in Tasks, WaitStep(t) PROVE TypeOK'
  <2> USE <1>u, <1>w, <1>x, <1>y DEF Pcs, WaitPcs
  <2>1. CASE WaitLookup(t)
    BY <2>1 DEF WaitLookup
  <2>2. CASE WaitRead(t)
    BY <2>2 DEF WaitRead
  <2>3. CASE WaitSubscribe(t)
    BY <2>3 DEF WaitSubscribe
  <2>4. CASE WaitFinished(t) \/ WaitReturn(t)
    BY <2>4 DEF WaitFinished, WaitReturn
  <2> QED
    BY <1>5, <2>1, <2>2, <2>3, <2>4 DEF WaitStep
<1>6. ASSUME NEW t \in Tasks, TimeoutStep(t) PROVE TypeOK'
  <2> USE DEF Pcs, TimeoutPcs
  <2>1. CASE TimeoutLookup(t)
    BY <2>1, <1>u, <1>w DEF TimeoutLookup
  <2>2. CASE TimeoutStore(t)
    <3>1. TasksTypeOK'
      BY <2>2, <1>x, <1>y DEF TimeoutStore
    <3>2. StoreTypeOK'
      BY <2>2, <1>0, <1>s, StoreTypes DEF TimeoutStore
    <3> QED
      BY <2>2, <3>1, <3>2, <1>g, <1>d, <1>h DEF TimeoutStore
  <2>3. CASE TimeoutState(t)
    BY <2>3, <1>s, <1>g, <1>h, <1>x, StateTypes DEF TimeoutState
  <2> QED
    BY <1>6, <2>1, <2>2, <2>3 DEF TimeoutStep
<1>7. ASSUME NEW t \in Tasks, StoreError(t) PROVE TypeOK'
  BY <1>7, <1>u, <1>x DEF StoreError
<1>8. ASSUME NEW t \in Tasks, NEW op \in Requests, Receive(t, op) PROVE TypeOK'
  <2>1. job' \in [Tasks -> Jobs]
    <3>0. ASSUME NEW sel \in Names \cup {NoName} \cup Ids, NEW n \in Names \cup {NoName},
                 NEW timed \in BOOLEAN, job' = [job EXCEPT ![t] = NewJob(op, sel, n, timed)]
          PROVE  job' \in [Tasks -> Jobs]
      <4>1. NewJob(op, sel, n, timed) \in Jobs
        BY NewJobType, DaemonAssumption
      <4> QED
        BY <3>0, <4>1 DEF TasksTypeOK
    <3>1. CASE \E n \in Spawnable, timed \in Timeouts :
                 job' = [job EXCEPT ![t] = NewJob(op, NoName, n, timed)]
      BY <3>0, <3>1, DaemonAssumption
    <3>2. CASE \E sel \in Selectors, timed \in BOOLEAN :
                 job' = [job EXCEPT ![t] = NewJob(op, sel, NoName, timed)]
      BY <3>0, <3>2, DaemonAssumption
    <3> QED
      BY <1>8, <3>1, <3>2 DEF Receive
  <2>2. FirstPc(op) \in Pcs
    BY DaemonAssumption DEF FirstPc, Kinds, Pcs, SpawnPcs, StopPcs, ReplacePcs, RestartPcs,
                            WaitPcs, TimeoutPcs
  <2> QED
    BY <1>8, <2>1, <2>2, <1>u DEF Receive, TasksTypeOK
<1>9. ASSUME NEW i \in Ids, FireTimer(i) \/ OrphanEnds(i) \/ FireStep(i) PROVE TypeOK'
  <2> USE DEF HostTypeOK, hostVars, FireStates, Phases, Outcomes
  <2>1. CASE FireTimer(i)
    BY <2>1, <1>s, <1>g, <1>t DEF FireTimer, StateTypeOK
  <2>2. CASE FireMark(i)
    BY <2>2, <1>s, <1>g, <1>d, <1>t, StoreTypes DEF FireMark
  <2>3. CASE FireFinish(i)
    BY <2>3, <1>s, <1>g, <1>t, StateTypes DEF FireFinish, FirstPhase
  <2>4. CASE FireEscalate(i)
    BY <2>4, <1>s, <1>d, <1>t, GroupTypes DEF FireEscalate
  <2>5. CASE OrphanEnds(i)
    BY <2>5, <1>s, <1>g, <1>t DEF OrphanEnds, StateTypeOK
  <2> QED
    BY <1>9, <2>1, <2>2, <2>3, <2>4, <2>5 DEF FireStep
<1>10. ASSUME NEW i \in Ids, ReaperStep(i) PROVE TypeOK'
  <2> USE DEF HostTypeOK, hostVars, ReaperStates
  <2>1. CASE Reap(i)
    BY <2>1, <1>s, <1>d, <1>t, GroupTypes DEF Reap
  <2>2. CASE ReaperMark(i)
    BY <2>2, <1>s, <1>g, <1>d, <1>t, StoreTypes DEF ReaperMark
  <2>3. CASE ReaperFinish(i)
    BY <2>3, <1>s, <1>g, <1>t, StateTypes DEF ReaperFinish
  <2> QED
    BY <1>10, <2>1, <2>2, <2>3 DEF ReaperStep
<1>11. ASSUME NEW i \in Ids, OSStep(i) PROVE TypeOK'
  BY <1>11, <1>s, <1>d, <1>t, <1>h, GroupTypes DEF OSStep, GroupMoves, InitReaps, Recycle
<1>12. CASE Crash
  BY <1>12, <1>s, <1>g, NoJobType
     DEF Crash, StateTypeOK, TasksTypeOK, HostTypeOK, Pcs, ReaperStates, FireStates
<1>13. CASE Boot
  BY <1>13, <1>g, <1>d, <1>t, StoreTypes DEF Boot, HostTypeOK
<1>14. CASE UNCHANGED vars
  BY <1>14, <1>s, <1>g, <1>d, <1>t, <1>h DEF vars
<1> QED
  BY <1>1, <1>2, <1>3, <1>4, <1>5, <1>6, <1>7, <1>8, <1>9, <1>10, <1>11, <1>12, <1>13, <1>14
     DEF Next, TaskStep

-----------------------------------------------------------------------------
(* The rest of the invariant: definitions the proofs share. *)

SpawningPcs == {"fork", "failed", "activate", "insert"}

TargetPcs ==
    SpawningPcs \cup Phases
        \cup {"sread", "stoken", "slive", "markkilled", "rspec", "rread",
              "wread", "wsub", "wwait", "wfinal", "tstore", "tstate"}

\* What a stop that concludes on i knows.
Concludes(i) == \/ pid[i] /\ ~Reachable(i)
                \/ ~pid[i] /\ status[i] \in {"lost", "killed"}

\* Handler t does not move, or moves to where the invariant asks nothing of
\* it but what is known.
Harmless(t) ==
    \/ pc'[t] = pc[t] /\ target'[t] = target[t] /\ job'[t].name = job[t].name
    \/ /\ up
       /\ pc'[t] \notin SpawningPcs
       /\ pc'[t] \in TargetPcs => target'[t] \in Ids
       /\ pc'[t] = "stoken" => status[target'[t]] \in {"lost", "killed"}
       /\ pc'[t] \in Phases => pid[target'[t]]
       /\ pc'[t] = "markkilled" => Concludes(target'[t])
       /\ pc'[t] = "reserve" =>
            \A i \in Ids : name[i] = job'[t].name /\ status[i] = "lost" /\ pid[i]
                             /\ job'[t].name # NoName => leader[i] # "running"

\* The leader of i goes on its way or stays, and comes no nearer.
Ages(i) == /\ \/ leader'[i] = leader[i]
              \/ leader[i] = "running" /\ leader'[i] = "zombie"
              \/ leader[i] = "zombie" /\ leader'[i] = "reaped"
           /\ Reachable(i)' => Reachable(i)

Quiet == /\ UNCHANGED <<nrows, status, name, pid, live, reaper, up>>
         /\ \A i \in Ids : Ages(i) /\ (fire'[i] # "idle" => fire[i] # "idle")
         /\ \A t \in Tasks : Harmless(t)

Rest == TargetInv /\ OwnersInv /\ FreshInv /\ PidInv /\ VerdictInv /\ StopInv /\ NamesInv /\ DownInv

\* Any step that is Quiet preserves every part of the invariant but the
\* types.
LEMMA QuietStep == TypeOK /\ Rest /\ Quiet => Rest'
<1> SUFFICES ASSUME TypeOK, Rest, Quiet PROVE Rest'
  OBVIOUS
<1> USE DEF Rest, Quiet
<1>1. TargetInv'
  BY DEF TargetInv, Harmless, TargetPcs, SpawningPcs, Phases
<1>2. OwnersInv'
  BY DEF OwnersInv, Owns, Spawning, Harmless, SpawningPcs, Ages
<1>3. FreshInv'
  BY DEF FreshInv, Ages
<1>4. PidInv'
  BY DEF PidInv, Ages
<1>5. VerdictInv'
  BY DEF VerdictInv, Ages
<1>6. StopInv'
  BY DEF StopInv, Harmless, Concludes, Ages, TargetPcs
<1>7. NamesInv'
  BY DEF NamesInv, Holds, Harmless, Ages
<1>8. DownInv'
  BY DEF DownInv, Harmless
<1> QED
  BY <1>1, <1>2, <1>3, <1>4, <1>5, <1>6, <1>7, <1>8

-----------------------------------------------------------------------------
(* The steps that are quiet. *)

\* A step of handler t that only moves t, or ends its request, is Quiet if
\* the place it moves to is harmless.
LEMMA ReadQuiet ==
    ASSUME TypeOK, Rest, NEW t \in Tasks,
           UNCHANGED <<nrows, status, name, pid, leader, foreign, live, reaper, fire, up>>,
           \A u \in Tasks : Harmless(u)
    PROVE  Quiet
  BY DEF Quiet, Ages, Reachable

\* A handler that is not idle runs in a daemon that is up, and one that is
\* past its lookup has a target.
LEMMA Running ==
    ASSUME Rest, NEW t \in Tasks, pc[t] # "idle"
    PROVE  up /\ (pc[t] \in TargetPcs => target[t] \in Ids)
  BY DEF Rest, DownInv, TargetInv, TargetPcs, SpawningPcs

\* To answer is harmless: an idle handler relies on nothing.
LEMMA ReplyHarmless ==
    ASSUME TypeOK, Rest, NEW t \in Tasks, pc[t] # "idle", Reply(t)
    PROVE  \A u \in Tasks : Harmless(u)
  BY Running DEF TypeOK, TasksTypeOK, Reply, Harmless, TargetPcs, SpawningPcs, Phases

\* Going on to a step that asks for a target, at most.
Plain == Pcs \ (SpawningPcs \cup Phases \cup {"stoken", "markkilled", "reserve"})

\* To go on is harmless where the next step relies on no more than a target.
LEMMA GotoHarmless ==
    ASSUME TypeOK, Rest, NEW t \in Tasks, pc[t] # "idle", NEW to \in Plain, Goto(t, to),
           to \in TargetPcs => target[t] \in Ids
    PROVE  \A u \in Tasks : Harmless(u)
  BY Running DEF TypeOK, TasksTypeOK, Goto, Harmless, Plain

\* So is to go on with the generation a selector resolves to.
LEMMA ResolveHarmless ==
    ASSUME TypeOK, Rest, NEW t \in Tasks, pc[t] # "idle", NEW to \in Plain, Resolve(t, to)
    PROVE  \A u \in Tasks : Harmless(u)
<1>1. CASE Reply(t)
  BY <1>1, ReplyHarmless
<1>2. ASSUME NEW i \in Ids, GotoOn(t, i, to) PROVE \A u \in Tasks : Harmless(u)
  BY <1>2, Running DEF TypeOK, TasksTypeOK, GotoOn, Harmless, Plain
<1> QED
  BY <1>1, <1>2 DEF Resolve

\* Going on to signal: the pid must be known.
LEMMA SignalHarmless ==
    ASSUME TypeOK, Rest, NEW t \in Tasks, pc[t] # "idle", Signal(t),
           target[t] \in Ids, pid[target[t]]
    PROVE  \A u \in Tasks : Harmless(u)
  BY Running DEF TypeOK, TasksTypeOK, Signal, Goto, Harmless, FirstPhase, Phases, TargetPcs, SpawningPcs

\* A step of kill_group_confirmed can only age the leader it signals.
LEMMA KillAges == ASSUME GroupsTypeOK, NEW i, KillGroup(i) PROVE \A j \in Ids : Ages(j)
  BY DEF GroupsTypeOK, KillGroup, Ages, Reachable, groupVars

\* Nor can any other phase of it bring a process back.
LEMMA EscalateAges ==
    ASSUME GroupsTypeOK, NEW i, NEW phase, NEW next, EscalateStep(i, phase, next)
    PROVE  \A j \in Ids : Ages(j)
  BY KillAges DEF EscalateStep, groupVars, Ages, Reachable

\* Every step of a handler is Quiet, but the claim, the spawn and the final
\* mark of a stop.
LEMMA TaskQuiet ==
    ASSUME TypeOK, Rest, NEW t \in Tasks,
           \/ Check(t)
           \/ Stop(t) \/ StopRead(t) \/ StopToken(t) \/ StopLive(t) \/ StopEscalate(t)
           \/ ReplaceStep(t) \/ RestartStep(t) \/ WaitStep(t) \/ TimeoutStep(t)
           \/ StoreError(t)
    PROVE  Quiet
<1> USE DEF UnchangedButTask, storeVars, groupVars, stateVars, hostVars
<1> DEFINE Still == UNCHANGED <<nrows, status, name, pid, leader, foreign, live, reaper, fire, up>>
<1>1. CASE Check(t)
  <2>1. CASE Reply(t)
    BY <1>1, <2>1, ReplyHarmless, ReadQuiet DEF Check
  <2>2. CASE ~LostButAlive(job[t].name) /\ Goto(t, "reserve")
    <3>1. \A u \in Tasks : Harmless(u)
      BY <1>1, <2>2, Running DEF Check, TypeOK, TasksTypeOK, Goto, Harmless, TargetPcs, SpawningPcs,
         Phases, LostButAlive, LostGenerations, IsAlive
    <3> QED
      BY <1>1, <3>1, ReadQuiet DEF Check
  <2> QED
    BY <1>1, <2>1, <2>2 DEF Check
<1>2. CASE Stop(t)
  BY <1>2, ResolveHarmless, ReadQuiet DEF Stop, Plain, Pcs, StopPcs, SpawningPcs, Phases
<1>3. CASE StopRead(t)
  <2>1. target[t] \in Ids
    BY <1>3, Running DEF StopRead, TargetPcs
  <2>2. CASE status[target[t]] = "lost" /\ Goto(t, "stoken")
    <3>1. \A u \in Tasks : Harmless(u)
      BY <1>3, <2>1, <2>2, Running DEF StopRead, TypeOK, TasksTypeOK, Goto, Harmless, TargetPcs,
         SpawningPcs, Phases
    <3> QED
      BY <1>3, <3>1, ReadQuiet DEF StopRead
  <2> QED
    BY <1>3, <2>1, <2>2, ReplyHarmless, GotoHarmless, SignalHarmless, ReadQuiet
       DEF StopRead, Plain, Pcs, StopPcs, SpawningPcs, Phases
<1>4. CASE StopToken(t)
  <2>1. target[t] \in Ids
    BY <1>4, Running DEF StopToken, TargetPcs
  <2>2. CASE IsAlive(target[t])
    BY <1>4, <2>1, <2>2, SignalHarmless, ReadQuiet DEF StopToken, IsAlive
  <2>3. CASE ~IsAlive(target[t])
    <3>1. leader[target[t]] \in LeaderStates /\ (pid[target[t]] => leader[target[t]] # "none")
      BY <2>1 DEF Rest, PidInv, TypeOK, GroupsTypeOK
    <3>2. Concludes(target[t])
      BY <1>4, <2>1, <2>3, <3>1 DEF StopToken, Rest, StopInv, IsAlive, Concludes, Reachable, LeaderStates
    <3>3. \A u \in Tasks : Harmless(u)
      BY <1>4, <2>1, <2>3, <3>2, Running DEF StopToken, TypeOK, TasksTypeOK, Goto, Harmless,
         TargetPcs, SpawningPcs, Phases
    <3> QED
      BY <1>4, <3>3, ReadQuiet DEF StopToken
  <2> QED
    BY <2>2, <2>3
<1>5. CASE StopLive(t)
  <2>1. target[t] \in Ids
    BY <1>5, Running DEF StopLive, TargetPcs
  <2> QED
    BY <1>5, <2>1, ReplyHarmless, SignalHarmless, ReadQuiet DEF StopLive, Rest, PidInv
<1>6. CASE StopEscalate(t)
  <2>1. target[t] \in Ids /\ pid[target[t]] /\ up
    BY <1>6, Running DEF StopEscalate, TargetPcs, Rest, StopInv, Phases
  <2>2. PICK next \in Phases \cup Outcomes :
             /\ EscalateStep(target[t], pc[t], next)
             /\ \/ next = "dead" /\ Goto(t, "markkilled")
                \/ next = "gaveup" /\ Reply(t)
                \/ next \in Phases /\ Goto(t, next)
    BY <1>6 DEF StopEscalate
  <2>3. \A i \in Ids : Ages(i)
    BY <2>1, <2>2, EscalateAges DEF TypeOK
  <2>4. next = "dead" => Concludes(target[t])
    BY <2>1, <2>2 DEF EscalateStep, GroupAlive, Signalable, Survives, Reachable, Concludes, Phases
  <2>5. \A u \in Tasks : Harmless(u)
    <3>1. CASE Reply(t)
      BY <1>6, <3>1, ReplyHarmless DEF StopEscalate, Phases
    <3>2. CASE next = "dead" /\ Goto(t, "markkilled")
      BY <2>1, <2>4, <3>2 DEF TypeOK, TasksTypeOK, Goto, Harmless, TargetPcs, SpawningPcs, Phases
    <3>3. CASE next \in Phases /\ Goto(t, next)
      BY <2>1, <3>3 DEF TypeOK, TasksTypeOK, Goto, Harmless, TargetPcs, SpawningPcs, Phases
    <3> QED
      BY <2>2, <3>1, <3>2, <3>3
  <2> QED
    BY <1>6, <2>3, <2>5 DEF StopEscalate, Quiet
<1>7. CASE WaitStep(t)
  <2> USE ReplyHarmless, GotoHarmless, ResolveHarmless, Running, ReadQuiet
      DEF Plain, Pcs, WaitPcs, SpawningPcs, Phases, TargetPcs
  <2>1. CASE WaitLookup(t)
    BY <2>1 DEF WaitLookup
  <2>2. CASE WaitRead(t)
    BY <2>2 DEF WaitRead
  <2>3. CASE WaitSubscribe(t)
    BY <2>3 DEF WaitSubscribe
  <2>4. CASE WaitFinished(t) \/ WaitReturn(t)
    BY <2>4 DEF WaitFinished, WaitReturn
  <2> QED
    BY <1>7, <2>1, <2>2, <2>3, <2>4 DEF WaitStep
<1>8. CASE ReplaceStep(t)
  <2>1. CASE FindHolder(t)
    <3>1. \A u \in Tasks : Harmless(u)
      <4>1. CASE Goto(t, "gens")
        BY <2>1, <4>1, GotoHarmless
           DEF FindHolder, Plain, Pcs, ReplacePcs, SpawningPcs, TargetPcs, Phases
      <4>2. ASSUME NEW i \in Ids, pc' = [pc EXCEPT ![t] = "sread"],
                   target' = [target EXCEPT ![t] = i], job' = [job EXCEPT ![t].cont = "gens"]
            PROVE  \A u \in Tasks : Harmless(u)
        BY <2>1, <4>2, Running
           DEF FindHolder, TypeOK, TasksTypeOK, Harmless, SpawningPcs, Phases, Jobs
      <4> QED
        BY <2>1, <4>1, <4>2 DEF FindHolder
    <3> QED
      BY <2>1, <3>1, ReadQuiet DEF FindHolder
  <2>2. CASE ListGenerations(t)
    <3>1. \A u \in Tasks : Harmless(u)
      BY <2>2, Running DEF ListGenerations, TypeOK, TasksTypeOK, Harmless, SpawningPcs, TargetPcs,
         Phases, Jobs
    <3> QED
      BY <2>2, <3>1, ReadQuiet DEF ListGenerations
  <2>3. CASE NextGeneration(t)
    <3>1. \A u \in Tasks : Harmless(u)
      <4>1. CASE Goto(t, "check")
        BY <2>3, <4>1, GotoHarmless
           DEF NextGeneration, Plain, Pcs, SpawnPcs, SpawningPcs, TargetPcs, Phases
      <4>2. ASSUME NEW i \in job[t].todo,
                   job' = [job EXCEPT ![t].todo = job[t].todo \ {i}],
                   \/ /\ pc' = [pc EXCEPT ![t] = "sread"]
                      /\ target' = [target EXCEPT ![t] = i]
                   \/ UNCHANGED <<pc, target>>
            PROVE  \A u \in Tasks : Harmless(u)
        <5>1. i \in Ids
          BY <4>2 DEF TypeOK, TasksTypeOK, Jobs
        <5>2. \A u \in Tasks : job'[u].name = job[u].name /\ (u # t => job'[u] = job[u])
          BY <4>2 DEF TypeOK, TasksTypeOK, Jobs
        <5> QED
          BY <2>3, <4>2, <5>1, <5>2, Running
             DEF NextGeneration, TypeOK, TasksTypeOK, Harmless, SpawningPcs, Phases
      <4> QED
        BY <2>3, <4>1, <4>2 DEF NextGeneration
    <3> QED
      BY <2>3, <3>1, ReadQuiet DEF NextGeneration
  <2> QED
    BY <1>8, <2>1, <2>2, <2>3 DEF ReplaceStep
<1>9. CASE RestartStep(t)
  <2> USE DEF Plain, Pcs, RestartPcs, StopPcs, SpawnPcs, SpawningPcs, TargetPcs, Phases
  <2>1. CASE RestartLookup(t)
    BY <2>1, ResolveHarmless, ReadQuiet DEF RestartLookup
  <2>2. CASE RestartSpec(t)
    <3>1. \A u \in Tasks : Harmless(u)
      <4>1. CASE Reply(t)
        BY <2>2, <4>1, ReplyHarmless DEF RestartSpec
      <4>2. CASE /\ pc' = [pc EXCEPT ![t] = "rread"]
                 /\ job' = [job EXCEPT ![t].name = name[target[t]],
                                       ![t].timed = timeout[target[t]]]
                 /\ UNCHANGED target
        <5>1. \A u \in Tasks : u # t => job'[u] = job[u]
          BY <4>2 DEF TypeOK, TasksTypeOK
        <5> QED
          BY <2>2, <4>2, <5>1, Running DEF RestartSpec, TypeOK, TasksTypeOK, Harmless
      <4> QED
        BY <2>2, <4>1, <4>2 DEF RestartSpec
    <3> QED
      BY <2>2, <3>1, ReadQuiet DEF RestartSpec
  <2>3. CASE RestartRead(t)
    <3>1. \A u \in Tasks : Harmless(u)
      <4>1. CASE Goto(t, "check")
        BY <2>3, <4>1, GotoHarmless DEF RestartRead
      <4>2. CASE /\ pc' = [pc EXCEPT ![t] = "stop"]
                 /\ job' = [job EXCEPT ![t].cont = "check"]
                 /\ UNCHANGED target
        <5>1. \A u \in Tasks : u # t => job'[u] = job[u]
          BY <4>2 DEF TypeOK, TasksTypeOK
        <5> QED
          BY <2>3, <4>2, <5>1, Running DEF RestartRead, TypeOK, TasksTypeOK, Harmless
      <4> QED
        BY <2>3, <4>1, <4>2 DEF RestartRead
    <3> QED
      BY <2>3, <3>1, ReadQuiet DEF RestartRead
  <2> QED
    BY <1>9, <2>1, <2>2, <2>3 DEF RestartStep
<1>10. CASE TimeoutStep(t)
  <2> USE DEF Plain, Pcs, TimeoutPcs, SpawningPcs, TargetPcs, Phases
  <2>1. CASE TimeoutLookup(t)
    BY <2>1, ResolveHarmless, ReadQuiet DEF TimeoutLookup
  <2>2. CASE TimeoutStore(t)
    <3>1. target[t] \in Ids
      BY <2>2, Running DEF TimeoutStore
    <3> QED
      BY <2>2, <3>1, ReplyHarmless, GotoHarmless, ReadQuiet DEF TimeoutStore, StoreSetTimeout
  <2>3. CASE TimeoutState(t)
    BY <2>3, ReplyHarmless, ReadQuiet DEF TimeoutState, StateSetTimeout
  <2> QED
    BY <1>10, <2>1, <2>2, <2>3 DEF TimeoutStep
<1>11. CASE StoreError(t)
  BY <1>11, ReplyHarmless, ReadQuiet DEF StoreError
<1> QED
  BY <1>1, <1>2, <1>3, <1>4, <1>5, <1>6, <1>7, <1>8, <1>9, <1>10, <1>11

\* So is every step of the escalation of a timeout and of the operating
\* system, and the end of an orphaned timeout task.
LEMMA OtherQuiet ==
    ASSUME TypeOK, Rest,
           \/ \E t \in Tasks, op \in Requests : Receive(t, op)
           \/ \E i \in Ids : FireEscalate(i) \/ OrphanEnds(i) \/ OSStep(i)
           \/ UNCHANGED vars
    PROVE  Quiet
<1> USE DEF storeVars, groupVars, stateVars, hostVars, taskVars
<1>1. ASSUME NEW t \in Tasks, NEW op \in Requests, Receive(t, op) PROVE Quiet
  <2>1. FirstPc(op) \in {"check", "find", "stop", "rlookup", "wlookup", "tlookup"}
    BY DaemonAssumption DEF FirstPc, Kinds
  <2>2. \A u \in Tasks : u # t => job'[u] = job[u]
    BY <1>1 DEF Receive, TypeOK, TasksTypeOK
  <2>3. \A u \in Tasks : Harmless(u)
    BY <1>1, <2>1, <2>2 DEF Receive, TypeOK, TasksTypeOK, Harmless, TargetPcs, SpawningPcs, Phases
  <2> QED
    BY <1>1, <2>3, ReadQuiet DEF Receive, UnchangedButTask
<1>2. ASSUME NEW i \in Ids, FireEscalate(i) PROVE Quiet
  <2>1. \A j \in Ids : Ages(j)
    BY <1>2, EscalateAges DEF FireEscalate, TypeOK
  <2>2. \A j \in Ids : fire'[j] # "idle" => fire[j] # "idle"
    BY <1>2 DEF FireEscalate, TypeOK, HostTypeOK, Phases
  <2> QED
    BY <1>2, <2>1, <2>2 DEF FireEscalate, Quiet, Harmless
<1>3. ASSUME NEW i \in Ids, OSStep(i) PROVE Quiet
  <2>1. \A j \in Ids : Ages(j)
    BY <1>3 DEF OSStep, GroupMoves, LeaderExits, LeaderForks, OthersExit, ChangesUser, InitReaps,
                ReapLeader, Recycle, RecyclePid, TypeOK, GroupsTypeOK, Ages, Reachable
  <2> QED
    BY <1>3, <2>1 DEF OSStep, GroupMoves, InitReaps, Recycle, Quiet, Harmless
<1>4. CASE UNCHANGED vars
  BY <1>4 DEF vars, Quiet, Harmless, Ages, Reachable
<1>5. ASSUME NEW i \in Ids, OrphanEnds(i) PROVE Quiet
  BY <1>5 DEF OrphanEnds, Quiet, Harmless, Ages, Reachable
<1> QED
  BY <1>1, <1>2, <1>3, <1>4, <1>5

-----------------------------------------------------------------------------
(* The steps that are not. *)

\* reserve_process hands out a fresh id and a free name: the new row has no
\* rival, visible or lost.
LEMMA ReserveStep == ASSUME TypeOK, Rest, NEW t \in Tasks, Reserve(t) PROVE Rest'
<1>1. CASE Reply(t) /\ UNCHANGED storeVars
  BY <1>1, ReplyHarmless, ReadQuiet, QuietStep
     DEF Reserve, storeVars, groupVars, stateVars, hostVars
<1>2. ASSUME NEW i \in Ids, ReserveProcess(job[t].name, i), GotoOn(t, i, "fork")
      PROVE  Rest'
  <2>0. /\ i > nrows /\ nrows' = i /\ nrows \in Nat /\ i \in Nat
        /\ status[i] = "absent" /\ ~pid[i] /\ leader[i] = "none"
        /\ ~live[i] /\ reaper[i] = "none" /\ fire[i] = "idle"
    BY <1>2, NamesAssumption DEF ReserveProcess, Rest, FreshInv, TypeOK, StoreTypeOK, Ids
  <2>a. up
    BY Running DEF Reserve
  <2>b. \A j \in Ids : name[j] = job[t].name /\ job[t].name # NoName => ~Holds(j)
    BY <1>2 DEF Reserve, ReserveProcess, NameTaken, RunningAs, Holds, Rest, NamesInv
  <2>c. /\ status'[i] = "running" /\ \A j \in Ids : j # i => status'[j] = status[j]
        /\ i = nrows + 1 /\ UNCHANGED <<pid, leader, foreign, live, reaper, fire>>
    BY <1>2 DEF Reserve, ReserveProcess, TypeOK, StoreTypeOK, groupVars, stateVars, hostVars, GotoOn
  <2>5. VerdictInv'
    <3>1. VerdictInv
      BY DEF Rest
    <3> QED
      BY <2>0, <2>c, <3>1 DEF VerdictInv, Reachable, Ids
  <2> USE <1>2, <2>0
      DEF Rest, TypeOK, TasksTypeOK, StoreTypeOK, Reserve, ReserveProcess, GotoOn, groupVars, stateVars, hostVars
  <2>1. TargetInv'
    BY DEF TargetInv, Phases
  <2>2. OwnersInv'
    BY DEF OwnersInv, Owns, Spawning
  <2>3. FreshInv'
    BY DEF FreshInv
  <2>4. PidInv'
    BY DEF PidInv
  <2>6. StopInv'
    BY DEF StopInv, Phases, Reachable
  <2>7. NamesInv'
    <3>1. \A j \in Ids : j # i => Holds(j)' = Holds(j) /\ name'[j] = name[j]
      BY DEF Holds
    <3>2. name'[i] = job[t].name /\ status'[i] = "running"
      OBVIOUS
    <3>3. ASSUME NEW j \in Ids, NEW k \in Ids, j # k, name'[j] = name'[k], name'[j] # NoName
          PROVE  ~(Holds(j)' /\ Holds(k)')
      <4>1. CASE j # i /\ k # i
        BY <3>1, <3>3, <4>1 DEF NamesInv
      <4>2. CASE j = i \/ k = i
        BY <2>b, <3>1, <3>2, <3>3, <4>2
      <4> QED
        BY <4>1, <4>2
    <3>4. ASSUME NEW u \in Tasks, NEW j \in Ids, pc'[u] = "reserve", job'[u].name # NoName,
                 name'[j] = job'[u].name, status'[j] = "lost", pid'[j]
          PROVE  leader'[j] # "running"
      BY <3>2, <3>4 DEF NamesInv
    <3> QED
      BY <3>3, <3>4 DEF NamesInv
  <2>8. DownInv'
    BY <2>a DEF DownInv
  <2> QED
    BY <2>1, <2>2, <2>3, <2>4, <2>5, <2>6, <2>7, <2>8
<1> QED
  BY <1>1, <1>2 DEF Reserve

\* What a spawning handler knows of the row it claimed, by OwnersInv.
LEMMA Claimed ==
    ASSUME TypeOK, Rest, NEW t \in Tasks, pc[t] \in SpawningPcs
    PROVE  /\ up /\ target[t] \in Ids /\ target[t] <= nrows
           /\ Owns(t, target[t])
           /\ \A u \in Tasks : u # t => ~Spawning(u, target[t])
<1>1. up /\ target[t] \in Ids
  BY Running DEF SpawningPcs, TargetPcs
<1>2. Spawning(t, target[t])
  BY DEF Spawning, SpawningPcs
<1>3. Owns(t, target[t]) /\ \A u \in Tasks : u # t => ~Spawning(u, target[t])
  BY <1>1, <1>2 DEF Rest, OwnersInv
<1>4. target[t] <= nrows
  <2>1. status[target[t]] # "absent"
    BY <1>3 DEF Owns
  <2> QED
    BY <1>1, <2>1, NamesAssumption DEF Rest, FreshInv, TypeOK, StoreTypeOK, Ids
<1> QED
  BY <1>1, <1>3, <1>4

\* The spawned child belongs to a row only this handler works on.
LEMMA ForkStep == ASSUME TypeOK, Rest, NEW t \in Tasks, ForkChild(t) PROVE Rest'
<1> DEFINE i == target[t]
<1>0. /\ i \in Ids /\ up /\ i <= nrows /\ pc[t] = "fork"
      /\ \A u \in Tasks : u # t => ~Spawning(u, i)
      /\ status[i] = "running" /\ ~live[i] /\ fire[i] = "idle"
      /\ leader[i] = "none" /\ ~pid[i] /\ reaper[i] = "none"
  BY Claimed DEF ForkChild, SpawningPcs, Owns
<1> USE <1>0 DEF Rest, TypeOK, TasksTypeOK, GroupsTypeOK, HostTypeOK, ForkChild, Goto, storeVars, stateVars, hostVars
<1>1. CASE /\ Fork(i)
           /\ reaper' = [reaper EXCEPT ![i] = "held"]
           /\ Goto(t, "activate")
  <2> HIDE DEF i
  <2>0. /\ leader'[i] = "running" /\ reaper'[i] = "held" /\ pc'[t] = "activate"
        /\ target'[t] = i
        /\ \A j \in Ids : j # i => /\ leader'[j] = leader[j] /\ foreign'[j] = foreign[j]
                                 /\ reaper'[j] = reaper[j]
        /\ \A u \in Tasks : u # t => pc'[u] = pc[u]
        /\ UNCHANGED <<nrows, status, name, pid, live, fire, up, target, job>>
    BY <1>1 DEF Fork, i
  <2> USE <2>0
  <2>1. TargetInv'
    BY DEF TargetInv, i
  <2>2. OwnersInv'
    BY DEF OwnersInv, Owns, Spawning
  <2>3. FreshInv'
    BY DEF FreshInv
  <2>4. PidInv'
    BY DEF PidInv
  <2>5. VerdictInv'
    BY DEF VerdictInv, Reachable
  <2>6. StopInv'
    BY DEF StopInv, Phases, Reachable
  <2>7. NamesInv'
    BY DEF NamesInv, Holds
  <2>8. DownInv'
    BY DEF DownInv
  <2> QED
    BY <2>1, <2>2, <2>3, <2>4, <2>5, <2>6, <2>7, <2>8
<1>2. CASE Goto(t, "failed") /\ UNCHANGED <<groupVars, reaper>>
  <2> USE <1>2 DEF groupVars
  <2>1. TargetInv'
    BY DEF TargetInv, Phases
  <2>2. OwnersInv'
    BY DEF OwnersInv, Owns, Spawning
  <2>3. FreshInv'
    BY DEF FreshInv
  <2>4. PidInv'
    BY DEF PidInv
  <2>5. VerdictInv'
    BY DEF VerdictInv, Reachable
  <2>6. StopInv'
    BY DEF StopInv, Phases, Reachable
  <2>7. NamesInv'
    BY DEF NamesInv, Holds
  <2>8. DownInv'
    BY DEF DownInv
  <2> QED
    BY <2>1, <2>2, <2>3, <2>4, <2>5, <2>6, <2>7, <2>8
<1> QED
  BY <1>1, <1>2

\* A failed spawn is recorded of a row that never had a process.
LEMMA SpawnFailedStep == ASSUME TypeOK, Rest, NEW t \in Tasks, SpawnFailed(t) PROVE Rest'
<1> DEFINE i == target[t]
<1>0. /\ i \in Ids /\ up /\ i <= nrows /\ pc[t] = "failed"
      /\ \A u \in Tasks : u # t => ~Spawning(u, i)
      /\ status[i] = "running" /\ ~live[i] /\ fire[i] = "idle"
      /\ leader[i] = "none" /\ ~pid[i] /\ reaper[i] = "none"
  BY Claimed DEF SpawnFailed, SpawningPcs, Owns
<1> USE DEF storeVars, groupVars, stateVars, hostVars
<1>1. CASE UNCHANGED storeVars
  BY <1>0, <1>1, ReplyHarmless, ReadQuiet, QuietStep DEF SpawnFailed
<1>2. CASE MarkSpawnFailed(i)
  <2>0. /\ status'[i] = "failed" /\ pc'[t] = "idle" /\ target'[t] = 0
        /\ \A j \in Ids : j # i => status'[j] = status[j]
        /\ \A u \in Tasks : u # t => pc'[u] = pc[u] /\ target'[u] = target[u] /\ job'[u] = job[u]
        /\ UNCHANGED <<nrows, name, pid, leader, foreign, live, reaper, fire, up>>
    BY <1>0, <1>2 DEF SpawnFailed, MarkSpawnFailed, SetStatus, Reply, TypeOK, StoreTypeOK, TasksTypeOK
  <2> HIDE DEF i
  <2> USE <1>0, <2>0 DEF Rest
  <2>1. TargetInv'
    BY DEF TargetInv, Phases
  <2>2. OwnersInv'
    BY DEF OwnersInv, Owns, Spawning
  <2>3. FreshInv'
    BY DEF FreshInv
  <2>4. PidInv'
    BY DEF PidInv
  <2>5. VerdictInv'
    BY DEF VerdictInv, Reachable
  <2>6. StopInv'
    BY DEF StopInv, Phases, Reachable
  <2>7. NamesInv'
    BY DEF NamesInv, Holds
  <2>8. DownInv'
    BY DEF DownInv
  <2> QED
    BY <2>1, <2>2, <2>3, <2>4, <2>5, <2>6, <2>7, <2>8
<1> QED
  BY <1>1, <1>2 DEF SpawnFailed

\* activate_process records the pid of the child the handler holds.
LEMMA ActivateStep == ASSUME TypeOK, Rest, NEW t \in Tasks, Activate(t) PROVE Rest'
<1> DEFINE i == target[t]
<1>0. /\ i \in Ids /\ up /\ i <= nrows /\ pc[t] = "activate"
      /\ \A u \in Tasks : u # t => ~Spawning(u, i)
      /\ status[i] = "running" /\ ~live[i] /\ fire[i] = "idle"
      /\ leader[i] # "none" /\ ~pid[i] /\ reaper[i] = "held"
  BY Claimed DEF Activate, SpawningPcs, Owns
<1> USE DEF storeVars, groupVars, stateVars, hostVars
<1>1. CASE ActivateProcess(i) /\ Goto(t, "insert") /\ UNCHANGED reaper
  <2>0. /\ pid'[i] /\ pc'[t] = "insert"
        /\ \A j \in Ids : j # i => pid'[j] = pid[j]
        /\ \A u \in Tasks : u # t => pc'[u] = pc[u]
        /\ UNCHANGED <<nrows, status, name, leader, foreign, live, reaper, fire, up, target, job>>
    BY <1>0, <1>1 DEF Activate, ActivateProcess, Goto, TypeOK, StoreTypeOK, TasksTypeOK
  <2>i. target[t] = i
    OBVIOUS
  <2> HIDE DEF i
  <2> USE <1>0, <2>0, <2>i DEF Rest
  <2>1. TargetInv'
    BY DEF TargetInv, Phases
  <2>2. OwnersInv'
    BY DEF OwnersInv, Owns, Spawning
  <2>3. FreshInv'
    BY DEF FreshInv
  <2>4. PidInv'
    BY DEF PidInv
  <2>5. VerdictInv'
    BY DEF VerdictInv, Reachable
  <2>6. StopInv'
    BY DEF StopInv, Phases, Reachable
  <2>7. NamesInv'
    BY DEF NamesInv, Holds
  <2>8. DownInv'
    BY DEF DownInv
  <2> QED
    BY <2>1, <2>2, <2>3, <2>4, <2>5, <2>6, <2>7, <2>8
<1>2. CASE /\ reaper' = [reaper EXCEPT ![i] = "none"] /\ Reply(t)
           /\ ActivateProcess(i) \/ UNCHANGED storeVars
  <2>0. /\ reaper'[i] = "none" /\ pc'[t] = "idle" /\ target'[t] = 0
        /\ \A j \in Ids : j # i => reaper'[j] = reaper[j] /\ pid'[j] = pid[j]
        /\ \A u \in Tasks : u # t => pc'[u] = pc[u] /\ target'[u] = target[u] /\ job'[u] = job[u]
        /\ \A j \in Ids : pid[j] => pid'[j]
        /\ UNCHANGED <<nrows, status, name, leader, foreign, live, fire, up>>
    BY <1>0, <1>2
       DEF Activate, ActivateProcess, Reply, TypeOK, StoreTypeOK, HostTypeOK, TasksTypeOK
  <2> HIDE DEF i
  <2> USE <1>0, <2>0 DEF Rest
  <2>1. TargetInv'
    BY DEF TargetInv, Phases
  <2>2. OwnersInv'
    BY DEF OwnersInv, Owns, Spawning
  <2>3. FreshInv'
    BY DEF FreshInv
  <2>4. PidInv'
    BY DEF PidInv
  <2>5. VerdictInv'
    BY DEF VerdictInv, Reachable
  <2>6. StopInv'
    BY DEF StopInv, Phases, Reachable
  <2>7. NamesInv'
    BY DEF NamesInv, Holds
  <2>8. DownInv'
    BY DEF DownInv
  <2> QED
    BY <2>1, <2>2, <2>3, <2>4, <2>5, <2>6, <2>7, <2>8
<1> QED
  BY <1>1, <1>2 DEF Activate

\* With the entry and the reaper in place the row has its supervisor, even if
\* a stop came first.
LEMMA InsertStep == ASSUME TypeOK, Rest, NEW t \in Tasks, Insert(t) PROVE Rest'
<1> DEFINE i == target[t]
<1>0. /\ i \in Ids /\ up /\ i <= nrows /\ pc[t] = "insert"
      /\ \A u \in Tasks : u # t => ~Spawning(u, i)
      /\ status[i] \in {"running", "killed"} /\ ~live[i] /\ fire[i] = "idle"
      /\ leader[i] # "none" /\ pid[i] /\ reaper[i] = "held"
  BY Claimed DEF Insert, SpawningPcs, Owns
<1>1. /\ reaper'[i] = "waiting" /\ live'[i]
      /\ pc'[t] \in {"idle", "tstore"} /\ (pc'[t] = "tstore" => target'[t] = i)
      /\ \A j \in Ids : j # i => reaper'[j] = reaper[j] /\ live'[j] = live[j]
      /\ \A u \in Tasks : u # t => pc'[u] = pc[u] /\ target'[u] = target[u] /\ job'[u] = job[u]
      /\ UNCHANGED <<nrows, status, name, pid, leader, foreign, fire, up>>
  BY <1>0 DEF Insert, InsertProcess, Reply, Goto, TypeOK, HostTypeOK, StateTypeOK, TasksTypeOK,
              storeVars, groupVars, hostVars
<1> HIDE DEF i
<1> USE <1>0, <1>1 DEF Rest
<1>2. QED
  <2>1. TargetInv'
    BY DEF TargetInv, Phases
  <2>2. OwnersInv'
    BY DEF OwnersInv, Owns, Spawning
  <2>3. FreshInv'
    BY DEF FreshInv
  <2>4. PidInv'
    BY DEF PidInv
  <2>5. VerdictInv'
    BY DEF VerdictInv, Reachable
  <2>6. StopInv'
    BY DEF StopInv, Phases, Reachable
  <2>7. NamesInv'
    BY DEF NamesInv, Holds
  <2>8. DownInv'
    BY DEF DownInv
  <2> QED
    BY <2>1, <2>2, <2>3, <2>4, <2>5, <2>6, <2>7, <2>8

\* A stop records killed only of a leader it saw dead, or of a lost row
\* without a pid.
LEMMA StopMarkStep == ASSUME TypeOK, Rest, NEW t \in Tasks, StopMark(t) PROVE Rest'
<1> DEFINE i == target[t]
<1>0. i \in Ids /\ up /\ pc[t] = "markkilled" /\ Concludes(i)
  BY Running DEF StopMark, TargetPcs, Rest, StopInv, Concludes
<1>1. job[t].cont \in Conts
  BY DEF TypeOK, TasksTypeOK, Jobs
<1>2. /\ status'[i] = "killed" /\ pc'[t] \in {"idle", "gens", "reap", "check"}
      /\ \A j \in Ids : j # i => status'[j] = status[j]
      /\ \A u \in Tasks : u # t => pc'[u] = pc[u] /\ target'[u] = target[u] /\ job'[u] = job[u]
      /\ UNCHANGED <<nrows, name, pid, leader, foreign, live, reaper, fire, up>>
  BY <1>0, <1>1 DEF StopMark, MarkProcessKilled, SetStatus, Reply, Goto, Conts, TypeOK, StoreTypeOK,
                    TasksTypeOK, groupVars, stateVars, hostVars
<1> HIDE DEF i
<1> USE <1>0, <1>2 DEF Rest
<1>3. QED
  <2>1. TargetInv'
    BY DEF TargetInv, Phases
  <2>2. OwnersInv'
    BY DEF OwnersInv, Owns, Spawning, Concludes
  <2>3. FreshInv'
    BY DEF FreshInv, Concludes
  <2>4. PidInv'
    BY DEF PidInv
  <2>5. VerdictInv'
    BY DEF VerdictInv, Reachable, Concludes, FreshInv, TypeOK, StoreTypeOK
  <2>6. StopInv'
    BY DEF StopInv, Phases, Reachable, Concludes
  <2>7. NamesInv'
    BY DEF NamesInv, Holds
  <2>8. DownInv'
    BY DEF DownInv
  <2> QED
    BY <2>1, <2>2, <2>3, <2>4, <2>5, <2>6, <2>7, <2>8

\* A timeout that finds the entry expires a generation whose pid is known.
LEMMA FireTimerStep == ASSUME TypeOK, Rest, NEW i \in Ids, FireTimer(i) PROVE Rest'
<1>0. live[i] /\ fire'[i] = "checked" /\ up /\ pid[i]
  BY DEF FireTimer, Rest, DownInv, PidInv, TypeOK, HostTypeOK
<1>1. /\ \A j \in Ids : j # i => fire'[j] = fire[j]
      /\ UNCHANGED <<nrows, status, name, pid, leader, foreign, live, reaper, up, pc, target, job>>
  BY DEF FireTimer, TypeOK, HostTypeOK, storeVars, groupVars, hostVars, taskVars
<1> USE <1>0, <1>1 DEF Rest
<1>2. QED
  <2>1. TargetInv'
    BY DEF TargetInv, Phases
  <2>2. OwnersInv'
    BY DEF OwnersInv, Owns, Spawning
  <2>3. FreshInv'
    BY DEF FreshInv
  <2>4. PidInv'
    BY DEF PidInv
  <2>5. VerdictInv'
    BY DEF VerdictInv, Reachable
  <2>6. StopInv'
    BY DEF StopInv, Phases, Reachable
  <2>7. NamesInv'
    BY DEF NamesInv, Holds
  <2>8. DownInv'
    BY DEF DownInv
  <2> QED
    BY <2>1, <2>2, <2>3, <2>4, <2>5, <2>6, <2>7, <2>8

\* timed_out is recorded of a generation whose pid is known, running rows
\* only.
LEMMA FireMarkStep == ASSUME TypeOK, Rest, NEW i \in Ids, FireMark(i) PROVE Rest'
<1>0. fire[i] # "idle" /\ fire'[i] = "marked" /\ pid[i]
  BY DEF FireMark, Rest, PidInv, TypeOK, HostTypeOK
<1>1. /\ \A j \in Ids : j # i => fire'[j] = fire[j] /\ status'[j] = status[j]
      /\ status'[i] = status[i] \/ (status[i] = "running" /\ status'[i] = "timed_out")
      /\ UNCHANGED <<nrows, name, pid, leader, foreign, live, reaper, up, pc, target, job>>
  BY DEF FireMark, MarkProcessTimedOut, SetRunningStatus, SetStatus, TypeOK, HostTypeOK, StoreTypeOK,
         storeVars, groupVars, stateVars, hostVars, taskVars
<1> USE <1>0, <1>1 DEF Rest
<1>2. QED
  <2>1. TargetInv'
    BY DEF TargetInv, Phases
  <2>2. OwnersInv'
    BY DEF OwnersInv, Owns, Spawning
  <2>3. FreshInv'
    BY DEF FreshInv
  <2>4. PidInv'
    BY DEF PidInv
  <2>5. VerdictInv'
    BY DEF VerdictInv, Reachable
  <2>6. StopInv'
    BY DEF StopInv, Phases, Reachable
  <2>7. NamesInv'
    BY DEF NamesInv, Holds
  <2>8. DownInv'
    BY DEF DownInv
  <2> QED
    BY <2>1, <2>2, <2>3, <2>4, <2>5, <2>6, <2>7, <2>8

\* Removing the entry leaves the row alone.
LEMMA FireFinishStep == ASSUME TypeOK, Rest, NEW i \in Ids, FireFinish(i) PROVE Rest'
<1>0. fire[i] # "idle" /\ fire'[i] = "term" /\ ~live'[i]
  BY DEF FireFinish, FinishProcess, FirstPhase, TypeOK, HostTypeOK, StateTypeOK
<1>1. /\ \A j \in Ids : j # i => fire'[j] = fire[j] /\ live'[j] = live[j]
      /\ UNCHANGED <<nrows, status, name, pid, leader, foreign, reaper, up, pc, target, job>>
  BY DEF FireFinish, FinishProcess, TypeOK, HostTypeOK, StateTypeOK,
         storeVars, groupVars, hostVars, taskVars
<1> USE <1>0, <1>1 DEF Rest
<1>2. QED
  <2>1. TargetInv'
    BY DEF TargetInv, Phases
  <2>2. OwnersInv'
    BY DEF OwnersInv, Owns, Spawning
  <2>3. FreshInv'
    BY DEF FreshInv
  <2>4. PidInv'
    BY DEF PidInv
  <2>5. VerdictInv'
    BY DEF VerdictInv, Reachable
  <2>6. StopInv'
    BY DEF StopInv, Phases, Reachable
  <2>7. NamesInv'
    BY DEF NamesInv, Holds
  <2>8. DownInv'
    BY DEF DownInv
  <2> QED
    BY <2>1, <2>2, <2>3, <2>4, <2>5, <2>6, <2>7, <2>8

\* The reaper reaps a zombie, never a running leader.
LEMMA ReapStep == ASSUME TypeOK, Rest, NEW i \in Ids, Reap(i) PROVE Rest'
<1>0. reaper[i] = "waiting" /\ reaper'[i] = "reaped" /\ leader[i] = "zombie" /\ leader'[i] = "reaped"
  BY DEF Reap, ReapLeader, TypeOK, HostTypeOK, GroupsTypeOK
<1>1. /\ \A j \in Ids : j # i => /\ reaper'[j] = reaper[j]
                               /\ leader'[j] = leader[j] /\ foreign'[j] = foreign[j]
      /\ UNCHANGED <<nrows, status, name, pid, live, fire, up, pc, target, job>>
  BY DEF Reap, ReapLeader, TypeOK, HostTypeOK, GroupsTypeOK, storeVars, stateVars, hostVars, taskVars
<1> USE <1>0, <1>1 DEF Rest
<1>2. QED
  <2>1. TargetInv'
    BY DEF TargetInv, Phases
  <2>2. OwnersInv'
    BY DEF OwnersInv, Owns, Spawning
  <2>3. FreshInv'
    BY DEF FreshInv
  <2>4. PidInv'
    BY DEF PidInv
  <2>5. VerdictInv'
    BY DEF VerdictInv, Reachable
  <2>6. StopInv'
    BY DEF StopInv, Phases, Reachable
  <2>7. NamesInv'
    BY DEF NamesInv, Holds
  <2>8. DownInv'
    BY DEF DownInv
  <2> QED
    BY <2>1, <2>2, <2>3, <2>4, <2>5, <2>6, <2>7, <2>8

\* exited is recorded of a reaped leader, running rows only.
LEMMA ReaperMarkStep == ASSUME TypeOK, Rest, NEW i \in Ids, ReaperMark(i) PROVE Rest'
<1>0. reaper[i] = "reaped" /\ reaper'[i] = "marked" /\ leader[i] = "reaped" /\ pid[i]
  BY DEF ReaperMark, Rest, PidInv, TypeOK, HostTypeOK
<1>1. /\ \A j \in Ids : j # i => reaper'[j] = reaper[j] /\ status'[j] = status[j]
      /\ status'[i] = status[i] \/ (status[i] = "running" /\ status'[i] = "exited")
      /\ UNCHANGED <<nrows, name, pid, leader, foreign, live, fire, up, pc, target, job>>
  BY DEF ReaperMark, MarkProcessFinished, SetRunningStatus, SetStatus, TypeOK, HostTypeOK, StoreTypeOK,
         storeVars, groupVars, stateVars, hostVars, taskVars
<1> USE <1>0, <1>1 DEF Rest
<1>2. QED
  <2>1. TargetInv'
    BY DEF TargetInv, Phases
  <2>2. OwnersInv'
    BY DEF OwnersInv, Owns, Spawning
  <2>3. FreshInv'
    BY DEF FreshInv
  <2>4. PidInv'
    BY DEF PidInv
  <2>5. VerdictInv'
    BY DEF VerdictInv, Reachable
  <2>6. StopInv'
    BY DEF StopInv, Phases, Reachable
  <2>7. NamesInv'
    BY DEF NamesInv, Holds
  <2>8. DownInv'
    BY DEF DownInv
  <2> QED
    BY <2>1, <2>2, <2>3, <2>4, <2>5, <2>6, <2>7, <2>8

\* Removing the entry after the exit leaves the row alone.
LEMMA ReaperFinishStep == ASSUME TypeOK, Rest, NEW i \in Ids, ReaperFinish(i) PROVE Rest'
<1>0. reaper[i] = "marked" /\ reaper'[i] = "none" /\ ~live'[i]
  BY DEF ReaperFinish, FinishProcess, TypeOK, HostTypeOK, StateTypeOK
<1>1. /\ \A j \in Ids : j # i => reaper'[j] = reaper[j] /\ live'[j] = live[j]
      /\ UNCHANGED <<nrows, status, name, pid, leader, foreign, fire, up, pc, target, job>>
  BY DEF ReaperFinish, FinishProcess, TypeOK, HostTypeOK, StateTypeOK,
         storeVars, groupVars, hostVars, taskVars
<1> USE <1>0, <1>1 DEF Rest
<1>2. QED
  <2>1. TargetInv'
    BY DEF TargetInv, Phases
  <2>2. OwnersInv'
    BY DEF OwnersInv, Owns, Spawning
  <2>3. FreshInv'
    BY DEF FreshInv
  <2>4. PidInv'
    BY DEF PidInv
  <2>5. VerdictInv'
    BY DEF VerdictInv, Reachable
  <2>6. StopInv'
    BY DEF StopInv, Phases, Reachable
  <2>7. NamesInv'
    BY DEF NamesInv, Holds
  <2>8. DownInv'
    BY DEF DownInv
  <2> QED
    BY <2>1, <2>2, <2>3, <2>4, <2>5, <2>6, <2>7, <2>8

\* The daemon's death leaves rows and groups as they are, and no task.
LEMMA CrashStep == ASSUME TypeOK, Rest, Crash PROVE Rest'
<1>0. /\ \A t \in Tasks : pc'[t] = "idle" /\ target'[t] = 0
      /\ \A i \in Ids : ~live'[i] /\ reaper'[i] = "none" /\ fire'[i] = "idle"
      /\ UNCHANGED <<nrows, status, name, pid, leader, foreign>>
  BY DEF Crash, storeVars, groupVars
<1> USE <1>0 DEF Rest
<1>1. QED
  <2>1. TargetInv'
    BY DEF TargetInv, Phases
  <2>2. OwnersInv'
    BY DEF OwnersInv, Owns, Spawning
  <2>3. FreshInv'
    BY DEF FreshInv
  <2>4. PidInv'
    BY DEF PidInv
  <2>5. VerdictInv'
    BY DEF VerdictInv, Reachable
  <2>6. StopInv'
    BY DEF StopInv, Phases, Reachable
  <2>7. NamesInv'
    BY DEF NamesInv, Holds
  <2>8. DownInv'
    BY DEF DownInv
  <2> QED
    BY <2>1, <2>2, <2>3, <2>4, <2>5, <2>6, <2>7, <2>8

\* No task runs when the rows are marked lost, so nobody relies on them.
LEMMA BootStep == ASSUME TypeOK, Rest, Boot PROVE Rest'
<1>0. /\ \A t \in Tasks : pc[t] = "idle"
      /\ \A i \in Ids : ~live[i] /\ reaper[i] = "none" /\ fire[i] = "idle"
  BY DEF Boot, Rest, DownInv
<1>1. /\ \A i \in Ids : \/ status'[i] = status[i] /\ status[i] # "running"
                        \/ status[i] = "running" /\ status'[i] = "lost"
      /\ up'
      /\ UNCHANGED <<nrows, name, pid, leader, foreign, live, reaper, fire, pc, target, job>>
  BY DEF Boot, MarkRunningProcessesLost, TypeOK, StoreTypeOK, groupVars, stateVars, taskVars
<1> USE <1>0, <1>1 DEF Rest
<1>2. QED
  <2>1. TargetInv'
    BY DEF TargetInv, Phases
  <2>2. OwnersInv'
    BY DEF OwnersInv, Owns, Spawning
  <2>3. FreshInv'
    BY DEF FreshInv
  <2>4. PidInv'
    BY DEF PidInv
  <2>5. VerdictInv'
    BY DEF VerdictInv, Reachable
  <2>6. StopInv'
    BY DEF StopInv, Phases, Reachable
  <2>7. NamesInv'
    BY DEF NamesInv, Holds
  <2>8. DownInv'
    BY DEF DownInv
  <2> QED
    BY <2>1, <2>2, <2>3, <2>4, <2>5, <2>6, <2>7, <2>8

-----------------------------------------------------------------------------
(* The invariant, and what follows from it. *)

\* An empty database and no process satisfy the invariant.
LEMMA InitInv == Init => IndInv
<1> SUFFICES ASSUME Init PROVE IndInv
  OBVIOUS
<1> USE DEF Init, StoreInit, GroupsInit, StateInit
<1>1. TypeOK
  BY NoJobType, NamesAssumption
     DEF TypeOK, StoreTypeOK, GroupsTypeOK, StateTypeOK, TasksTypeOK, HostTypeOK, Statuses, LeaderStates,
         Pcs, ReaperStates, FireStates
<1>2. TargetInv /\ OwnersInv /\ StopInv /\ DownInv
  BY DEF TargetInv, OwnersInv, StopInv, DownInv, Spawning, Phases
<1>3. FreshInv /\ PidInv /\ VerdictInv /\ NamesInv
  BY NamesAssumption DEF FreshInv, PidInv, VerdictInv, NamesInv, Holds, Ids
<1> QED
  BY <1>1, <1>2, <1>3 DEF IndInv

\* Every step preserves the invariant: the one fact the theorems rest on.
LEMMA InvStep == IndInv /\ [Next]_vars => IndInv'
<1> SUFFICES ASSUME IndInv, [Next]_vars PROVE IndInv'
  OBVIOUS
<1>0. TypeOK /\ Rest
  BY DEF IndInv, Rest
<1>1. TypeOK'
  BY TypeStep DEF IndInv
<1>2. Rest'
  <2>1. ASSUME NEW t \in Tasks, TaskStep(t) \/ StoreError(t) PROVE Rest'
    <3>1. CASE SpawnStep(t)
      BY <1>0, <3>1, TaskQuiet, QuietStep, ReserveStep, ForkStep, SpawnFailedStep, ActivateStep,
         InsertStep DEF SpawnStep
    <3>2. CASE StopStep(t)
      BY <1>0, <3>2, TaskQuiet, QuietStep, StopMarkStep DEF StopStep
    <3>3. CASE ReplaceStep(t) \/ RestartStep(t) \/ WaitStep(t) \/ TimeoutStep(t) \/ StoreError(t)
      BY <1>0, <3>3, TaskQuiet, QuietStep
    <3> QED
      BY <2>1, <3>1, <3>2, <3>3 DEF TaskStep
  <2>2. ASSUME NEW i \in Ids, \/ FireTimer(i) \/ OrphanEnds(i) \/ FireStep(i)
                              \/ ReaperStep(i) \/ OSStep(i)
        PROVE  Rest'
    <3>1. CASE FireTimer(i) \/ FireStep(i)
      BY <1>0, <3>1, FireTimerStep, FireMarkStep, FireFinishStep, OtherQuiet, QuietStep DEF FireStep
    <3>2. CASE ReaperStep(i)
      BY <1>0, <3>2, ReapStep, ReaperMarkStep, ReaperFinishStep DEF ReaperStep
    <3>3. CASE OSStep(i) \/ OrphanEnds(i)
      BY <1>0, <3>3, OtherQuiet, QuietStep
    <3> QED
      BY <2>2, <3>1, <3>2, <3>3
  <2>3. CASE Crash \/ Boot
    BY <1>0, <2>3, CrashStep, BootStep
  <2>4. CASE UNCHANGED vars \/ \E t \in Tasks, op \in Requests : Receive(t, op)
    BY <1>0, <2>4, OtherQuiet, QuietStep
  <2> QED
    BY <2>1, <2>2, <2>3, <2>4 DEF Next
<1> QED
  BY <1>1, <1>2 DEF IndInv, Rest

\* Every variable keeps its type in every reachable state: no status, phase
\* or step outside those the code knows, no id beyond the bound.
THEOREM TypeCorrect == Spec => []TypeOK
<1>1. IndInv => TypeOK
  BY DEF IndInv
<1> QED
  BY <1>1, InitInv, InvStep, PTL DEF Spec

\* The inductive invariant holds in every reachable state.
THEOREM Invariance == Spec => []IndInv
  BY InitInv, InvStep, PTL DEF Spec

\* A process whose pid is recorded is never reported dead while it runs, but
\* for killed of another user's, whatever requests, timeouts, exits, store
\* failures and crashes race.
THEOREM Visibility == Spec => []VisibleWhileAlive
<1>1. IndInv => VisibleWhileAlive
  <2> SUFFICES ASSUME IndInv, NEW i \in Ids, leader[i] = "running", pid[i]
               PROVE  \/ status[i] \in {"running", "lost", "timed_out"}
                      \/ status[i] = "killed" /\ "leader" \in foreign[i]
    BY DEF VisibleWhileAlive
  <2>1. status[i] \in Statuses \cup {"absent"}
    BY DEF IndInv, TypeOK, StoreTypeOK
  <2>2. i > nrows \/ status[i] # "absent"
    BY DEF IndInv, VerdictInv
  <2> QED
    BY <2>1, <2>2 DEF IndInv, VerdictInv, FreshInv, Statuses, Reachable
<1> QED
  BY <1>1, InitInv, InvStep, PTL DEF Spec

\* Two live processes of one name never both show in `pz ps`, however runs,
\* replaces and restarts interleave with each other and with daemon deaths.
THEOREM NameExclusion == Spec => []OneVisibleHolder
<1>1. IndInv => OneVisibleHolder
  BY DEF IndInv, NamesInv, OneVisibleHolder, Visible, Holds
<1> QED
  BY <1>1, InitInv, InvStep, PTL DEF Spec
=============================================================================
