-------------------------- MODULE DaemonSafetyProof --------------------------
(***************************************************************************)
(* Proofs about Daemon, continued: every running row has a supervisor, a   *)
(* stop that reports success has seen the group dead, and no signal goes   *)
(* to a stranger.  Each rests on the inductive invariant of DaemonProof    *)
(* and on a strengthening of its own (DaemonInvariant).  At the end,       *)
(* Daemon implements Lifecycle.                                            *)
(***************************************************************************)
EXTENDS DaemonProof

\* The steps of a handler that neither spawn nor conclude a stop.
Other(t) ==
    \/ Check(t)
    \/ Stop(t) \/ StopRead(t) \/ StopToken(t) \/ StopLive(t) \/ StopEscalate(t)
    \/ ReplaceStep(t) \/ RestartStep(t) \/ WaitStep(t) \/ TimeoutStep(t)
    \/ StoreError(t)
    \/ \E op \in Requests : Receive(t, op)

\* Only handler t moves.
Moves(t) == \A u \in Tasks : u # t => pc'[u] = pc[u] /\ target'[u] = target[u]

\* A step of a handler moves no other handler.
LEMMA OneMoves ==
    ASSUME TypeOK, NEW t \in Tasks,
           TaskStep(t) \/ StoreError(t) \/ \E op \in Requests : Receive(t, op)
    PROVE  Moves(t)
<1> USE DEF TypeOK, TasksTypeOK, Moves, Reply, Goto, GotoOn
<1>1. CASE SpawnStep(t)
  BY <1>1 DEF SpawnStep, Check, Reserve, ForkChild, SpawnFailed, Activate, Insert
<1>2. CASE StopStep(t)
  BY <1>2 DEF StopStep, Stop, Resolve, StopRead, StopToken, StopLive, StopEscalate, StopMark, Signal
<1>3. CASE ReplaceStep(t)
  BY <1>3 DEF ReplaceStep, FindHolder, ListGenerations, NextGeneration
<1>4. CASE RestartStep(t)
  BY <1>4 DEF RestartStep, RestartLookup, RestartSpec, RestartRead, Resolve
<1>5. CASE WaitStep(t)
  BY <1>5 DEF WaitStep, WaitLookup, WaitRead, WaitSubscribe, WaitFinished, WaitReturn, Resolve
<1>6. CASE TimeoutStep(t)
  BY <1>6 DEF TimeoutStep, TimeoutLookup, TimeoutStore, TimeoutState, Resolve
<1>7. CASE StoreError(t) \/ \E op \in Requests : Receive(t, op)
  BY <1>7 DEF StoreError, Receive
<1> QED
  BY <1>1, <1>2, <1>3, <1>4, <1>5, <1>6, <1>7 DEF TaskStep

\* What the other steps of a handler leave alone, and where they start and
\* end: they neither claim a row, record a verdict, nor touch a child's handle.
LEMMA OtherStep ==
    ASSUME TypeOK, NEW t \in Tasks, Other(t)
    PROVE  /\ UNCHANGED <<nrows, status, name, pid, live, reaper, fire, up, boots>>
           /\ pc[t] \notin SpawningPcs
           /\ pc'[t] \notin SpawningPcs
           /\ \/ UNCHANGED groupVars
              \/ pc[t] \in Phases /\ KillGroup(target[t])
<1> USE DEF UnchangedButTask, storeVars, stateVars, hostVars, SpawningPcs, TypeOK, TasksTypeOK,
            Reply, Goto, GotoOn
<1>1. CASE Check(t) \/ StoreError(t)
  BY <1>1 DEF Check, StoreError
<1>2. CASE Stop(t) \/ StopRead(t) \/ StopToken(t) \/ StopLive(t)
  BY <1>2 DEF Stop, Resolve, StopRead, StopToken, StopLive, Signal, FirstPhase
<1>3. CASE StopEscalate(t)
  BY <1>3 DEF StopEscalate, EscalateStep, Phases, Outcomes
<1>4. CASE ReplaceStep(t)
  BY <1>4 DEF ReplaceStep, FindHolder, ListGenerations, NextGeneration
<1>5. CASE RestartStep(t)
  BY <1>5 DEF RestartStep, RestartLookup, RestartSpec, RestartRead, Resolve
<1>6. CASE WaitStep(t)
  BY <1>6 DEF WaitStep, WaitLookup, WaitRead, WaitSubscribe, WaitFinished, WaitReturn, Resolve
<1>7. CASE TimeoutStep(t)
  BY <1>7 DEF TimeoutStep, TimeoutLookup, TimeoutStore, TimeoutState, Resolve, StoreSetTimeout,
              StateSetTimeout
<1>8. CASE \E op \in Requests : Receive(t, op)
  <2>1. PICK op \in Requests : Receive(t, op)
    BY <1>8
  <2>2. FirstPc(op) \in {"check", "find", "stop", "rlookup", "wlookup", "tlookup"}
    BY DaemonAssumption DEF FirstPc, Kinds
  <2> QED
    BY <2>1, <2>2 DEF Receive
<1> QED
  BY <1>1, <1>2, <1>3, <1>4, <1>5, <1>6, <1>7, <1>8 DEF Other

-----------------------------------------------------------------------------
(* Supervision *)

\* Nothing that the supervision of a row rests on changes, but for handlers
\* that are not spawning.
Calm == /\ UNCHANGED <<status, live, reaper, up>>
        /\ \A i \in Ids : fire'[i] = "marked" => fire[i] = "marked"
        /\ \A t \in Tasks : pc[t] \in SpawningPcs => pc'[t] = pc[t] /\ target'[t] = target[t]

\* A calm step leaves every row its supervisor.
LEMMA CalmStep == SupervisedInv /\ Calm => SupervisedInv'
  BY DEF SupervisedInv, RunningIsSupervised, Spawning, Calm, SpawningPcs

\* What is not about the claim of a row or the end of its supervision is calm.
LEMMA CalmSteps ==
    ASSUME TypeOK,
           \/ \E t \in Tasks : Other(t)
           \/ \E i \in Ids : FireTimer(i) \/ OrphanEnds(i) \/ FireEscalate(i) \/ OSStep(i)
           \/ UNCHANGED vars
    PROVE  Calm
<1> USE DEF storeVars, groupVars, stateVars, hostVars, taskVars
<1>1. ASSUME NEW t \in Tasks, Other(t) PROVE Calm
  <2>1. Moves(t)
    BY <1>1, OneMoves DEF Other, TaskStep, SpawnStep, StopStep
  <2> QED
    BY <1>1, <2>1, OtherStep DEF Calm, Moves
<1>2. ASSUME NEW i \in Ids, FireTimer(i) \/ OrphanEnds(i) PROVE Calm
  BY <1>2 DEF FireTimer, OrphanEnds, Calm, TypeOK, HostTypeOK
<1>3. ASSUME NEW i \in Ids, FireEscalate(i) PROVE Calm
  BY <1>3 DEF FireEscalate, Calm, TypeOK, HostTypeOK, Phases, Outcomes
<1>4. ASSUME NEW i \in Ids, OSStep(i) PROVE Calm
  BY <1>4 DEF OSStep, GroupMoves, InitReaps, Recycle, Calm
<1>5. CASE UNCHANGED vars
  BY <1>5 DEF vars, Calm
<1> QED
  BY <1>1, <1>2, <1>3, <1>4, <1>5

\* A handler takes a row from its claim to the launch of its reaper, and
\* leaves it before only when the row has stopped saying running.
LEMMA SpawnSupervised ==
    ASSUME TypeOK, Rest, SupervisedInv, "store" \notin Faults, NEW t \in Tasks,
           Reserve(t) \/ ForkChild(t) \/ SpawnFailed(t) \/ Activate(t) \/ Insert(t)
    PROVE  SupervisedInv'
<1>0. Moves(t)
  BY OneMoves DEF TaskStep, SpawnStep
<1> USE <1>0 DEF Moves, TypeOK, TasksTypeOK, StoreTypeOK, HostTypeOK, StateTypeOK, GroupsTypeOK, SupervisedInv,
            RunningIsSupervised, Spawning, Reply, Goto, GotoOn, storeVars, stateVars, hostVars
<1>1. CASE Reserve(t)
  <2>1. CASE UNCHANGED storeVars /\ Reply(t)
    BY <1>1, <2>1 DEF Reserve
  <2>2. ASSUME NEW i \in Ids, ReserveProcess(job[t].name, i), GotoOn(t, i, "fork")
        PROVE  SupervisedInv'
    <3>1. /\ status'[i] = "running" /\ \A j \in Ids : j # i => status'[j] = status[j]
          /\ pc'[t] = "fork" /\ target'[t] = i
          /\ reaper[i] = "none" /\ fire[i] = "idle"
          /\ UNCHANGED <<live, reaper, fire, up>>
          /\ pc[t] = "reserve"
      BY <1>1, <2>2, NamesAssumption DEF Reserve, ReserveProcess, Rest, FreshInv, Ids
    <3> QED
      BY <3>1, <2>2
  <2> QED
    BY <1>1, <2>1, <2>2 DEF Reserve
<1>2. CASE ForkChild(t)
  <2>1. /\ target[t] \in Ids /\ pc[t] = "fork" /\ reaper[target[t]] = "none"
    BY <1>2, Claimed DEF ForkChild, SpawningPcs, Owns
  <2>2. /\ pc'[t] \in {"activate", "failed"} /\ UNCHANGED <<target, status, live, fire, up>>
        /\ \A j \in Ids : \/ reaper'[j] = reaper[j]
                          \/ j = target[t] /\ reaper'[j] = "held"
    BY <1>2, <2>1 DEF ForkChild
  <2>3. ~live[target[t]]
    BY <1>2, Claimed DEF ForkChild, SpawningPcs, Owns
  <2> QED
    BY <2>1, <2>2, <2>3
<1>3. CASE SpawnFailed(t)
  <2>1. target[t] \in Ids /\ pc[t] = "failed"
    BY <1>3, Claimed DEF SpawnFailed, SpawningPcs
  <2>2. /\ status'[target[t]] = "failed"
        /\ \A j \in Ids : j # target[t] => status'[j] = status[j]
        /\ UNCHANGED <<live, reaper, fire, up>>
    BY <1>3, <2>1 DEF SpawnFailed, MarkSpawnFailed, SetStatus
  <2> QED
    BY <2>1, <2>2
<1>4. CASE Activate(t)
  BY <1>4 DEF Activate, ActivateProcess
<1>5. CASE Insert(t)
  <2>1. /\ target[t] \in Ids /\ pc[t] = "insert"
        /\ \A u \in Tasks : u # t => ~Spawning(u, target[t])
    BY <1>5, Claimed DEF Insert, SpawningPcs
  <2>2. /\ live'[target[t]] /\ reaper'[target[t]] = "waiting"
        /\ \A j \in Ids : j # target[t] => live'[j] = live[j] /\ reaper'[j] = reaper[j]
        /\ UNCHANGED <<status, fire, up>>
    BY <1>5, <2>1 DEF Insert, InsertProcess
  <2> QED
    BY <2>1, <2>2
<1> QED
  BY <1>1, <1>2, <1>3, <1>4, <1>5

\* A row leaves running before its entry or its reaper goes, or the daemon
\* is gone.
LEMMA EndSupervised ==
    ASSUME TypeOK, Rest, SupervisedInv, "store" \notin Faults,
           \/ \E t \in Tasks : StopMark(t)
           \/ \E i \in Ids : FireMark(i) \/ FireFinish(i) \/ ReaperStep(i)
           \/ Crash \/ Boot
    PROVE  SupervisedInv'
<1> USE DEF TypeOK, TasksTypeOK, StoreTypeOK, HostTypeOK, StateTypeOK, SupervisedInv,
            RunningIsSupervised, storeVars, groupVars, stateVars, hostVars, taskVars
<1>1. ASSUME NEW t \in Tasks, StopMark(t) PROVE SupervisedInv'
  <2>1. Moves(t)
    BY <1>1, OneMoves DEF TaskStep, StopStep
  <2>2. target[t] \in Ids /\ pc[t] = "markkilled"
    BY <1>1, Running DEF StopMark, TargetPcs
  <2>3. /\ status'[target[t]] = "killed"
        /\ \A j \in Ids : j # target[t] => status'[j] = status[j]
        /\ UNCHANGED <<live, reaper, fire, up>>
    BY <1>1, <2>2 DEF StopMark, MarkProcessKilled, SetStatus
  <2> QED
    BY <2>1, <2>2, <2>3 DEF Moves, Spawning
<1>2. ASSUME NEW i \in Ids, FireMark(i) PROVE SupervisedInv'
  <2>1. /\ \A j \in Ids : status'[j] = "running" => status[j] = "running" /\ j # i
        /\ \A j \in Ids : j # i => fire'[j] = fire[j] /\ status'[j] = status[j]
        /\ UNCHANGED <<live, reaper, up, pc, target>>
    BY <1>2 DEF FireMark, MarkProcessTimedOut, SetRunningStatus, SetStatus
  <2>2. status'[i] # "running" /\ (reaper[i] = "marked" => status'[i] # "running")
    BY <2>1
  <2> QED
    BY <2>1, <2>2 DEF Spawning
<1>3. ASSUME NEW i \in Ids, FireFinish(i) PROVE SupervisedInv'
  <2>1. /\ \A j \in Ids : j # i => fire'[j] = fire[j] /\ live'[j] = live[j]
        /\ fire[i] = "marked" /\ fire'[i] # "marked" /\ ~live'[i]
        /\ UNCHANGED <<status, reaper, up, pc, target>>
    BY <1>3 DEF FireFinish, FinishProcess, FirstPhase
  <2> QED
    BY <2>1 DEF Spawning
<1>4. ASSUME NEW i \in Ids, Reap(i) PROVE SupervisedInv'
  <2>1. /\ \A j \in Ids : j # i => reaper'[j] = reaper[j]
        /\ reaper[i] = "waiting" /\ reaper'[i] = "reaped"
        /\ UNCHANGED <<status, live, fire, up, pc, target>>
    BY <1>4 DEF Reap
  <2> QED
    BY <2>1 DEF Spawning
<1>5. ASSUME NEW i \in Ids, ReaperMark(i) PROVE SupervisedInv'
  <2>1. /\ \A j \in Ids : j # i => reaper'[j] = reaper[j] /\ status'[j] = status[j]
        /\ reaper[i] = "reaped" /\ reaper'[i] = "marked" /\ status'[i] # "running"
        /\ UNCHANGED <<live, fire, up, pc, target>>
    BY <1>5 DEF ReaperMark, MarkProcessFinished, SetRunningStatus, SetStatus
  <2> QED
    BY <2>1 DEF Spawning
<1>6. ASSUME NEW i \in Ids, ReaperFinish(i) PROVE SupervisedInv'
  <2>1. /\ \A j \in Ids : j # i => reaper'[j] = reaper[j] /\ live'[j] = live[j]
        /\ reaper[i] = "marked" /\ reaper'[i] = "none" /\ ~live'[i]
        /\ UNCHANGED <<status, fire, up, pc, target>>
    BY <1>6 DEF ReaperFinish, FinishProcess
  <2> QED
    BY <2>1 DEF Spawning
<1>7. CASE Crash
  BY <1>7 DEF Crash
<1>8. CASE Boot
  BY <1>8 DEF Boot, MarkRunningProcessesLost, Rest, DownInv
<1> QED
  BY <1>1, <1>2, <1>3, <1>4, <1>5, <1>6, <1>7, <1>8 DEF ReaperStep

\* Every step keeps every running row supervised, if the store does not fail.
LEMMA SupervisedStep ==
    ASSUME IndInv, SupervisedInv, [Next]_vars, "store" \notin Faults
    PROVE  SupervisedInv'
<1>1. TypeOK /\ Rest
  BY DEF IndInv, Rest
<1>2. CASE \/ \E t \in Tasks : Other(t)
           \/ \E i \in Ids : FireTimer(i) \/ OrphanEnds(i) \/ FireEscalate(i) \/ OSStep(i)
           \/ UNCHANGED vars
  BY <1>1, <1>2, CalmSteps, CalmStep
<1>3. CASE \E t \in Tasks : Reserve(t) \/ ForkChild(t) \/ SpawnFailed(t) \/ Activate(t) \/ Insert(t)
  BY <1>1, <1>3, SpawnSupervised
<1>4. CASE \/ \E t \in Tasks : StopMark(t)
           \/ \E i \in Ids : FireMark(i) \/ FireFinish(i) \/ ReaperStep(i)
           \/ Crash \/ Boot
  BY <1>1, <1>4, EndSupervised
<1> QED
  BY <1>2, <1>3, <1>4 DEF Next, TaskStep, SpawnStep, StopStep, FireStep, Other

\* A running row is always being taken care of, however requests, exits and
\* timeouts interleave, while the store does not fail.
THEOREM Supervision == "store" \notin Faults => (Spec => []RunningIsSupervised)
<1> SUFFICES ASSUME "store" \notin Faults PROVE Spec => []RunningIsSupervised
  OBVIOUS
<1>1. Init => SupervisedInv
  BY DEF Init, StoreInit, StateInit, SupervisedInv, RunningIsSupervised
<1>2. IndInv /\ SupervisedInv /\ [Next]_vars => SupervisedInv'
  BY SupervisedStep
<1>3. SupervisedInv => RunningIsSupervised
  BY DEF SupervisedInv
<1> QED
  BY <1>1, <1>2, <1>3, Invariance, PTL DEF Spec

-----------------------------------------------------------------------------
(* Confirmed stops *)

\* Where a stop goes: what it has read or seen when it is about to look for
\* an entry, to signal, or to conclude.
LEMMA StopGoes ==
    ASSUME TypeOK, Rest, NEW t \in Tasks, Other(t), pc'[t] \in {"slive", "markkilled"} \cup Phases
    PROVE  /\ target'[t] = target[t] /\ target[t] \in Ids
           /\ pc'[t] = "slive" => status[target[t]] = "running" /\ up
           /\ pc'[t] \in Phases => \/ status[target[t]] = "running" /\ up
                                   \/ IsAlive(target[t])
                                   \/ pc[t] \in {"slive"} \cup Phases
           /\ pc'[t] = "markkilled" => \/ status[target[t]] \in {"lost", "killed"}
                                       \/ ~InReach(target[t]) /\ UNCHANGED groupVars
<1> USE DEF TypeOK, TasksTypeOK, Reply, Goto, GotoOn, Phases
<1>1. CASE Check(t) \/ StoreError(t) \/ Stop(t)
  BY <1>1 DEF Check, StoreError, Stop, Resolve
<1>2. CASE StopRead(t)
  <2>1. target[t] \in Ids /\ up
    BY <1>2, Running DEF StopRead, TargetPcs
  <2> QED
    BY <1>2, <2>1 DEF StopRead, Signal, FirstPhase
<1>3. CASE StopToken(t)
  <2>1. target[t] \in Ids /\ status[target[t]] \in {"lost", "killed"}
    BY <1>3, Running DEF StopToken, TargetPcs, Rest, StopInv
  <2> QED
    BY <1>3, <2>1 DEF StopToken, Signal, FirstPhase
<1>4. CASE StopLive(t)
  <2>1. target[t] \in Ids
    BY <1>4, Running DEF StopLive, TargetPcs
  <2> QED
    BY <1>4, <2>1 DEF StopLive, Signal, FirstPhase
<1>5. CASE StopEscalate(t)
  <2>1. target[t] \in Ids
    BY <1>5, Running DEF StopEscalate, TargetPcs
  <2> QED
    BY <1>5, <2>1 DEF StopEscalate, EscalateStep, GroupAlive, Signalable, Survives, InReach, Outcomes
<1>6. CASE ReplaceStep(t)
  BY <1>6 DEF ReplaceStep, FindHolder, ListGenerations, NextGeneration
<1>7. CASE RestartStep(t)
  BY <1>7 DEF RestartStep, RestartLookup, RestartSpec, RestartRead, Resolve
<1>8. CASE WaitStep(t)
  BY <1>8 DEF WaitStep, WaitLookup, WaitRead, WaitSubscribe, WaitFinished, WaitReturn, Resolve
<1>9. CASE TimeoutStep(t)
  BY <1>9 DEF TimeoutStep, TimeoutLookup, TimeoutStore, TimeoutState, Resolve
<1>10. CASE \E op \in Requests : Receive(t, op)
  <2>1. PICK op \in Requests : Receive(t, op)
    BY <1>10
  <2>2. FirstPc(op) \in {"check", "find", "stop", "rlookup", "wlookup", "tlookup"}
    BY DaemonAssumption DEF FirstPc, Kinds
  <2> QED
    BY <2>1, <2>2 DEF Receive
<1> QED
  BY <1>1, <1>2, <1>3, <1>4, <1>5, <1>6, <1>7, <1>8, <1>9, <1>10 DEF Other

\* Groups only lose processes that may be signalled, no verdict of a stop is taken back, and no
\* stop comes to its conclusion.
Fades == /\ \A i \in Ids : InReach(i)' => InReach(i)
         /\ \A i \in Ids : status'[i] \notin {"lost", "killed"} => status[i] \notin {"lost", "killed"}
         /\ \A t \in Tasks : pc'[t] = "markkilled" => pc[t] = "markkilled" /\ target'[t] = target[t]

\* Such a step takes no conclusion away.
LEMMA FadesStep == DeathInv /\ Fades => DeathInv'
  BY DEF DeathInv, Fades

\* KillGroup and the ways of a process on its own bring none within reach.
LEMMA GroupFades ==
    ASSUME GroupsTypeOK, NEW i \in Ids,
           \/ KillGroup(i) \/ ReapLeader(i) \/ LeaderExits(i) \/ LeaderForks(i) \/ OthersExit(i)
           \/ ChangesUser(i) \/ RecyclePid(i)
    PROVE  \A j \in Ids : InReach(j)' => InReach(j)
<1> USE DEF GroupsTypeOK, InReach
<1>1. CASE KillGroup(i)
  BY <1>1 DEF KillGroup, groupVars
<1>2. CASE ReapLeader(i) \/ LeaderExits(i) \/ OthersExit(i)
  BY <1>2 DEF ReapLeader, LeaderExits, OthersExit
<1>3. CASE LeaderForks(i)
  BY <1>3 DEF LeaderForks
<1>4. CASE ChangesUser(i) \/ RecyclePid(i)
  BY <1>4 DEF ChangesUser, RecyclePid
<1> QED
  BY <1>1, <1>2, <1>3, <1>4

\* A conclusion stays true until it is recorded.
LEMMA DeathStep ==
    ASSUME IndInv, DeathInv, [Next]_vars
    PROVE  DeathInv'
<1>0. TypeOK /\ Rest
  BY DEF IndInv, Rest
<1> USE <1>0 DEF storeVars, groupVars, stateVars, hostVars, taskVars
<1>1. ASSUME NEW t \in Tasks, Other(t) PROVE DeathInv'
  <2>1. Moves(t)
    BY <1>1, OneMoves DEF Other, TaskStep, SpawnStep, StopStep
  <2>2. \A j \in Ids : InReach(j)' => InReach(j)
    <3>1. CASE UNCHANGED groupVars
      BY <3>1 DEF InReach
    <3>2. CASE pc[t] \in Phases /\ KillGroup(target[t])
      BY <3>2, Running, GroupFades DEF TargetPcs, TypeOK, Phases
    <3> QED
      BY <1>1, <3>1, <3>2, OtherStep
  <2>3. UNCHANGED status
    BY <1>1, OtherStep
  <2>4. ASSUME NEW i \in Ids, target'[t] = i, pc'[t] = "markkilled",
               status[i] \notin {"lost", "killed"}
        PROVE  ~InReach(i)'
    <3>1. target[t] = i /\ ~InReach(i)
      BY <1>1, <2>4, StopGoes
    <3> QED
      BY <2>2, <3>1
  <2> QED
    BY <2>1, <2>2, <2>3, <2>4 DEF Moves, DeathInv
<1>2. ASSUME NEW t \in Tasks, Reserve(t) \/ ForkChild(t) \/ SpawnFailed(t) \/ Activate(t) \/ Insert(t)
      PROVE  DeathInv'
  <2> USE DEF TypeOK, TasksTypeOK, StoreTypeOK, GroupsTypeOK
  <2>1. Moves(t)
    BY <1>2, OneMoves DEF TaskStep, SpawnStep
  <2>2. pc'[t] # "markkilled"
    BY <1>2 DEF Reserve, ForkChild, SpawnFailed, Activate, Insert, Reply, Goto, GotoOn
  <2>3. CASE Reserve(t)
    <3>1. CASE UNCHANGED storeVars
      BY <2>1, <2>2, <2>3, <3>1, FadesStep DEF Reserve, Fades, Moves, InReach
    <3>2. ASSUME NEW i \in Ids, ReserveProcess(job[t].name, i) PROVE DeathInv'
      <4>1. status[i] = "absent" /\ ~pid[i]
        BY <3>2, NamesAssumption DEF ReserveProcess, Rest, FreshInv, Ids
      <4>2. \A j \in Ids : j # i => status'[j] = status[j]
        BY <3>2 DEF ReserveProcess
      <4>3. \A u \in Tasks : target[u] = i => pc[u] # "markkilled"
        BY <4>1 DEF Rest, StopInv
      <4> QED
        BY <2>1, <2>2, <2>3, <4>2, <4>3 DEF Reserve, DeathInv, Moves, InReach
    <3> QED
      BY <2>3, <3>1, <3>2 DEF Reserve
  <2>4. CASE ForkChild(t)
    <3>1. /\ target[t] \in Ids /\ ~pid[target[t]] /\ status[target[t]] = "running"
      BY <2>4, Claimed DEF ForkChild, SpawningPcs, Owns
    <3>2. \A u \in Tasks : target[u] = target[t] => pc[u] # "markkilled"
      BY <3>1 DEF Rest, StopInv
    <3>3. \A j \in Ids : j # target[t] => InReach(j)' = InReach(j)
      BY <2>4, <3>1 DEF ForkChild, Fork, InReach
    <3> QED
      BY <2>1, <2>2, <2>4, <3>2, <3>3 DEF ForkChild, DeathInv, Moves
  <2>5. CASE SpawnFailed(t) \/ Activate(t) \/ Insert(t)
    <3>1. target[t] \in Ids /\ pc[t] \in SpawningPcs
      BY <2>5, Claimed DEF SpawnFailed, Activate, Insert, SpawningPcs
    <3>2. pc[t] = "failed" => status[target[t]] = "running"
      BY <3>1, Claimed DEF Owns
    <3>3. \A i \in Ids : status'[i] \notin {"lost", "killed"} => status[i] \notin {"lost", "killed"}
      BY <2>5, <3>1, <3>2 DEF SpawnFailed, Activate, Insert, MarkSpawnFailed, SetStatus, ActivateProcess
    <3>4. \A i \in Ids : InReach(i)' => InReach(i)
      BY <2>5 DEF SpawnFailed, Activate, Insert, InReach
    <3> QED
      BY <2>1, <2>2, <3>3, <3>4, FadesStep DEF Fades, Moves
  <2> QED
    BY <1>2, <2>3, <2>4, <2>5
<1>3. ASSUME NEW t \in Tasks, StopMark(t) PROVE DeathInv'
  <2>1. Moves(t)
    BY <1>3, OneMoves DEF TaskStep, StopStep
  <2>2. target[t] \in Ids /\ job[t].cont \in Conts
    BY <1>3, Running DEF StopMark, TargetPcs, TypeOK, TasksTypeOK, Jobs
  <2> QED
    BY <1>3, <2>1, <2>2, FadesStep
       DEF StopMark, MarkProcessKilled, SetStatus, Reply, Goto, Fades, Moves, InReach, TypeOK,
           TasksTypeOK, StoreTypeOK, Conts
<1>4. ASSUME NEW i \in Ids, FireTimer(i) \/ OrphanEnds(i) \/ FireFinish(i) \/ ReaperFinish(i)
      PROVE  DeathInv'
  BY <1>4, FadesStep DEF FireTimer, OrphanEnds, FireFinish, ReaperFinish, Fades, InReach
<1>5. ASSUME NEW i \in Ids, FireMark(i) \/ ReaperMark(i) PROVE DeathInv'
  BY <1>5, FadesStep DEF FireMark, ReaperMark, MarkProcessTimedOut, MarkProcessFinished,
     SetRunningStatus, SetStatus, Fades, InReach, TypeOK, StoreTypeOK
<1>6. ASSUME NEW i \in Ids, FireEscalate(i) \/ Reap(i) \/ OSStep(i) PROVE DeathInv'
  <2>1. \A j \in Ids : InReach(j)' => InReach(j)
    <3>1. CASE UNCHANGED groupVars
      BY <3>1 DEF InReach
    <3>2. CASE ~UNCHANGED groupVars
      BY <1>6, <3>2, GroupFades DEF FireEscalate, EscalateStep, Reap, OSStep, GroupMoves, InitReaps,
         Recycle, TypeOK
    <3> QED
      BY <3>1, <3>2
  <2> QED
    BY <1>6, <2>1, FadesStep DEF FireEscalate, Reap, OSStep, GroupMoves, InitReaps, Recycle, Fades
<1>7. CASE Crash \/ Boot \/ UNCHANGED vars
  BY <1>7, FadesStep DEF Crash, Boot, MarkRunningProcessesLost, vars, Fades, InReach
<1> QED
  BY <1>1, <1>2, <1>3, <1>4, <1>5, <1>6, <1>7
     DEF Next, TaskStep, SpawnStep, StopStep, FireStep, ReaperStep, Other

\* Only the mark of a stop records killed.
LEMMA OnlyStopsKill ==
    ASSUME IndInv, [Next]_vars, NEW i \in Ids, status'[i] = "killed", status[i] # "killed"
    PROVE  \E t \in Tasks : pc[t] = "markkilled" /\ target[t] = i
<1>0. TypeOK /\ Rest
  BY DEF IndInv, Rest
<1> USE <1>0 DEF TypeOK, StoreTypeOK, storeVars
<1>1. ASSUME NEW t \in Tasks, Other(t) PROVE FALSE
  BY <1>1, OtherStep
<1>2. ASSUME NEW t \in Tasks, Reserve(t) \/ ForkChild(t) \/ SpawnFailed(t) \/ Activate(t) \/ Insert(t)
      PROVE  FALSE
  BY <1>2 DEF Reserve, ReserveProcess, ForkChild, SpawnFailed, MarkSpawnFailed, SetStatus, Activate,
              ActivateProcess, Insert
<1>3. ASSUME NEW t \in Tasks, StopMark(t) PROVE pc[t] = "markkilled" /\ target[t] = i
  BY <1>3 DEF StopMark, MarkProcessKilled, SetStatus
<1>4. ASSUME NEW j \in Ids, \/ FireTimer(j) \/ OrphanEnds(j) \/ FireStep(j)
                            \/ ReaperStep(j) \/ OSStep(j)
      PROVE  FALSE
  BY <1>4 DEF FireTimer, OrphanEnds, FireStep, FireMark, FireFinish, FireEscalate, ReaperStep, Reap,
              ReaperMark, ReaperFinish, OSStep, GroupMoves, InitReaps, Recycle, MarkProcessTimedOut,
              MarkProcessFinished, SetRunningStatus, SetStatus
<1>5. CASE Crash \/ Boot \/ UNCHANGED vars
  BY <1>5 DEF Crash, Boot, MarkRunningProcessesLost, vars
<1> QED
  BY <1>1, <1>2, <1>3, <1>4, <1>5 DEF Next, TaskStep, SpawnStep, StopStep, Other

\* A stop reports success on a process this daemon supervises only once all
\* of its group that the daemon may signal is dead, whatever the members do
\* and whoever else stops it.
THEOREM StopConfirmed == Spec => StopConfirmsDeath
<1>1. Init => DeathInv
  BY DEF Init, DeathInv
<1>2. IndInv /\ DeathInv /\ [Next]_vars => DeathInv'
  BY DeathStep
<1>3. IndInv /\ DeathInv /\ [Next]_vars
        => [\A i \in Ids : status[i] \notin {"lost", "killed"} /\ status'[i] = "killed"
                             => ~InReach(i)]_vars
  BY OnlyStopsKill DEF DeathInv
<1> QED
  BY <1>1, <1>2, <1>3, Invariance, PTL DEF Spec, StopConfirmsDeath

-----------------------------------------------------------------------------
(* Strangers *)

\* What keeps StrangerInv of generation i: nothing of the daemon turns to it.
Turns(i) ==
    \/ leader'[i] # leader[i]
    \/ reaper'[i] # reaper[i] /\ reaper'[i] # "none"
    \/ fire'[i] # fire[i] /\ fire'[i] # "idle"
    \/ live'[i] /\ ~live[i]
    \/ up' /\ status'[i] = "running" /\ ~(up /\ status[i] = "running")
    \/ \E t \in Tasks :
         /\ target'[t] = i
         /\ pc'[t] \in SpawningPcs \cup {"slive"} \cup Phases
         /\ ~(target[t] = i /\ pc[t] \in SpawningPcs \cup {"slive"} \cup Phases)

\* A pid is recycled only while the daemon is not in the middle of something
\* about it, and nothing of the daemon turns to a recycled one.
LEMMA StrangerKept ==
    ASSUME StrangerInv, TypeOK,
           \A i \in Ids : recycled[i] => ~Turns(i),
           \A i \in Ids : recycled'[i] => recycled[i]
    PROVE  StrangerInv'
  BY DEF StrangerInv, Turns, SpawningPcs, TypeOK, HostTypeOK, StateTypeOK, GroupsTypeOK

\* What a task does to a generation whose pid a stranger has: nothing that
\* would bring it back.
LEMMA TaskTurnsAway ==
    ASSUME IndInv, StrangerInv, NEW t \in Tasks, TaskStep(t) \/ StoreError(t) \/ \E op \in Requests : Receive(t, op)
    PROVE  StrangerInv'
<1>0. TypeOK /\ Rest /\ Moves(t)
  BY OneMoves DEF IndInv, Rest
<1> USE <1>0 DEF storeVars, groupVars, stateVars, hostVars, TypeOK, TasksTypeOK, StoreTypeOK, GroupsTypeOK,
        StateTypeOK, HostTypeOK, Moves
<1>1. CASE Other(t)
  <2>1. \A i \in Ids : recycled'[i] = recycled[i] /\ (recycled[i] => leader'[i] = leader[i])
    BY <1>1, OtherStep DEF KillGroup, StrangerInv
  <2>2. ASSUME NEW i \in Ids, recycled[i], target'[t] = i, pc'[t] \in {"slive"} \cup Phases
        PROVE  target[t] = i /\ pc[t] \in {"slive"} \cup Phases
    BY <1>1, <2>2, StopGoes DEF StrangerInv, IsAlive
  <2>3. \A i \in Ids : recycled[i] => ~Turns(i)
    BY <1>1, <2>1, <2>2, OtherStep DEF Turns
  <2> QED
    BY <2>1, <2>3, StrangerKept
<1>2. CASE Reserve(t)
  <2>1. CASE UNCHANGED storeVars /\ Reply(t)
    BY <1>2, <2>1, StrangerKept DEF Reserve, Turns, Reply, SpawningPcs, Phases
  <2>2. ASSUME NEW i \in Ids, ReserveProcess(job[t].name, i), GotoOn(t, i, "fork")
        PROVE  StrangerInv'
    <3>1. leader[i] = "none"
      BY <2>2, NamesAssumption DEF ReserveProcess, Rest, FreshInv, Ids
    <3>2. \A j \in Ids : recycled[j] => j # i
      BY <3>1 DEF StrangerInv
    <3>3. /\ \A j \in Ids : j # i => status'[j] = status[j]
          /\ target'[t] = i /\ up' = up
          /\ UNCHANGED <<leader, recycled, live, reaper, fire>>
      BY <1>2, <2>2 DEF Reserve, ReserveProcess, GotoOn
    <3> QED
      BY <3>2, <3>3, StrangerKept DEF Turns
  <2> QED
    BY <1>2, <2>1, <2>2 DEF Reserve
<1>3. CASE ForkChild(t) \/ SpawnFailed(t) \/ Activate(t) \/ Insert(t)
  <2>1. target[t] \in Ids /\ pc[t] \in SpawningPcs
    BY <1>3, Claimed DEF ForkChild, SpawnFailed, Activate, Insert, SpawningPcs
  <2>2. \A i \in Ids : recycled[i] => target[t] # i
    BY <2>1 DEF StrangerInv, SpawningPcs
  <2>3. \A i \in Ids : i # target[t] =>
          /\ leader'[i] = leader[i] /\ status'[i] = status[i]
          /\ live'[i] = live[i] /\ reaper'[i] = reaper[i]
    BY <1>3, <2>1 DEF ForkChild, Fork, SpawnFailed, MarkSpawnFailed, SetStatus, Activate,
         ActivateProcess, Insert, InsertProcess
  <2>4. UNCHANGED <<recycled, fire, up>> /\ target'[t] \in {target[t], 0}
    BY <1>3, <2>1 DEF ForkChild, Fork, SpawnFailed, Activate, Insert, Reply, Goto
  <2>5. ASSUME NEW i \in Ids, recycled[i] PROVE ~Turns(i)
    <3>1. i # target[t] /\ target'[t] # i
      BY <2>2, <2>4, <2>5, NamesAssumption DEF Ids
    <3> QED
      BY <2>3, <2>4, <2>5, <3>1 DEF Turns
  <2> QED
    BY <2>4, <2>5, StrangerKept
<1>4. CASE StopMark(t)
  <2>1. target[t] \in Ids /\ job[t].cont \in Conts
    BY <1>4, Running DEF StopMark, TargetPcs, Jobs
  <2>2. /\ \A i \in Ids : status'[i] = "running" => status[i] = "running"
        /\ pc'[t] \notin SpawningPcs \cup {"slive"} \cup Phases
        /\ UNCHANGED <<leader, recycled, live, reaper, fire, up>>
    BY <1>4, <2>1 DEF StopMark, MarkProcessKilled, SetStatus, Reply, Goto, SpawningPcs, Phases, Conts
  <2> QED
    BY <2>2, StrangerKept DEF Turns
<1> QED
  BY <1>1, <1>2, <1>3, <1>4 DEF TaskStep, SpawnStep, StopStep, Other

\* No step breaks the invariant, provided pids are not recycled under an
\* operation on them.
LEMMA StrangerStep ==
    ASSUME IndInv, SupervisedInv, StrangerInv, [Next]_vars, Recycling # "any"
    PROVE  StrangerInv'
<1>0. TypeOK /\ Rest
  BY DEF IndInv, Rest
<1> USE <1>0 DEF storeVars, groupVars, stateVars, hostVars, taskVars, TypeOK, TasksTypeOK, StoreTypeOK,
        GroupsTypeOK, StateTypeOK, HostTypeOK
<1>1. ASSUME NEW i \in Ids, \/ FireTimer(i) \/ OrphanEnds(i) \/ FireStep(i) \/ ReaperStep(i)
                            \/ GroupMoves(i) \/ InitReaps(i)
      PROVE  StrangerInv'
  <2>1. UNCHANGED recycled
    BY <1>1 DEF FireTimer, OrphanEnds, FireStep, FireMark, FireFinish, FireEscalate, EscalateStep,
         KillGroup, ReaperStep, Reap, ReaperMark, ReaperFinish, GroupMoves, InitReaps, ReapLeader,
         LeaderExits, LeaderForks, OthersExit, ChangesUser
  <2>2. ASSUME NEW j \in Ids, recycled[j] PROVE ~Turns(j)
    <3>1. /\ leader[j] = "reaped" /\ reaper[j] = "none" /\ fire[j] = "idle" /\ ~live[j]
      BY <2>2 DEF StrangerInv
    <3>2. CASE FireTimer(i) \/ OrphanEnds(i) \/ FireFinish(i)
      BY <1>1, <3>1, <3>2 DEF FireTimer, OrphanEnds, FireFinish, FinishProcess, Turns
    <3>3. CASE FireMark(i) \/ ReaperMark(i)
      BY <1>1, <3>1, <3>3 DEF FireMark, ReaperMark, MarkProcessTimedOut, MarkProcessFinished,
         SetRunningStatus, SetStatus, Turns
    <3>4. CASE FireEscalate(i)
      BY <1>1, <3>1, <3>4 DEF FireEscalate, Turns, Phases, EscalateStep, KillGroup
    <3>5. CASE Reap(i) \/ ReaperFinish(i) \/ GroupMoves(i) \/ InitReaps(i)
      BY <1>1, <3>1, <3>5 DEF Reap, ReaperFinish, FinishProcess, GroupMoves, InitReaps, ReapLeader,
         LeaderExits, LeaderForks, OthersExit, ChangesUser, Turns
    <3> QED
      BY <1>1, <3>2, <3>3, <3>4, <3>5 DEF FireStep, ReaperStep
  <2> QED
    BY <2>1, <2>2, StrangerKept
<1>2. ASSUME NEW i \in Ids, Recycle(i) PROVE StrangerInv'
  <2>1. /\ ~InUse(i) /\ leader[i] = "reaped"
        /\ \A j \in Ids : j # i => recycled'[j] = recycled[j]
        /\ UNCHANGED <<leader, others, storeVars, stateVars, hostVars, taskVars, reaper, fire>>
    BY <1>2, DaemonAssumption DEF Recycle, RecyclePid, RecyclingKinds
  <2>2. ~live[i] /\ (up => status[i] # "running")
    BY <2>1 DEF InUse, SupervisedInv, RunningIsSupervised, Spawning
  <2> QED
    BY <2>1, <2>2 DEF StrangerInv, InUse
<1>3. CASE Crash \/ Boot \/ UNCHANGED vars
  BY <1>3 DEF Crash, Boot, MarkRunningProcessesLost, vars, StrangerInv, Phases, Rest, DownInv
<1>4. ASSUME NEW t \in Tasks, TaskStep(t) \/ StoreError(t) \/ \E op \in Requests : Receive(t, op)
      PROVE  StrangerInv'
  BY <1>4, TaskTurnsAway
<1> QED
  BY <1>1, <1>2, <1>3, <1>4 DEF Next, OSStep

\* No signal is about to go to a stranger's group, if the store does not fail
\* and no pid is recycled in the middle of an operation on it.
THEOREM NoStranger ==
    "store" \notin Faults /\ Recycling # "any" => (Spec => []NoStrangerSignaled)
<1> SUFFICES ASSUME "store" \notin Faults, Recycling # "any" PROVE Spec => []NoStrangerSignaled
  OBVIOUS
<1>1. Init => SupervisedInv /\ StrangerInv
  BY DEF Init, StoreInit, StateInit, GroupsInit, SupervisedInv, RunningIsSupervised, StrangerInv
<1>2. IndInv /\ SupervisedInv /\ StrangerInv /\ [Next]_vars => SupervisedInv' /\ StrangerInv'
  BY SupervisedStep, StrangerStep
<1>3. StrangerInv => NoStrangerSignaled
  BY DEF StrangerInv, NoStrangerSignaled, Phases
<1> QED
  BY <1>1, <1>2, <1>3, Invariance, PTL DEF Spec

-----------------------------------------------------------------------------
(* Listing what lives *)

\* What a handler may bring within reach has just been claimed.
Appears(i) == fire[i] = "idle" /\ status[i] = "running" /\ status'[i] = "running"

\* No task of the daemon moves on an expired timeout, no row is lost or timed
\* out, and what comes within reach has just been claimed.
Alike == /\ UNCHANGED <<fire, up, boots>>
         /\ \A i \in Ids : /\ status'[i] \in {"lost", "timed_out"} => status[i] = status'[i]
                           /\ Reachable(i)' => Reachable(i) \/ Appears(i)

LEMMA AlikeStep == ListedInv /\ Alike => ListedInv'
  BY DEF ListedInv, Alike, Appears

\* Every step of a handler is such a step.
LEMMA TaskAlike ==
    ASSUME TypeOK, Rest, NEW t \in Tasks,
           TaskStep(t) \/ StoreError(t) \/ \E op \in Requests : Receive(t, op)
    PROVE  Alike
<1> USE DEF TypeOK, StoreTypeOK, GroupsTypeOK, HostTypeOK, storeVars, groupVars, stateVars, hostVars
<1>1. CASE Other(t)
  BY <1>1, OtherStep DEF Alike, Reachable, KillGroup, groupVars
<1>2. CASE Reserve(t)
  BY <1>2 DEF Reserve, ReserveProcess, Alike, Reachable
<1>3. CASE ForkChild(t)
  <2>1. target[t] \in Ids /\ Owns(t, target[t]) /\ pc[t] = "fork"
    BY <1>3, Running DEF ForkChild, Rest, OwnersInv, Spawning, TargetPcs, SpawningPcs
  <2>2. fire[target[t]] = "idle" /\ status[target[t]] = "running"
    BY <2>1 DEF Owns
  <2>3. UNCHANGED <<status, fire, up, boots>>
    BY <1>3 DEF ForkChild
  <2>4. \A i \in Ids : Reachable(i)' => Reachable(i) \/ i = target[t]
    BY <1>3, <2>1 DEF ForkChild, Fork, Reachable
  <2> QED
    BY <2>1, <2>2, <2>3, <2>4 DEF Alike, Appears
<1>4. CASE SpawnFailed(t)
  BY <1>4 DEF SpawnFailed, MarkSpawnFailed, SetStatus, Alike, Reachable
<1>5. CASE Activate(t) \/ Insert(t)
  BY <1>5 DEF Activate, ActivateProcess, Insert, Alike, Reachable
<1>6. CASE StopMark(t)
  BY <1>6 DEF StopMark, MarkProcessKilled, SetStatus, Alike, Reachable
<1> QED
  BY <1>1, <1>2, <1>3, <1>4, <1>5, <1>6 DEF TaskStep, SpawnStep, StopStep, Other

\* An expired timeout marks the row before it signals, and is not done before
\* the leader is dead.
LEMMA FireListed ==
    ASSUME TypeOK, ListedInv, ~Unkillable, NEW i \in Ids, FireTimer(i) \/ FireStep(i)
    PROVE  ListedInv'
<1> USE DEF TypeOK, StoreTypeOK, GroupsTypeOK, HostTypeOK, storeVars, groupVars, hostVars, ListedInv, Reachable
<1>1. CASE FireTimer(i)
  BY <1>1 DEF FireTimer
<1>2. CASE FireMark(i)
  <2>1. /\ fire'[i] = "marked" /\ UNCHANGED <<leader, foreign, up, boots>>
        /\ \A j \in Ids : j # i => fire'[j] = fire[j] /\ status'[j] = status[j]
        /\ status'[i] = "lost" => status[i] = "lost"
    BY <1>2 DEF FireMark, MarkProcessTimedOut, SetRunningStatus, SetStatus
  <2> QED
    BY <2>1
<1>3. CASE FireFinish(i)
  BY <1>3 DEF FireFinish, FirstPhase
<1>4. CASE FireEscalate(i)
  <2>1. PICK next \in Phases \cup Outcomes :
          /\ EscalateStep(i, fire[i], next)
          /\ fire' = [fire EXCEPT ![i] = IF next \in Outcomes THEN "idle" ELSE next]
    BY <1>4 DEF FireEscalate
  <2>2. UNCHANGED <<status, up, boots>>
    BY <1>4 DEF FireEscalate
  <2>3. /\ \A j \in Ids : Reachable(j)' => Reachable(j)
        /\ \A j \in Ids : j # i => fire'[j] = fire[j]
        /\ fire'[i] \in {"idle", "confirm"} => ~Reachable(i)'
        /\ fire'[i] \in {"idle", "grace", "kill", "confirm"}
    BY <2>1 DEF EscalateStep, Phases, Outcomes, KillGroup, GroupAlive, Signalable, Survives
  <2> QED
    BY <2>2, <2>3
<1> QED
  BY <1>1, <1>2, <1>3, <1>4 DEF FireStep

\* Every step keeps ListedInv, if SIGKILL kills.
LEMMA ListedStep ==
    ASSUME IndInv, ListedInv, [Next]_vars, ~Unkillable
    PROVE  ListedInv'
<1>0. TypeOK /\ Rest
  BY DEF IndInv, Rest
<1> USE <1>0
<1>1. ASSUME NEW t \in Tasks, TaskStep(t) \/ StoreError(t) \/ \E op \in Requests : Receive(t, op)
      PROVE  ListedInv'
  BY <1>1, TaskAlike, AlikeStep
<1>2. ASSUME NEW i \in Ids, FireTimer(i) \/ FireStep(i) PROVE ListedInv'
  BY <1>2, FireListed
<1>3. ASSUME NEW i \in Ids, OrphanEnds(i) \/ ReaperStep(i) \/ OSStep(i) PROVE ListedInv'
  <2>1. /\ UNCHANGED <<fire, up, boots>>
        /\ \A j \in Ids : status'[j] \in {"lost", "timed_out"} => status[j] = status'[j]
    BY <1>3 DEF OrphanEnds, ReaperStep, Reap, ReaperMark, ReaperFinish, OSStep, GroupMoves, InitReaps,
           Recycle, MarkProcessFinished, SetRunningStatus, SetStatus, TypeOK, StoreTypeOK, storeVars, hostVars
  <2>2. \A j \in Ids : Reachable(j)' => Reachable(j)
    BY <1>3 DEF OrphanEnds, ReaperStep, Reap, ReaperMark, ReaperFinish, OSStep, GroupMoves, InitReaps,
           Recycle, ReapLeader, LeaderExits, LeaderForks, OthersExit, ChangesUser, RecyclePid, TypeOK,
           GroupsTypeOK, groupVars, Reachable
  <2> QED
    BY <2>1, <2>2, AlikeStep DEF Alike
<1>4. CASE Crash
  BY <1>4 DEF Crash, groupVars, ListedInv, Reachable
<1>5. CASE Boot
  <2>1. boots' # 0 /\ UNCHANGED <<fire, leader, foreign>>
    BY <1>5 DEF Boot, TypeOK, HostTypeOK, groupVars
  <2> QED
    BY <2>1 DEF ListedInv, Reachable
<1>6. CASE UNCHANGED vars
  BY <1>6 DEF vars, hostVars, storeVars, groupVars, ListedInv, Reachable
<1> QED
  BY <1>1, <1>2, <1>3, <1>4, <1>5, <1>6 DEF Next

\* While one daemon lives, `pz ps` shows every process that runs and that no
\* timeout is killing, whatever races for its row and whichever calls on the
\* store fail, provided SIGKILL kills: an escalation that gives up leaves a
\* row that says timed_out of a process that runs on.
THEOREM Listed == ~Unkillable => (Spec => []ListedWhileAlive)
<1> SUFFICES ASSUME ~Unkillable PROVE Spec => []ListedWhileAlive
  OBVIOUS
<1>1. Init => ListedInv
  BY DEF Init, StoreInit, ListedInv
<1>2. IndInv /\ ListedInv /\ [Next]_vars => ListedInv'
  BY ListedStep
<1>3. IndInv /\ VisibleWhileAlive /\ ListedInv => ListedWhileAlive
  BY DEF VisibleWhileAlive, ListedInv, ListedWhileAlive, Reachable
<1> QED
  BY <1>1, <1>2, <1>3, Invariance, Visibility, PTL DEF Spec

-----------------------------------------------------------------------------
(* Daemon implements Lifecycle: under the mapping of DaemonProps (a pid is
   known when it is recorded, a process is alive when its group's leader
   runs, and beyond the daemon when it has become another user's) every step of the daemon is a step of the abstract lifecycle or
   leaves its variables alone. *)

Alive == [i \in Ids |-> leader[i] = "running"]

Beyond == [i \in Ids |-> leader[i] = "running" /\ "leader" \in foreign[i]]

\* No process changes.
Same == Alive' = Alive /\ Beyond' = Beyond

AStep == [Abstract!LNext]_(Abstract!lifecycleVars)

-----------------------------------------------------------------------------
(* The abstract steps, in terms of the daemon's variables. *)

\* What is seen of a process changes with its leader alone.
LEMMA SeenSame ==
    ASSUME \A i \in Ids :
             /\ leader'[i] = "running" <=> leader[i] = "running"
             /\ leader[i] = "running" => ("leader" \in foreign'[i] <=> "leader" \in foreign[i])
    PROVE  Same
  BY DEF Same, Alive, Beyond

\* A step that changes neither row nor leader is a stutter.
LEMMA Stutter ==
    ASSUME UNCHANGED <<status, name, pid>>, Same
    PROVE  AStep
  BY DEF AStep, Abstract!lifecycleVars, Same, Alive, Beyond

\* The claim of a row.
LEMMA AClaim ==
    ASSUME NEW i \in Ids, NEW n \in Names \cup {NoName}, status[i] = "absent",
           n # NoName => ~\E j \in Ids : name[j] = n /\ Holds(j),
           status' = [status EXCEPT ![i] = "running"], name' = [name EXCEPT ![i] = n],
           pid' = pid, Same
    PROVE  AStep
<1>1. Abstract!Claim(i, n)
  BY DEF Abstract!Claim, Abstract!Holds, Abstract!Ids, Ids, Holds, Same, Alive, Beyond
<1> QED
  BY <1>1 DEF AStep, Abstract!LNext, Abstract!Ids, Ids

\* The start of a process.
LEMMA AStart ==
    ASSUME NEW i \in Ids, status[i] = "running", ~pid[i], leader[i] # "running",
           Alive' = [Alive EXCEPT ![i] = TRUE], Beyond' = Beyond, UNCHANGED <<status, name, pid>>
    PROVE  AStep
<1>1. Abstract!Start(i)
  BY DEF Abstract!Start, Alive, Beyond
<1> QED
  BY <1>1 DEF AStep, Abstract!LNext, Abstract!Ids, Ids

\* The record of its pid.
LEMMA ARecord ==
    ASSUME NEW i \in Ids, status[i] = "running", ~pid[i],
           pid' = [pid EXCEPT ![i] = TRUE], Same, UNCHANGED <<status, name>>
    PROVE  AStep
<1>1. Abstract!Record(i)
  BY DEF Abstract!Record, Same, Alive, Beyond
<1> QED
  BY <1>1 DEF AStep, Abstract!LNext, Abstract!Ids, Ids

\* Its death.
LEMMA ADie ==
    ASSUME NEW i \in Ids, leader[i] = "running",
           Alive' = [Alive EXCEPT ![i] = FALSE], Beyond' = [Beyond EXCEPT ![i] = FALSE],
           UNCHANGED <<status, name, pid>>
    PROVE  AStep
<1>1. Abstract!Die(i)
  BY DEF Abstract!Die, Alive, Beyond
<1> QED
  BY <1>1 DEF AStep, Abstract!LNext, Abstract!Ids, Ids

\* Its becoming another user's.
LEMMA AChangeUser ==
    ASSUME NEW i \in Ids, leader[i] = "running", Alive' = Alive,
           Beyond' = [Beyond EXCEPT ![i] = TRUE], UNCHANGED <<status, name, pid>>
    PROVE  AStep
<1>1. Abstract!ChangeUser(i)
  BY DEF Abstract!ChangeUser, Alive, Beyond
<1> QED
  BY <1>1 DEF AStep, Abstract!LNext, Abstract!Ids, Ids

\* A verdict that the row and the leader allow.
LEMMA AVerdict ==
    ASSUME NEW i \in Ids, NEW s,
           \/ s = "exited" /\ status[i] = "running" /\ leader[i] # "running" /\ pid[i]
           \/ s = "failed" /\ status[i] = "running" /\ leader[i] # "running" /\ ~pid[i]
           \/ s = "timed_out" /\ status[i] = "running" /\ pid[i]
           \/ s = "killed" /\ status[i] \in {"running", "exited", "timed_out"}
                           /\ pid[i] /\ ~Reachable(i)
           \/ s = "killed" /\ status[i] = "lost" /\ (pid[i] => ~Reachable(i)),
           status' = [status EXCEPT ![i] = s], Same, UNCHANGED <<name, pid>>
    PROVE  AStep
<1>1. Abstract!Verdict(i, s)
  BY DEF Abstract!Verdict, Abstract!Gone, Reachable, Same, Alive, Beyond
<1>2. s \in {"exited", "failed", "timed_out", "killed"}
  OBVIOUS
<1> QED
  BY <1>1, <1>2 DEF AStep, Abstract!LNext, Abstract!Ids, Ids

-----------------------------------------------------------------------------
(* The steps of the daemon. *)

\* The leaders' ways: a death, a change of user or nothing.
LEMMA GroupMaps ==
    ASSUME TypeOK, UNCHANGED <<status, name, pid>>, NEW i \in Ids,
           \/ UNCHANGED groupVars
           \/ KillGroup(i) \/ ReapLeader(i) \/ LeaderExits(i) \/ LeaderForks(i) \/ OthersExit(i)
           \/ ChangesUser(i) \/ RecyclePid(i)
    PROVE  AStep
<1> USE DEF TypeOK, GroupsTypeOK, groupVars
<1>1. CASE /\ leader[i] = "running" /\ leader' = [leader EXCEPT ![i] = "zombie"]
           /\ UNCHANGED foreign
  <2>1. /\ Alive' = [Alive EXCEPT ![i] = FALSE]
        /\ Beyond' = [Beyond EXCEPT ![i] = FALSE]
    BY <1>1 DEF Alive, Beyond
  <2> QED
    BY <1>1, <2>1, ADie
<1>2. CASE ChangesUser(i)
  <2>1. CASE leader[i] = "running" /\ foreign' = [foreign EXCEPT ![i] = @ \cup {"leader"}]
    <3>1. Alive' = Alive /\ Beyond' = [Beyond EXCEPT ![i] = TRUE]
      BY <1>2, <2>1 DEF ChangesUser, Alive, Beyond
    <3> QED
      BY <2>1, <3>1, AChangeUser
  <2>2. CASE foreign' = [foreign EXCEPT ![i] = @ \cup {"others"}]
    BY <1>2, <2>2, SeenSame, Stutter DEF ChangesUser
  <2> QED
    BY <1>2, <2>1, <2>2 DEF ChangesUser
<1>3. CASE UNCHANGED groupVars
  BY <1>3, SeenSame, Stutter
<1>4. CASE KillGroup(i)
  <2>1. CASE leader[i] = "running" /\ "leader" \notin foreign[i] /\ ~UNCHANGED groupVars
    BY <1>1, <1>4, <2>1 DEF KillGroup
  <2>2. CASE ~(leader[i] = "running" /\ "leader" \notin foreign[i]) /\ ~UNCHANGED groupVars
    BY <1>4, <2>2, SeenSame, Stutter DEF KillGroup
  <2> QED
    BY <1>3, <2>1, <2>2
<1>5. CASE LeaderExits(i)
  BY <1>1, <1>5 DEF LeaderExits
<1>6. CASE ReapLeader(i) \/ OthersExit(i) \/ RecyclePid(i)
  <2>1. /\ \A j \in Ids : leader'[j] = "running" <=> leader[j] = "running"
        /\ \A j \in Ids : leader[j] = "running" =>
             ("leader" \in foreign'[j] <=> "leader" \in foreign[j])
    BY <1>6 DEF ReapLeader, OthersExit, RecyclePid
  <2> QED
    BY <2>1, SeenSame, Stutter
<1>7. CASE LeaderForks(i)
  BY <1>7, SeenSame, Stutter DEF LeaderForks
<1> QED
  BY <1>2, <1>3, <1>4, <1>5, <1>6, <1>7

\* The steps of a spawn.
LEMMA SpawnMaps ==
    ASSUME IndInv, NEW t \in Tasks,
           Reserve(t) \/ ForkChild(t) \/ SpawnFailed(t) \/ Activate(t) \/ Insert(t)
    PROVE  AStep
<1>0. TypeOK /\ Rest
  BY DEF IndInv, Rest
<1> USE <1>0 DEF storeVars, groupVars, stateVars, hostVars, TypeOK, TasksTypeOK, StoreTypeOK, GroupsTypeOK
<1>1. CASE Reserve(t)
  <2>0. Same
    BY <1>1, SeenSame DEF Reserve
  <2>1. CASE UNCHANGED storeVars
    BY <2>0, <2>1, Stutter
  <2>2. ASSUME NEW i \in Ids, ReserveProcess(job[t].name, i), GotoOn(t, i, "fork")
        PROVE  AStep
    <3>1. status[i] = "absent" /\ job[t].name \in Names \cup {NoName}
      BY <2>2, NamesAssumption DEF ReserveProcess, Rest, FreshInv, Ids, Jobs
    <3>2. job[t].name # NoName => ~\E j \in Ids : name[j] = job[t].name /\ Holds(j)
      BY <1>1, <2>2 DEF Reserve, ReserveProcess, NameTaken, RunningAs, Holds, Rest, NamesInv
    <3> QED
      BY <2>0, <2>2, <3>1, <3>2, AClaim DEF ReserveProcess
  <2> QED
    BY <1>1, <2>1, <2>2 DEF Reserve
<1>2. CASE ForkChild(t)
  <2>1. /\ target[t] \in Ids /\ status[target[t]] = "running" /\ ~pid[target[t]]
        /\ leader[target[t]] = "none"
    BY <1>2, Claimed DEF ForkChild, SpawningPcs, Owns
  <2>2. CASE Fork(target[t])
    <3>1. Alive' = [Alive EXCEPT ![target[t]] = TRUE] /\ Beyond' = Beyond
      BY <2>1, <2>2 DEF Alive, Beyond, Fork
    <3> QED
      BY <1>2, <2>1, <3>1, AStart DEF ForkChild
  <2>3. CASE UNCHANGED groupVars
    BY <1>2, <2>3, SeenSame, Stutter DEF ForkChild
  <2> QED
    BY <1>2, <2>2, <2>3 DEF ForkChild
<1>3. CASE SpawnFailed(t)
  <2>0. Same
    BY <1>3, SeenSame DEF SpawnFailed
  <2>1. /\ target[t] \in Ids /\ status[target[t]] = "running" /\ ~pid[target[t]]
        /\ leader[target[t]] = "none"
    BY <1>3, Claimed DEF SpawnFailed, SpawningPcs, Owns
  <2> QED
    BY <1>3, <2>0, <2>1, AVerdict, Stutter DEF SpawnFailed, MarkSpawnFailed, SetStatus
<1>4. CASE Activate(t)
  <2>0. Same
    BY <1>4, SeenSame DEF Activate
  <2>1. target[t] \in Ids /\ status[target[t]] = "running" /\ ~pid[target[t]]
    BY <1>4, Claimed DEF Activate, SpawningPcs, Owns
  <2> QED
    BY <1>4, <2>0, <2>1, ARecord, Stutter DEF Activate, ActivateProcess
<1>5. CASE Insert(t)
  BY <1>5, SeenSame, Stutter DEF Insert
<1> QED
  BY <1>1, <1>2, <1>3, <1>4, <1>5

\* The verdicts of stops, timeouts and reapers.
LEMMA VerdictMaps ==
    ASSUME IndInv,
           \/ \E t \in Tasks : StopMark(t)
           \/ \E i \in Ids : FireMark(i) \/ ReaperMark(i)
    PROVE  AStep
<1>0. TypeOK /\ Rest
  BY DEF IndInv, Rest
<1> USE <1>0 DEF storeVars, groupVars, stateVars, hostVars, TypeOK, TasksTypeOK, StoreTypeOK, GroupsTypeOK,
        HostTypeOK
<1>1. ASSUME NEW t \in Tasks, StopMark(t) PROVE AStep
  <2> DEFINE i == target[t]
  <2>0. Same
    BY <1>1, SeenSame DEF StopMark
  <2>1. i \in Ids /\ Concludes(i)
    BY <1>1, Running DEF StopMark, TargetPcs, Rest, StopInv, Concludes
  <2>2. status' = [status EXCEPT ![i] = "killed"] /\ UNCHANGED <<name, pid>>
    BY <1>1 DEF StopMark, MarkProcessKilled, SetStatus
  <2>3. /\ status[i] \in Statuses
        /\ status[i] = "failed" => ~pid[i]
    BY <2>1 DEF Concludes, Rest, VerdictInv, FreshInv
  <2>4. CASE status[i] = "killed"
    <3>1. status' = status
      BY <2>1, <2>2, <2>4
    <3> QED
      BY <2>0, <2>2, <3>1, Stutter
  <2>5. CASE status[i] # "killed"
    <3>1. \/ status[i] \in {"running", "exited", "timed_out"} /\ pid[i] /\ ~Reachable(i)
          \/ status[i] = "lost" /\ (pid[i] => ~Reachable(i))
      BY <2>1, <2>3, <2>5 DEF Concludes, Statuses
    <3> QED
      BY <2>0, <2>1, <2>2, <3>1, AVerdict
  <2> QED
    BY <2>4, <2>5
<1>2. ASSUME NEW i \in Ids, FireMark(i) PROVE AStep
  <2>0. Same
    BY <1>2, SeenSame DEF FireMark
  <2>1. pid[i]
    BY <1>2 DEF FireMark, Rest, PidInv
  <2>2. CASE status' = status
    BY <1>2, <2>0, <2>2, Stutter DEF FireMark, MarkProcessTimedOut, SetRunningStatus, SetStatus
  <2>3. CASE status[i] = "running" /\ status' = [status EXCEPT ![i] = "timed_out"]
    BY <1>2, <2>0, <2>1, <2>3, AVerdict DEF FireMark, MarkProcessTimedOut, SetRunningStatus, SetStatus
  <2> QED
    BY <1>2, <2>2, <2>3 DEF FireMark, MarkProcessTimedOut, SetRunningStatus, SetStatus
<1>3. ASSUME NEW i \in Ids, ReaperMark(i) PROVE AStep
  <2>0. Same
    BY <1>3, SeenSame DEF ReaperMark
  <2>1. pid[i] /\ leader[i] = "reaped"
    BY <1>3 DEF ReaperMark, Rest, PidInv
  <2>2. CASE status' = status
    BY <1>3, <2>0, <2>2, Stutter DEF ReaperMark, MarkProcessFinished, SetRunningStatus, SetStatus
  <2>3. CASE status[i] = "running" /\ status' = [status EXCEPT ![i] = "exited"]
    BY <1>3, <2>0, <2>1, <2>3, AVerdict DEF ReaperMark, MarkProcessFinished, SetRunningStatus, SetStatus
  <2> QED
    BY <1>3, <2>2, <2>3 DEF ReaperMark, MarkProcessFinished, SetRunningStatus, SetStatus
<1> QED
  BY <1>1, <1>2, <1>3

\* Every step of the daemon is a step of the lifecycle, or none of it.
LEMMA StepMaps == IndInv /\ [Next]_vars => AStep
<1> SUFFICES ASSUME IndInv, [Next]_vars PROVE AStep
  OBVIOUS
<1>0. TypeOK
  BY DEF IndInv
<1> USE <1>0 DEF storeVars, groupVars, stateVars, hostVars, taskVars
<1>1. ASSUME NEW t \in Tasks, Other(t) PROVE AStep
  <2>1. CASE UNCHANGED groupVars
    BY <1>1, <2>1, OtherStep, SeenSame, Stutter
  <2>2. CASE pc[t] \in Phases /\ KillGroup(target[t])
    <3>1. target[t] \in Ids
      BY <2>2 DEF IndInv, TargetInv
    <3> QED
      BY <1>1, <2>2, <3>1, OtherStep, GroupMaps
  <2> QED
    BY <1>1, <2>1, <2>2, OtherStep
<1>2. ASSUME NEW i \in Ids, FireTimer(i) \/ OrphanEnds(i) \/ FireFinish(i) \/ ReaperFinish(i)
      PROVE  AStep
  BY <1>2, SeenSame, Stutter DEF FireTimer, OrphanEnds, FireFinish, ReaperFinish
<1>3. ASSUME NEW i \in Ids, FireEscalate(i) \/ Reap(i) \/ OSStep(i) PROVE AStep
  <2>1. UNCHANGED <<status, name, pid>>
    BY <1>3 DEF FireEscalate, Reap, OSStep, GroupMoves, InitReaps, Recycle
  <2> QED
    BY <1>3, <2>1, GroupMaps
       DEF FireEscalate, EscalateStep, Reap, OSStep, GroupMoves, InitReaps, Recycle
<1>4. CASE Boot
  <2>1. Same
    BY <1>4, SeenSame DEF Boot
  <2>2. Abstract!LoseAll
    BY <1>4, <2>1 DEF Boot, MarkRunningProcessesLost, Abstract!LoseAll, Abstract!Ids, Ids, Same, Alive, Beyond
  <2> QED
    BY <2>2 DEF AStep, Abstract!LNext
<1>5. CASE Crash \/ UNCHANGED vars
  BY <1>5, SeenSame, Stutter DEF Crash, vars
<1> QED
  BY <1>1, <1>2, <1>3, <1>4, <1>5, SpawnMaps, VerdictMaps
     DEF Next, TaskStep, SpawnStep, StopStep, FireStep, ReaperStep, Other

\* What the daemon does to a generation is what Lifecycle allows: statuses
\* only move as documented, each final one tells the truth about the process,
\* and a name is claimed only when its holder is dead or forgotten.
THEOREM Refinement == Spec => Implements
<1>1. Init => Abstract!LInit
  BY DEF Init, StoreInit, GroupsInit, Abstract!LInit, Abstract!Ids, Ids
<1>2. IndInv /\ [Next]_vars => [Abstract!LNext]_(Abstract!lifecycleVars)
  BY StepMaps DEF AStep
<1> QED
  BY <1>1, <1>2, Invariance, PTL DEF Spec, Implements, Abstract!LSpec
=============================================================================
