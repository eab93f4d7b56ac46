---------------------------- MODULE StartupProof ----------------------------
(***************************************************************************)
(* Proofs about Startup, for every number of daemons, rows and shells: as  *)
(* long as starts do not overlap, the socket file always leads to the one  *)
(* daemon that serves it, and the boot pass and `pz daemon start` can rely *)
(* on it.                                                                  *)
(***************************************************************************)
EXTENDS Startup, TLAPS

\* A daemon that is about to unlink, to run the boot pass or to bind has
\* found nobody listening, and nobody else has started since.
SocketInv ==
    /\ \A d, e \in Daemons : Starting(d) /\ Starting(e) => d = e
    /\ \A d \in Daemons : Listening(d) \/ pc[d] = "listen" => file[Socket(d)] = d
    /\ \A d, e \in Daemons :
         pc[d] \in {"unlink", "lose", "bind"} /\ Socket(e) = Socket(d) => ~Listening(e)

\* Past its boot pass a daemon shares the database with no running row of a
\* crashed one.
RowsInv ==
    \A d \in Daemons, r \in Rows :
        /\ pc[d] \in {"bind", "listen", "serve"} /\ status[r] = "running"
        /\ Database(owner[r]) = Database(d)
        => pc[owner[r]] # "crashed"

OwnersInv == \A r \in Rows : status[r] = "running" => owner[r] \in Daemons

FileInv == \A p \in Paths : file[p] # None => Socket(file[p]) = p

ToldInv == \A d \in Daemons : pc[d] = "remove" => told[d]

\* They have ended for good.
EarlierInv == \A d \in Earlier : pc[d] = "crashed"

\* What may have ended the service of a socket.
Ended(p) == \E e \in Daemons \ Earlier :
                Socket(e) = p /\ (told[e] \/ pc[e] \in {"crashed", "fail", "failed"})

ClientInv == \A d \in Daemons : client[d] = "ok" => Connectable(Socket(d)) \/ Ended(Socket(d))

Inv == /\ TypeOK /\ OwnersInv /\ ToldInv /\ FileInv /\ EarlierInv
       /\ ~overlap => SocketInv /\ ClientInv
       /\ ~overlap /\ Consistent => RowsInv

-----------------------------------------------------------------------------
\* Socket and Database are fixed once the environments are chosen.
LEMMA Fixed ==
    ASSUME TypeOK, [Next]_vars
    PROVE  /\ env' = env /\ overlap' = overlap
           /\ \A d \in Daemons : Socket(d)' = Socket(d) /\ Database(d)' = Database(d)
                                   /\ Socket(d) \in Paths
<1>1. env' = env /\ overlap' = overlap
  BY DEF Next, vars, RunDaemon, StartStep, TryExists, Probe, RemoveStale, LoseRows, Bind, Listen,
         AnswerStop, StopStep, Shutdown, RemoveFile, Exit, AcceptFails, Crash, ClientStep,
         StartCommand, Ask, LaunchChild, Poll, UnchangedButClient, Claim
<1> QED
  BY <1>1 DEF Socket, Database, Paths, TypeOK

\* Every step keeps the types.
LEMMA TypeStep == TypeOK /\ [Next]_vars => TypeOK'
<1> SUFFICES ASSUME TypeOK, [Next]_vars PROVE TypeOK'
  OBVIOUS
<1>0. env' = env /\ overlap' = overlap /\ \A d \in Daemons : Socket(d) \in Paths
  BY Fixed
<1> USE <1>0 DEF TypeOK, Pcs, StartingPcs, EndedPcs, ClientPcs, daemonVars, rowVars, Step, Turn,
        UnchangedButClient
<1>1. ASSUME NEW d \in Daemons, RunDaemon(d) \/ StartStep(d) PROVE TypeOK'
  BY <1>1 DEF RunDaemon, StartStep, TryExists, Probe, RemoveStale, LoseRows, Bind, Listen
<1>2. ASSUME NEW d \in Daemons, AnswerStop(d) \/ StopStep(d) \/ AcceptFails(d) \/ Crash(d) PROVE TypeOK'
  BY <1>2 DEF AnswerStop, StopStep, Shutdown, RemoveFile, Exit, AcceptFails, Crash
<1>3. ASSUME NEW d \in Daemons, ClientStep(d) PROVE TypeOK'
  BY <1>3 DEF ClientStep, StartCommand, Ask, LaunchChild, Poll
<1>4. ASSUME NEW d \in Daemons, NEW r \in Rows, Claim(d, r) PROVE TypeOK'
  BY <1>4 DEF Claim
<1>5. CASE UNCHANGED vars
  BY <1>5 DEF vars
<1> QED
  BY <1>1, <1>2, <1>3, <1>4, <1>5 DEF Next

\* A running row has an owner, a daemon that removes its file was told, a file
\* is linked at its daemon's path, and the earlier daemons stay ended.
LEMMA SmallStep ==
    TypeOK /\ OwnersInv /\ ToldInv /\ FileInv /\ EarlierInv /\ [Next]_vars
        => OwnersInv' /\ ToldInv' /\ FileInv' /\ EarlierInv'
<1> SUFFICES ASSUME TypeOK, OwnersInv, ToldInv, FileInv, EarlierInv, [Next]_vars
             PROVE  OwnersInv' /\ ToldInv' /\ FileInv' /\ EarlierInv'
  OBVIOUS
<1>0. \A d \in Daemons : Socket(d)' = Socket(d) /\ Socket(d) \in Paths
  BY Fixed
<1> USE <1>0, StartupAssumption DEF TypeOK, OwnersInv, ToldInv, FileInv, EarlierInv, daemonVars, rowVars, Step, UnchangedButClient
<1>1. ASSUME NEW d \in Daemons, RunDaemon(d) \/ StartStep(d) PROVE OwnersInv' /\ ToldInv' /\ FileInv' /\ EarlierInv'
  BY <1>1 DEF RunDaemon, StartStep, TryExists, Probe, RemoveStale, LoseRows, Bind, Listen
<1>2. ASSUME NEW d \in Daemons, AnswerStop(d) \/ StopStep(d) \/ AcceptFails(d) \/ Crash(d)
      PROVE  OwnersInv' /\ ToldInv' /\ FileInv' /\ EarlierInv'
  BY <1>2 DEF AnswerStop, StopStep, Shutdown, RemoveFile, Exit, AcceptFails, Crash, Starting, StartingPcs, Listening
<1>3. ASSUME NEW d \in Daemons, ClientStep(d) PROVE OwnersInv' /\ ToldInv' /\ FileInv' /\ EarlierInv'
  BY <1>3 DEF ClientStep, StartCommand, Ask, LaunchChild, Poll
<1>4. ASSUME NEW d \in Daemons, NEW r \in Rows, Claim(d, r) PROVE OwnersInv' /\ ToldInv' /\ FileInv' /\ EarlierInv'
  BY <1>4 DEF Claim
<1>5. CASE UNCHANGED vars
  BY <1>5 DEF vars
<1> QED
  BY <1>1, <1>2, <1>3, <1>4, <1>5 DEF Next

-----------------------------------------------------------------------------
(* The socket *)

\* A step that leaves the files alone and moves one daemon among the places
\* where SocketInv asks nothing new of it.
LEMMA SocketQuiet ==
    ASSUME TypeOK, SocketInv, env' = env, UNCHANGED file,
           \A d \in Daemons :
             \/ pc'[d] = pc[d]
             \/ pc'[d] \in {"exit", "fail"} \cup EndedPcs
             \/ pc[d] = "serve" /\ pc'[d] = "remove"
             \/ pc[d] = "exists" /\ pc'[d] = "connect"
             \/ pc[d] \in {"unlink", "lose"} /\ pc'[d] \in {"lose", "bind"}
    PROVE  SocketInv'
  BY DEF SocketInv, Starting, StartingPcs, Listening, Socket, EndedPcs

\* The steps of a start, when no other is under way.
LEMMA SocketStartStep ==
    ASSUME TypeOK, SocketInv, NEW d \in Daemons, StartStep(d), env' = env, Socket(d) \in Paths
    PROVE  SocketInv'
<1> USE DEF TypeOK, Step
<1>1. CASE TryExists(d)
  <2>1. CASE file[Socket(d)] = None
    <3>1. \A e \in Daemons : Socket(e) = Socket(d) => ~Listening(e)
      BY <2>1, StartupAssumption DEF SocketInv
    <3> QED
      BY <1>1, <2>1, <3>1 DEF TryExists, SocketInv, Starting, StartingPcs, Listening, Socket
  <2>2. CASE file[Socket(d)] # None
    BY <1>1, <2>2, SocketQuiet DEF TryExists
  <2> QED
    BY <2>1, <2>2
<1>2. CASE Probe(d)
  <2>1. CASE ~Connectable(Socket(d))
    <3>1. \A e \in Daemons : Socket(e) = Socket(d) => ~Listening(e)
      BY <2>1, StartupAssumption DEF SocketInv, Connectable
    <3> QED
      BY <1>2, <2>1, <3>1 DEF Probe, SocketInv, Starting, StartingPcs, Listening, Socket
  <2>2. CASE Connectable(Socket(d))
    BY <1>2, <2>2, SocketQuiet DEF Probe, EndedPcs
  <2> QED
    BY <2>1, <2>2
<1>3. CASE RemoveStale(d)
  <2>1. /\ pc[d] = "unlink" /\ pc'[d] \in {"lose", "bailed"}
        /\ \A e \in Daemons : e # d => pc'[e] = pc[e]
        /\ \A p \in Paths : p # Socket(d) => file'[p] = file[p]
    BY <1>3 DEF RemoveStale
  <2>2. \A e \in Daemons : Socket(e) = Socket(d) => ~Listening(e) /\ pc[e] # "listen"
    BY <2>1 DEF SocketInv, Starting, StartingPcs
  <2>3. \A e \in Daemons : Socket(e) \in Paths /\ Socket(e)' = Socket(e)
    BY DEF Socket, Paths
  <2> QED
    BY <2>1, <2>2, <2>3 DEF SocketInv, Starting, StartingPcs, Listening
<1>4. CASE LoseRows(d)
  BY <1>4, SocketQuiet DEF LoseRows
<1>5. CASE Bind(d)
  <2>1. CASE file[Socket(d)] = None
    <3>1. /\ pc[d] = "bind" /\ pc'[d] = "listen" /\ file'[Socket(d)] = d
          /\ \A e \in Daemons : e # d => pc'[e] = pc[e]
          /\ \A p \in Paths : p # Socket(d) => file'[p] = file[p]
      BY <1>5, <2>1 DEF Bind
    <3>2. \A e \in Daemons : Socket(e) = Socket(d) => ~Listening(e) /\ (pc[e] # "listen")
      BY <3>1 DEF SocketInv, Starting, StartingPcs
    <3>3. \A e \in Daemons : Socket(e) \in Paths /\ Socket(e)' = Socket(e)
      BY DEF Socket, Paths
    <3> QED
      BY <3>1, <3>2, <3>3 DEF SocketInv, Starting, StartingPcs, Listening
  <2>2. CASE file[Socket(d)] # None
    <3>1. UNCHANGED file
      BY <1>5, <2>2 DEF Bind
    <3> QED
      BY <1>5, <2>2, <3>1, SocketQuiet DEF Bind, EndedPcs
  <2> QED
    BY <2>1, <2>2
<1>6. CASE Listen(d)
  <2>1. /\ pc[d] = "listen" /\ pc'[d] = "serve" /\ UNCHANGED file
        /\ \A e \in Daemons : e # d => pc'[e] = pc[e]
    BY <1>6 DEF Listen
  <2> QED
    BY <2>1 DEF SocketInv, Starting, StartingPcs, Listening, Socket
<1> QED
  BY <1>1, <1>2, <1>3, <1>4, <1>5, <1>6 DEF StartStep

\* The removal of the file at a stop: it is the daemon's own.
LEMMA SocketRemoveStep ==
    ASSUME TypeOK, SocketInv, NEW d \in Daemons, RemoveFile(d), env' = env, Socket(d) \in Paths
    PROVE  SocketInv'
<1>1. /\ pc[d] = "remove" /\ pc'[d] = "exit"
      /\ \A e \in Daemons : e # d => pc'[e] = pc[e]
      /\ \A p \in Paths : p # Socket(d) => file'[p] = file[p]
  BY DEF RemoveFile, Step, TypeOK
<1>2. \A e \in Daemons : Socket(e) = Socket(d) /\ (Listening(e) \/ pc[e] = "listen") => e = d
  BY <1>1 DEF SocketInv, Listening
<1>3. \A e \in Daemons : Socket(e) \in Paths /\ Socket(e)' = Socket(e)
  BY DEF Socket, Paths, TypeOK
<1> QED
  BY <1>1, <1>2, <1>3 DEF SocketInv, Starting, StartingPcs, Listening

\* No step breaks SocketInv while starts do not overlap.
LEMMA SocketStep == TypeOK /\ SocketInv /\ ~overlap /\ [Next]_vars => SocketInv'
<1> SUFFICES ASSUME TypeOK, SocketInv, ~overlap, [Next]_vars PROVE SocketInv'
  OBVIOUS
<1>0. env' = env /\ \A d \in Daemons : Socket(d) \in Paths
  BY Fixed
<1> USE <1>0 DEF daemonVars, rowVars, Step, UnchangedButClient
<1>1. ASSUME NEW d \in Daemons, RunDaemon(d) \/ LaunchChild(d) PROVE SocketInv'
  BY <1>1 DEF RunDaemon, LaunchChild, MayLaunch, TypeOK, SocketInv, Starting, StartingPcs, Listening,
     Socket
<1>2. ASSUME NEW d \in Daemons, StartStep(d) \/ RemoveFile(d) PROVE SocketInv'
  BY <1>2, SocketStartStep, SocketRemoveStep
<1>3. ASSUME NEW d \in Daemons, \/ AnswerStop(d) \/ Shutdown(d) \/ Exit(d) \/ AcceptFails(d)
                                \/ Crash(d)
      PROVE  SocketInv'
  BY <1>3, SocketQuiet DEF AnswerStop, Shutdown, Exit, AcceptFails, Crash, TypeOK, EndedPcs
<1>4. ASSUME NEW d \in Daemons, \/ StartCommand(d) \/ Ask(d) \/ Poll(d)
                                \/ \E r \in Rows : Claim(d, r)
      PROVE  SocketInv'
  BY <1>4, SocketQuiet DEF StartCommand, Ask, Poll, Claim
<1>5. CASE UNCHANGED vars
  BY <1>5, SocketQuiet DEF vars
<1> QED
  BY <1>1, <1>2, <1>3, <1>4, <1>5 DEF Next, StopStep, ClientStep

-----------------------------------------------------------------------------
(* The rows *)

\* A daemon past its boot pass never sees a running row of a crashed one.
LEMMA RowsStep ==
    TypeOK /\ OwnersInv /\ SocketInv /\ RowsInv /\ Consistent /\ [Next]_vars => RowsInv'
<1> SUFFICES ASSUME TypeOK, OwnersInv, SocketInv, RowsInv, Consistent, [Next]_vars PROVE RowsInv'
  OBVIOUS
<1>0. env' = env
  BY Fixed
<1> USE <1>0 DEF TypeOK, RowsInv, OwnersInv, Database, daemonVars, rowVars, Step, UnchangedButClient
<1>1. ASSUME NEW d \in Daemons, \/ TryExists(d) \/ Probe(d) \/ RemoveStale(d) \/ Bind(d) \/ Listen(d)
                                \/ RunDaemon(d) \/ LaunchChild(d) \/ AnswerStop(d) \/ StopStep(d)
                                \/ AcceptFails(d)
      PROVE  RowsInv'
  BY <1>1 DEF TryExists, Probe, RemoveStale, Bind, Listen, RunDaemon, LaunchChild, AnswerStop,
     StopStep, Shutdown, RemoveFile, Exit, AcceptFails
<1>2. ASSUME NEW d \in Daemons, LoseRows(d) PROVE RowsInv'
  BY <1>2 DEF LoseRows, Lost
<1>3. ASSUME NEW c \in Daemons, Crash(c) PROVE RowsInv'
  <2>1. ASSUME NEW d \in Daemons, NEW r \in Rows,
               pc'[d] \in {"bind", "listen", "serve"}, status'[r] = "running",
               Database(owner[r]) = Database(d), owner[r] = c
        PROVE  pc'[c] # "crashed"
    <3>1. d # c /\ pc[d] = pc'[d]
      BY <1>3, <2>1 DEF Crash
    <3>2. Socket(c) = Socket(d)
      BY <2>1 DEF Consistent, Socket
    <3>3. ~Listening(c)
      BY <2>1, <3>1, <3>2 DEF SocketInv, Listening
    <3>4. Starting(c)
      BY <1>3, <3>3 DEF Crash
    <3> QED
      BY <1>3, <3>3, <3>4 DEF Crash
  <2>2. \A e \in Daemons : e # c => pc'[e] = pc[e]
    BY <1>3 DEF Crash
  <2>3. pc'[c] \notin {"bind", "listen", "serve"} /\ UNCHANGED <<status, owner>>
    BY <1>3 DEF Crash
  <2>4. \A r \in Rows : status[r] = "running" => owner[r] \in Daemons
    OBVIOUS
  <2> QED
    BY <2>1, <2>2, <2>3, <2>4
<1>4. ASSUME NEW d \in Daemons, NEW r \in Rows, Claim(d, r) PROVE RowsInv'
  BY <1>4 DEF Claim, Running
<1>5. ASSUME NEW d \in Daemons, StartCommand(d) \/ Ask(d) \/ Poll(d) PROVE RowsInv'
  BY <1>5 DEF StartCommand, Ask, Poll
<1>6. CASE UNCHANGED vars
  BY <1>6 DEF vars
<1> QED
  BY <1>1, <1>2, <1>3, <1>4, <1>5, <1>6 DEF Next, StartStep, ClientStep

-----------------------------------------------------------------------------
(* The client *)

\* A socket that can be reached stays so until its daemon is told to stop or
\* dies.
LEMMA StaysConnectable ==
    ASSUME TypeOK, SocketInv, FileInv, ToldInv, EarlierInv, [Next]_vars, NEW d \in Daemons,
           Connectable(Socket(d))
    PROVE  Connectable(Socket(d))' \/ Ended(Socket(d))'
<1>0. /\ env' = env /\ Socket(d)' = Socket(d)
      /\ \A c \in Daemons : Socket(c)' = Socket(c) /\ Socket(c) \in Paths
  BY Fixed
<1>f. PICK e \in Daemons : e = file[Socket(d)] /\ Listening(e)
  BY <1>0 DEF Connectable, TypeOK
<1> USE <1>0, <1>f DEF TypeOK, daemonVars, rowVars, Step, UnchangedButClient
<1>2. ASSUME file'[Socket(d)] = e, Listening(e)' PROVE Connectable(Socket(d))'
  BY <1>2, StartupAssumption DEF Connectable
<1>3. ASSUME NEW c \in Daemons, \/ TryExists(c) \/ Probe(c) \/ LoseRows(c) \/ Listen(c)
                                \/ RunDaemon(c) \/ LaunchChild(c) \/ AnswerStop(c) \/ Shutdown(c)
                                \/ Exit(c) \/ StartCommand(c) \/ Ask(c) \/ Poll(c)
                                \/ \E r \in Rows : Claim(c, r)
      PROVE  Connectable(Socket(d))'
  BY <1>f, <1>2, <1>3 DEF TryExists, Probe, LoseRows, Listen, RunDaemon, LaunchChild, AnswerStop, Shutdown,
     Exit, StartCommand, Ask, Poll, Claim, Listening
<1>4. ASSUME NEW c \in Daemons, Bind(c) PROVE Connectable(Socket(d))'
  <2>1. file'[Socket(d)] = e
    BY <1>f, <1>4, StartupAssumption DEF Bind
  <2> QED
    BY <1>2, <1>4, <2>1 DEF Bind, Listening
<1>s. Socket(e) = Socket(d)
  BY <1>f, StartupAssumption DEF FileInv
<1>5. ASSUME NEW c \in Daemons, RemoveStale(c) PROVE Connectable(Socket(d))'
  <2>1. Socket(c) # Socket(d) /\ c # e
    BY <1>5, <1>s DEF RemoveStale, SocketInv, Listening
  <2> QED
    BY <1>f, <1>2, <1>5, <2>1 DEF RemoveStale, Listening
<1>6. ASSUME NEW c \in Daemons, RemoveFile(c) PROVE Connectable(Socket(d))' \/ Ended(Socket(d))'
  <2>1. CASE Socket(c) = Socket(d)
    <3>1. told'[c]
      BY <1>6 DEF RemoveFile, ToldInv
    <3>2. c \notin Earlier
      BY <1>6 DEF RemoveFile, EarlierInv
    <3> QED
      BY <2>1, <3>1, <3>2 DEF Ended
  <2>2. CASE Socket(c) # Socket(d)
    <3>1. c # e
      BY <1>s, <2>2
    <3> QED
      BY <1>f, <1>2, <1>6, <2>2, <3>1 DEF RemoveFile, Listening
  <2> QED
    BY <2>1, <2>2
<1>7. ASSUME NEW c \in Daemons, Crash(c) \/ AcceptFails(c)
      PROVE  Connectable(Socket(d))' \/ Ended(Socket(d))'
  <2>1. CASE c = e
    <3>1. pc'[e] \in {"crashed", "fail"}
      BY <1>7, <2>1 DEF Crash, AcceptFails, Starting, StartingPcs, Listening
    <3>2. e \notin Earlier
      BY <1>f DEF Listening, EarlierInv
    <3> QED
      BY <1>s, <3>1, <3>2 DEF Ended
  <2>2. CASE c # e
    BY <1>f, <1>2, <1>7, <2>2 DEF Crash, AcceptFails, Listening
  <2> QED
    BY <2>1, <2>2
<1>8. CASE UNCHANGED vars
  BY <1>f, <1>2, <1>8 DEF vars, Listening
<1> QED
  BY <1>3, <1>4, <1>5, <1>6, <1>7, <1>8 DEF Next, StartStep, StopStep, ClientStep

\* What ended the service of a socket is not undone.
LEMMA StaysEnded ==
    ASSUME TypeOK, [Next]_vars, NEW d \in Daemons, Ended(Socket(d))
    PROVE  Ended(Socket(d))'
<1>1. PICK e \in Daemons \ Earlier :
        Socket(e) = Socket(d) /\ (told[e] \/ pc[e] \in {"crashed", "fail", "failed"})
  BY DEF Ended
<1>2. Socket(e)' = Socket(e) /\ Socket(d)' = Socket(d)
  BY Fixed
<1> USE DEF TypeOK, daemonVars, rowVars, Step, UnchangedButClient
<1>3. told[e] => told'[e]
  BY DEF Next, vars, RunDaemon, StartStep, TryExists, Probe, RemoveStale, LoseRows, Bind, Listen,
         AnswerStop, StopStep, Shutdown, RemoveFile, Exit, AcceptFails, Crash, ClientStep,
         StartCommand, Ask, LaunchChild, Poll, Claim
<1>4. pc[e] \in {"crashed", "fail", "failed"} => pc'[e] \in {"crashed", "fail", "failed"}
  BY DEF Next, vars, RunDaemon, StartStep, TryExists, Probe, RemoveStale, LoseRows, Bind, Listen,
         AnswerStop, StopStep, Shutdown, RemoveFile, Exit, AcceptFails, Crash, ClientStep,
         StartCommand, Ask, LaunchChild, Poll, Claim, Starting, StartingPcs, Listening
<1> QED
  BY <1>1, <1>2, <1>3, <1>4 DEF Ended

\* A command reports success on an answer.
LEMMA OnlyAnsweredIsOk ==
    ASSUME TypeOK, [Next]_vars, NEW d \in Daemons, client'[d] = "ok", client[d] # "ok"
    PROVE  Connectable(Socket(d))
<1> USE DEF TypeOK, daemonVars, rowVars, Step, UnchangedButClient, Turn
<1>1. ASSUME NEW c \in Daemons, ClientStep(c) PROVE Connectable(Socket(d))
  BY <1>1 DEF ClientStep, StartCommand, Ask, LaunchChild, Poll, Answered
<1>2. ASSUME NEW c \in Daemons, \/ RunDaemon(c) \/ StartStep(c) \/ AnswerStop(c) \/ StopStep(c)
                                \/ AcceptFails(c) \/ Crash(c) \/ \E r \in Rows : Claim(c, r)
      PROVE  FALSE
  BY <1>2 DEF RunDaemon, StartStep, TryExists, Probe, RemoveStale, LoseRows, Bind, Listen,
         AnswerStop, StopStep, Shutdown, RemoveFile, Exit, AcceptFails, Crash, Claim
<1> QED
  BY <1>1, <1>2 DEF Next, vars

\* So the answer holds until it is undone.
LEMMA ClientStepInv ==
    TypeOK /\ SocketInv /\ FileInv /\ ToldInv /\ EarlierInv /\ ClientInv /\ [Next]_vars => ClientInv'
<1> SUFFICES ASSUME TypeOK, SocketInv, FileInv, ToldInv, EarlierInv, ClientInv, [Next]_vars,
                    NEW d \in Daemons, client'[d] = "ok"
             PROVE  Connectable(Socket(d))' \/ Ended(Socket(d))'
  BY DEF ClientInv
<1>1. Connectable(Socket(d)) \/ Ended(Socket(d))
  BY OnlyAnsweredIsOk DEF ClientInv
<1> QED
  BY <1>1, StaysConnectable, StaysEnded

-----------------------------------------------------------------------------
(* The invariant, and what follows from it. *)

\* Nothing is started: the invariant holds.
LEMMA InitInv == Init => Inv
<1> SUFFICES ASSUME Init PROVE Inv
  OBVIOUS
<1> USE StartupAssumption DEF Init
<1>1. TypeOK
  BY DEF TypeOK, Pcs, EndedPcs, ClientPcs
<1>2. OwnersInv /\ ToldInv /\ FileInv /\ EarlierInv
  BY DEF OwnersInv, ToldInv, FileInv, EarlierInv
<1>3. SocketInv /\ ClientInv /\ RowsInv
  BY DEF SocketInv, ClientInv, RowsInv, Starting, StartingPcs, Listening
<1> QED
  BY <1>1, <1>2, <1>3 DEF Inv

\* Every step keeps it.
LEMMA InvStep == Inv /\ [Next]_vars => Inv'
<1> SUFFICES ASSUME Inv, [Next]_vars PROVE Inv'
  OBVIOUS
<1>1. overlap' = overlap /\ Consistent' = Consistent
  BY Fixed DEF Inv, Consistent
<1>2. TypeOK' /\ OwnersInv' /\ ToldInv' /\ FileInv' /\ EarlierInv'
  BY TypeStep, SmallStep DEF Inv
<1>3. ~overlap => SocketInv' /\ ClientInv'
  BY SocketStep, ClientStepInv DEF Inv
<1>4. ~overlap /\ Consistent => RowsInv'
  BY RowsStep DEF Inv
<1> QED
  BY <1>1, <1>2, <1>3, <1>4 DEF Inv

\* While starts do not overlap, a serving daemon is reached by its socket, so
\* a socket has one daemon at most.
THEOREM OneServer == Spec => []ReachableWhileServing
<1>1. Inv => ReachableWhileServing
  BY DEF Inv, SocketInv, ReachableWhileServing
<1> QED
  BY <1>1, InitInv, InvStep, PTL DEF Spec

\* Under the same proviso the boot pass takes rows from ended daemons only,
\* if shells that share a database share the socket.
THEOREM BootTakesOver == Spec => LosesOnlyTheEnded
<1>1. Inv /\ [Next]_vars
        => [~overlap /\ Consistent => \A r \in Rows : status[r] = "running" /\ status'[r] = "lost"
                                        => ~Listening(owner[r])]_vars
  <2> SUFFICES ASSUME Inv, [Next]_vars, ~overlap, Consistent, NEW r \in Rows,
                      status[r] = "running", status'[r] = "lost"
               PROVE  ~Listening(owner[r])
    OBVIOUS
  <2>1. PICK d \in Daemons : LoseRows(d)
    BY DEF Inv, TypeOK, Next, vars, RunDaemon, StartStep, TryExists, Probe, RemoveStale, Bind, Listen,
       AnswerStop, StopStep, Shutdown, RemoveFile, Exit, AcceptFails, Crash, ClientStep,
       StartCommand, Ask, LaunchChild, Poll, Claim, UnchangedButClient, rowVars
  <2>2. pc[d] = "lose" /\ Database(owner[r]) = Database(d) /\ owner[r] \in Daemons
    BY <2>1 DEF LoseRows, Step, Lost, Inv, TypeOK, OwnersInv
  <2>3. Socket(owner[r]) = Socket(d)
    BY <2>2 DEF Consistent, Socket, Database, Inv, TypeOK
  <2> QED
    BY <2>2, <2>3 DEF Inv, SocketInv
<1> QED
  BY <1>1, InitInv, InvStep, PTL DEF Spec, LosesOnlyTheEnded

\* And no row of a crashed daemon says running once another serves.
THEOREM CrashedAreLost == Spec => []CrashLosesRows
<1>1. Inv => CrashLosesRows
  BY DEF Inv, RowsInv, CrashLosesRows
<1> QED
  BY <1>1, InitInv, InvStep, PTL DEF Spec

\* `pz daemon start` reports success on a daemon that can be reached until
\* one is stopped or dies.
THEOREM SuccessIsTrue == Spec => []SuccessMeansServed
<1>1. Inv => SuccessMeansServed
  BY DEF Inv, ClientInv, Ended, SuccessMeansServed
<1> QED
  BY <1>1, InitInv, InvStep, PTL DEF Spec
=============================================================================
