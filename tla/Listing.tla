------------------------------- MODULE Listing -------------------------------
(***************************************************************************)
(* The read-only requests (service.rs): `pz ps`, `pz ports` and            *)
(* `pz resources` put together rows of the database, the kernel's process  *)
(* table and its listening sockets (ports.rs), read one after the other    *)
(* while processes start, fork, listen, exit and are recycled.             *)
(*                                                                         *)
(* The rows change as Lifecycle, which Daemon implements, lets them; a     *)
(* request is a task that reads.  A step is one query, one scan of the     *)
(* kernel's, or the work on one row.                                       *)
(* No request asks whose a process is, so none becomes another user's      *)
(* here (ChangeUser): `beyond` stays FALSE.                                *)
(***************************************************************************)
EXTENDS Lifecycle, FiniteSets

CONSTANTS
    Pids,       \* bound: the pids the kernel has
    NoPid,      \* no pid
    Ports,      \* the ports processes listen on
    V6,         \* those of them that are IPv6
    Faults,     \* what cannot be read, see below
    Kinds,      \* the requests made: "ps", "all" (ps --all), "ports", "resources"
    Verdicts    \* the final statuses rows get

\* netlink (netstat2), /proc/net/tcp, /proc/net/tcp6, /proc/<pid>/fd
FaultKinds == {"netlink", "tcp", "tcp6", "fds"}

ASSUME ListingAssumption ==
    /\ MaxId \in Nat
    /\ NoPid \notin Pids
    /\ V6 \subseteq Ports
    /\ Faults \subseteq FaultKinds
    /\ Kinds \subseteq {"ps", "all", "ports", "resources"}
    /\ Verdicts \subseteq {"exited", "failed", "timed_out", "killed"}

VARIABLES
    pidOf,      \* the pid of each generation's leader, once it was started
    origin,     \* per pid: the generation whose group it is in, Other if it is
                \* in another group, 0 if the pid is free
    listens,    \* the ports it listens on
    op,         \* the request that is served
    pc,         \* where its handler stands
    row,        \* status and pid of each row as it was read
    kept,       \* the rows of the answer
    todo,       \* those still to be looked at
    open,       \* the listening ports /proc/net showed
    walk,       \* the pids whose file descriptors are still to be read
    found,      \* the listening ports and who owns them
    scan,       \* whether there is a list of listeners: "no", "some", "none"
    missing,    \* the sources that could not be read
    table,      \* the pids of the process table as it was read
    members,    \* those in the group asked about
    ports,      \* the ports of each row of the answer
    unavailable,\* the rows whose ports are not known
    past        \* history: what was true since the request was received

kernelVars == <<pidOf, origin, listens>>
answerVars == <<kept, members, ports, unavailable>>
scanVars == <<open, walk, found, scan, missing>>
requestVars == <<op, pc, row, todo, table, scanVars, answerVars>>
vars == <<lifecycleVars, kernelVars, requestVars, past>>

-----------------------------------------------------------------------------
(* The kernel *)

\* A process of nobody's.
Other == MaxId + 1

Free(p) == origin[p] = 0

\* getpgid: a group is numbered by the pid of its leader; anybody else's
\* process leads its own.
Pgid(p) == IF origin[p] \in Ids THEN pidOf[origin[p]] ELSE p

Leads(p, i) == origin[p] = i /\ pidOf[i] = p

\* The leader of i has exited and is not reaped yet.
Zombie(p) == \E i \in Ids : Leads(p, i) /\ ~alive[i]

Runs(p) == ~Free(p) /\ ~Zombie(p)

\* A pid is not handed out while a process or a group has it, nor while the
\* daemon takes it for a running row's, nor twice during a request.
Available(p) ==
    /\ Free(p)
    /\ \A i \in Ids : pidOf[i] = p => \A q \in Pids : origin[q] # i
    /\ \A i \in Ids : pidOf[i] = p => status[i] # "running" /\ row[i].status # "running"
    /\ p \notin past.freed

\* What is true of the kernel and the rows now.
Now == [freed |-> {},
        belonged |-> {b \in Ids \X Pids : origin[b[2]] = b[1]},
        heard |-> {h \in Ids \X Ports : \E p \in Pids : origin[p] = h[1] /\ h[2] \in listens[p]},
        held |-> {h \in Ids \X Pids \X Ports :
                    /\ origin[h[2]] = h[1] /\ h[3] \in listens[h[2]]
                    /\ status[h[1]] = "running" /\ known[h[1]]},
        steady |-> {i \in Ids : alive[i] /\ known[i] /\ status[i] \in {"running", "lost"}}]

NoPast == [freed |-> {}, belonged |-> {}, heard |-> {}, held |-> {}, steady |-> {}]

\* While a request is served, its past is remembered.
Remember ==
    past' = IF pc = "idle" THEN past
            ELSE [freed |-> past.freed \cup {p \in Pids : ~Free(p) /\ Free(p)'},
                  belonged |-> past.belonged \cup Now'.belonged,
                  heard |-> past.heard \cup Now'.heard,
                  held |-> past.held \cap Now'.held,
                  steady |-> past.steady \cap Now'.steady]

-----------------------------------------------------------------------------
NoRow == [status |-> "absent", pid |-> NoPid]

NoRequest ==
    /\ op' = "none"
    /\ pc' = "idle"
    /\ row' = [i \in Ids |-> NoRow]
    /\ todo' = {}
    /\ table' = {}
    /\ open' = {} /\ walk' = {} /\ found' = {} /\ scan' = "no" /\ missing' = {}
    /\ kept' = {} /\ members' = {} /\ unavailable' = {}
    /\ ports' = [i \in Ids |-> {}]
    /\ past' = NoPast

Init ==
    /\ LInit
    /\ pidOf = [i \in Ids |-> NoPid]
    /\ origin = [p \in Pids |-> 0]
    /\ listens = [p \in Pids |-> {}]
    /\ op = "none" /\ pc = "idle"
    /\ row = [i \in Ids |-> NoRow]
    /\ todo = {} /\ table = {}
    /\ open = {} /\ walk = {} /\ found = {} /\ scan = "no" /\ missing = {}
    /\ kept = {} /\ members = {} /\ unavailable = {}
    /\ ports = [i \in Ids |-> {}]
    /\ past = NoPast

-----------------------------------------------------------------------------
(* Processes and rows move on their own *)

\* A generation's process starts, once, as the leader of a new group.
Launch(i, p) ==
    /\ pidOf[i] = NoPid
    /\ Available(p)
    /\ Start(i)
    /\ pidOf' = [pidOf EXCEPT ![i] = p]
    /\ origin' = [origin EXCEPT ![p] = i]
    /\ UNCHANGED listens

\* It exits: its sockets are closed, and it is a zombie.
LeaderDies(i) ==
    /\ Die(i)
    /\ listens' = [listens EXCEPT ![pidOf[i]] = {}]
    /\ UNCHANGED <<pidOf, origin>>

\* A zombie is reaped; any other process goes at once.
Leave(p) ==
    /\ ~Free(p)
    /\ Zombie(p) \/ ~\E i \in Ids : Leads(p, i)
    /\ origin' = [origin EXCEPT ![p] = 0]
    /\ listens' = [listens EXCEPT ![p] = {}]
    /\ UNCHANGED <<pidOf, lifecycleVars>>

\* A child inherits the group and the sockets.
Fork(p, child) ==
    /\ Runs(p) /\ origin[p] # Other
    /\ Available(child)
    /\ origin' = [origin EXCEPT ![child] = origin[p]]
    /\ listens' = [listens EXCEPT ![child] = listens[p]]
    /\ UNCHANGED <<pidOf, lifecycleVars>>

\* Somebody else's process starts.
Stranger(p) ==
    /\ Available(p)
    /\ origin' = [origin EXCEPT ![p] = Other]
    /\ UNCHANGED <<pidOf, listens, lifecycleVars>>

Listen(p, q) ==
    /\ Runs(p)
    /\ \A o \in Pids : q \notin listens[o]
    /\ listens' = [listens EXCEPT ![p] = @ \cup {q}]
    /\ UNCHANGED <<pidOf, origin, lifecycleVars>>

Close(p, q) ==
    /\ q \in listens[p]
    /\ listens' = [listens EXCEPT ![p] = @ \ {q}]
    /\ UNCHANGED <<pidOf, origin, lifecycleVars>>

KernelStep ==
    \/ \E i \in Ids : LeaderDies(i) \/ \E p \in Pids : Launch(i, p)
    \/ \E p \in Pids : \/ Leave(p) \/ Stranger(p)
                       \/ \E child \in Pids : Fork(p, child)
                       \/ \E q \in Ports : Listen(p, q) \/ Close(p, q)

\* The daemon's other tasks change the rows.  Ids are handed out in order.
RowStep ==
    /\ \E i \in Ids : \/ /\ \A j \in 1 .. (i - 1) : status[j] # "absent"
                         /\ \E n \in Names \cup {NoName} : Claim(i, n)
                      \/ pidOf[i] # NoPid /\ Record(i)
                      \/ \E s \in Verdicts : Verdict(i, s)
    /\ UNCHANGED kernelVars

\* A new daemon: the request that was served is gone.
Reboot == LoseAll /\ NoRequest /\ UNCHANGED kernelVars

-----------------------------------------------------------------------------
(* list_processes, ports, resources *)

Lists == op \in {"ps", "all"}

Quiet == UNCHANGED <<lifecycleVars, kernelVars, past>>

Request(o) ==
    /\ pc = "idle"
    /\ op' = o
    /\ pc' = "query"
    /\ past' = Now
    /\ UNCHANGED <<lifecycleVars, kernelVars, row, todo, table, scanVars, answerVars>>

ReadRow(i) == [status |-> status[i], pid |-> IF known[i] THEN pidOf[i] ELSE NoPid]

\* Mutant of LiveRows: only running rows are live.
RunningRows == {i \in Ids : status[i] = "running"}

\* What list_processes selects with live_only.
LiveRows == {i \in Ids : status[i] \in {"running", "lost"}}

\* All rows at once; without --all the lost ones are looked at again.
QueryList ==
    /\ pc = "query" /\ Lists
    /\ kept' = IF op = "ps" THEN LiveRows ELSE {i \in Ids : status[i] # "absent"}
    /\ row' = [i \in Ids |-> IF i \in kept' THEN ReadRow(i) ELSE NoRow]
    /\ todo' = IF op = "ps" THEN {i \in LiveRows : status[i] = "lost"} ELSE {}
    /\ pc' = "tokens"
    /\ UNCHANGED <<op, table, scanVars, members, ports, unavailable>>
    /\ Quiet

\* One row: its ports and resources are empty unless it is running, and its
\* ports unknown while it has no pid.
QueryOne(i) ==
    /\ pc = "query" /\ ~Lists
    /\ status[i] # "absent"
    /\ row' = [row EXCEPT ![i] = ReadRow(i)]
    /\ kept' = {i}
    /\ pc' = IF status[i] = "running" /\ known[i] THEN "table" ELSE "done"
    /\ unavailable' = IF op = "ports" /\ status[i] = "running" /\ ~known[i] THEN {i} ELSE {}
    /\ UNCHANGED <<op, todo, table, scanVars, members, ports>>
    /\ Quiet

Running == {i \in kept : row[i].status = "running"}

Newest(i) == i \in todo /\ \A j \in todo : j <= i

\* Mutant of IsAlive: a pid that is in use is taken for the process.
PidInUse(i) == row[i].pid # NoPid /\ ~Free(row[i].pid)

\* is_alive: the pid is in use and its process is the one it was given to.
IsAlive(i) == row[i].pid # NoPid /\ Leads(row[i].pid, i)

CheckToken(i) ==
    /\ pc = "tokens"
    /\ Newest(i)
    /\ todo' = todo \ {i}
    /\ kept' = IF IsAlive(i) THEN kept ELSE kept \ {i}
    /\ UNCHANGED <<op, pc, row, table, scanVars, members, ports, unavailable>>
    /\ Quiet

\* Nothing is scanned unless a row says running.
TokensChecked ==
    /\ pc = "tokens" /\ todo = {}
    /\ pc' = IF Running = {} THEN "done" ELSE "sockets"
    /\ UNCHANGED <<op, row, todo, table, scanVars, answerVars>>
    /\ Quiet

-----------------------------------------------------------------------------
(* Discovery::collect *)

\* A list goes on to the process table; `ports` has it already.
Scanned == pc' = IF Lists THEN "table" ELSE "match"

UnchangedButScan == UNCHANGED <<op, row, todo, table, answerVars>> /\ Quiet

\* A source cannot be read, or not be understood.
Misses(f) == f \in Faults /\ missing' = missing \cup {f}

ScanNetlink ==
    /\ pc = "sockets"
    /\ \/ /\ found' = {l \in Ports \X Pids : l[1] \in listens[l[2]]}
          /\ scan' = "some"
          /\ Scanned
          /\ UNCHANGED missing
       \/ /\ Misses("netlink")
          /\ pc' = "net"
          /\ UNCHANGED <<found, scan>>
    /\ UNCHANGED <<open, walk>>
    /\ UnchangedButScan

Open == {q \in Ports : \E p \in Pids : q \in listens[p]}

\* Mutant of ReadNet: without /proc/net/tcp nothing listens.
ReadNetOrNothing ==
    /\ pc = "net"
    /\ \/ open' = Open \ V6 /\ UNCHANGED missing
       \/ Misses("tcp") /\ UNCHANGED open
    /\ pc' = "net6"
    /\ UNCHANGED <<walk, found, scan>>
    /\ UnchangedButScan

\* The fallback: without /proc/net/tcp there is no list.
ReadNet ==
    /\ pc = "net"
    /\ \/ open' = Open \ V6 /\ pc' = "net6" /\ UNCHANGED <<scan, missing>>
       \/ Misses("tcp") /\ scan' = "none" /\ Scanned /\ UNCHANGED open
    /\ UNCHANGED <<walk, found>>
    /\ UnchangedButScan

\* Mutant of ReadNet6: nor is there without /proc/net/tcp6.
ReadNet6OrNone ==
    /\ pc = "net6"
    /\ \/ /\ open' = open \cup (Open \cap V6)
          /\ walk' = Pids /\ scan' = "some" /\ pc' = "fds"
          /\ UNCHANGED missing
       \/ Misses("tcp6") /\ scan' = "none" /\ Scanned /\ UNCHANGED <<open, walk>>
    /\ UNCHANGED found
    /\ UnchangedButScan

\* /proc/net/tcp6 may be missing.
ReadNet6 ==
    /\ pc = "net6"
    /\ \/ open' = open \cup (Open \cap V6) /\ UNCHANGED missing
       \/ Misses("tcp6") /\ UNCHANGED open
    /\ walk' = Pids /\ scan' = "some" /\ pc' = "fds"
    /\ UNCHANGED found
    /\ UnchangedButScan

\* inode_to_pids: the processes are visited one by one, and those whose file
\* descriptors cannot be read are passed over.
WalkFds(p) ==
    /\ pc = "fds"
    /\ p \in walk
    /\ walk' = walk \ {p}
    /\ \/ found' = found \cup {<<q, p>> : q \in open \cap listens[p]} /\ UNCHANGED missing
       \/ Misses("fds") /\ UNCHANGED found
    /\ UNCHANGED <<pc, open, scan>>
    /\ UnchangedButScan

Walked ==
    /\ pc = "fds" /\ walk = {}
    /\ Scanned
    /\ open' = {}
    /\ UNCHANGED <<walk, found, scan, missing>>
    /\ UnchangedButScan

ScanStep == ScanNetlink \/ ReadNet \/ ReadNet6 \/ Walked \/ \E p \in Pids : WalkFds(p)

-----------------------------------------------------------------------------
(* The process table, and who is in which group *)

ReadTable ==
    /\ pc = "table"
    /\ table' = {p \in Pids : ~Free(p)}
    /\ todo' = Running
    /\ pc' = IF Lists THEN "rows" ELSE "group"
    /\ UNCHANGED <<op, row, scanVars, answerVars>>
    /\ Quiet

\* Mutant of GroupPids: the whole table.
WholeTable(i) == table

\* group_pids: the group is asked for of every process of the table.
GroupPids(i) == {p \in table : ~Free(p) /\ Pgid(p) = row[i].pid}

PortsFor(pids) == {q \in Ports : \E p \in pids : <<q, p>> \in found}

\* A row without a pid is passed over.
Attribute(i) ==
    /\ pc = "rows"
    /\ Newest(i)
    /\ todo' = todo \ {i}
    /\ \/ row[i].pid = NoPid /\ UNCHANGED <<ports, unavailable>>
       \/ /\ row[i].pid # NoPid /\ scan = "none"
          /\ unavailable' = unavailable \cup {i}
          /\ UNCHANGED ports
       \/ /\ row[i].pid # NoPid /\ scan # "none"
          /\ ports' = [ports EXCEPT ![i] = PortsFor(GroupPids(i))]
          /\ UNCHANGED unavailable
    /\ UNCHANGED <<op, pc, row, table, scanVars, kept, members>>
    /\ Quiet

Attributed ==
    /\ pc = "rows" /\ todo = {}
    /\ pc' = "done"
    /\ UNCHANGED <<op, row, todo, table, scanVars, answerVars>>
    /\ Quiet

Group ==
    /\ pc = "group"
    /\ members' = UNION {GroupPids(i) : i \in kept}
    /\ todo' = {}
    /\ pc' = IF op = "ports" THEN "sockets" ELSE "done"
    /\ UNCHANGED <<op, row, table, scanVars, kept, ports, unavailable>>
    /\ Quiet

Match ==
    /\ pc = "match"
    /\ unavailable' = IF scan = "none" THEN kept ELSE {}
    /\ ports' = [i \in Ids |-> IF i \in kept THEN PortsFor(members) ELSE {}]
    /\ pc' = "done"
    /\ UNCHANGED <<op, row, todo, table, scanVars, kept, members>>
    /\ Quiet

\* The answer is sent, or there is no such row.
Answer ==
    /\ pc = "done" \/ (pc = "query" /\ ~Lists)
    /\ NoRequest
    /\ UNCHANGED <<lifecycleVars, kernelVars>>

RequestStep ==
    \/ \E o \in Kinds : Request(o)
    \/ QueryList \/ TokensChecked \/ ScanStep \/ ReadTable \/ Attributed \/ Group \/ Match \/ Answer
    \/ \E i \in Ids : QueryOne(i) \/ CheckToken(i) \/ Attribute(i)

Next ==
    \/ (KernelStep \/ RowStep) /\ UNCHANGED requestVars /\ Remember
    \/ Reboot
    \/ RequestStep

Spec == Init /\ [][Next]_vars

-----------------------------------------------------------------------------
TypeOK ==
    /\ pidOf \in [Ids -> Pids \cup {NoPid}]
    /\ origin \in [Pids -> Ids \cup {0, Other}]
    /\ listens \in [Pids -> SUBSET Ports]
    /\ kept \subseteq Ids
    /\ todo \subseteq Ids
    /\ unavailable \subseteq Ids
    /\ ports \in [Ids -> SUBSET Ports]
    /\ members \subseteq Pids
    /\ table \subseteq Pids
    /\ found \subseteq Ports \X Pids

(* Properties, of an answer that is about to be sent *)

\* `pz ps` shows what needs attention: a process that ran, with its pid
\* recorded, and whose row said running or lost from the request on, is in
\* the answer.
ListsTheLiving == pc = "done" /\ Lists => past.steady \subseteq kept

\* A lost row is shown only if its own process was in the process table
\* since the request, whoever has its pid now (the identity token).
LostRowsAreAlive ==
    pc = "done" /\ op = "ps" =>
        \A i \in kept : row[i].status = "lost" => <<i, row[i].pid>> \in past.belonged

\* No port and no process is put down to a row of another's: the ports of a
\* row were listened on by its own group, and the processes of
\* `pz resources` were in it, since the request (the sockets, the process
\* table and the groups are read at different times).
NothingOfOthers ==
    pc = "done" =>
        /\ \A i \in Ids : \A q \in ports[i] : <<i, q>> \in past.heard
        /\ \A i \in kept, p \in members : <<i, p>> \in past.belonged

\* A port that a process of a running row has listened on since the request
\* is shown, whichever source was read, unless it says unavailable, or the
\* source does not show IPv6 or the process's file descriptors.
Unreadable(q) == "fds" \in missing \/ ("tcp6" \in missing /\ q \in V6)

ShowsWhatListens ==
    pc = "done" /\ op # "resources" =>
        \A h \in past.held : h[1] \in kept \ unavailable /\ ~Unreadable(h[3])
                                => h[3] \in ports[h[1]]

\* "Only when both are unavailable is a port shown as `?`" (DESIGN.md), but
\* for a row that has no pid yet.
UnavailableMeansBoth ==
    pc = "done" => \A i \in unavailable : {"netlink", "tcp"} \subseteq missing \/ row[i].pid = NoPid
=============================================================================
