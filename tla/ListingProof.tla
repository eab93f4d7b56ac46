---------------------------- MODULE ListingProof ----------------------------
(***************************************************************************)
(* Proofs about Listing, for any number of generations, processes and      *)
(* ports, whatever cannot be read: an answer shows nothing of others, and  *)
(* leaves nothing out.                                                     *)
(***************************************************************************)
EXTENDS Listing, TLAPS

Pcs == {"idle", "query", "tokens", "sockets", "net", "net6", "fds", "table",
        "rows", "group", "match", "done"}

TypeInv ==
    /\ DOMAIN status = Ids /\ DOMAIN known = Ids /\ DOMAIN row = Ids
    /\ pidOf \in [Ids -> Pids \cup {NoPid}]
    /\ origin \in [Pids -> Ids \cup {0, Other}]
    /\ listens \in [Pids -> SUBSET Ports]
    /\ ports \in [Ids -> SUBSET Ports]
    /\ pc \in Pcs
    /\ kept \subseteq Ids /\ todo \subseteq Ids
    /\ members \subseteq Pids /\ table \subseteq Pids

\* The pid of a generation is known once it was started, and it was claimed
\* before.
PidInv ==
    \A i \in Ids :
        /\ status[i] = "absent" => pidOf[i] = NoPid /\ ~known[i]
        /\ known[i] => pidOf[i] # NoPid
        /\ row[i].pid # NoPid => row[i].pid = pidOf[i]

\* Nobody listens but a process.
ListensInv == \A p \in Pids : Free(p) => listens[p] = {}

\* The pid of a row that is running, or was when it was read, is that of its
\* own group.
Claims(i) == status[i] = "running" \/ row[i].status = "running"

PinnedInv ==
    \A i \in Ids : Claims(i) /\ pidOf[i] # NoPid =>
        /\ origin[pidOf[i]] \in {0, i}
        /\ \A j \in Ids \ {i}, p \in Pids : pidOf[j] = pidOf[i] => origin[p] # j

KernelInv == TypeInv /\ PidInv /\ ListensInv /\ PinnedInv

\* The past holds the present.
PastInv ==
    pc # "idle" =>
        /\ \A p \in Pids : p \in past.freed => Free(p)
        /\ \A i \in Ids, p \in Pids : origin[p] = i => <<i, p>> \in past.belonged
        /\ \A i \in Ids, p \in Pids, q \in Ports :
                origin[p] = i /\ q \in listens[p] => <<i, q>> \in past.heard

\* Where a request stands.
StageInv ==
    /\ pc \in {"idle", "query"} => /\ found = {} /\ members = {} /\ unavailable = {}
                                   /\ scan = "no" /\ ports = [i \in Ids |-> {}]
    /\ pc \in {"tokens", "rows"} => Lists
    /\ pc \in {"group", "match"} => ~Lists
    /\ Lists => members = {}
    /\ pc \in {"table", "group"} /\ ~Lists =>
         /\ found = {}
         /\ \E i \in Ids : kept = {i} /\ row[i].status = "running" /\ row[i].pid # NoPid
    /\ pc = "rows" => \A i \in todo : row[i].status = "running"

\* Who listens according to a scan was heard, unless it is gone by now.
FoundInv ==
    pc # "idle" =>
        \A q \in Ports, p \in Pids : <<q, p>> \in found /\ p \notin past.freed =>
            ~Free(p) /\ \A i \in Ids : origin[p] = i => <<i, q>> \in past.heard

\* The members of a group were in it, and what they listened on was heard.
MembersInv ==
    pc # "idle" =>
        \A i \in kept, p \in members :
            /\ <<i, p>> \in past.belonged
            /\ p \in past.freed \/ origin[p] = i
            /\ \A q \in Ports : <<q, p>> \in found => <<i, q>> \in past.heard

\* The ports of a row were heard.
HeardInv == pc # "idle" => \A i \in Ids : \A q \in ports[i] : <<i, q>> \in past.heard

\* A lost row that has been looked at was alive.
LostInv ==
    pc \notin {"idle", "query"} /\ op = "ps" =>
        \A i \in kept : row[i].status = "lost" =>
            \/ pc = "tokens" /\ i \in todo
            \/ <<i, row[i].pid>> \in past.belonged

\* There is no list of listeners only if neither source could be read.
MissingInv ==
    /\ pc = "net" => "netlink" \in missing
    /\ scan = "none" => {"netlink", "tcp"} \subseteq missing
    /\ \A i \in unavailable : {"netlink", "tcp"} \subseteq missing \/ row[i].pid = NoPid

RequestInv == PastInv /\ StageInv /\ FoundInv /\ MembersInv /\ HeardInv /\ LostInv /\ MissingInv

Inv == KernelInv /\ RequestInv

-----------------------------------------------------------------------------
(* The kernel and the rows *)

LEMMA Others == Other \notin Ids /\ Other # 0 /\ 0 \notin Ids
  BY ListingAssumption DEF Other, Ids

\* A generation's process gets a free pid that no running row claims.
LEMMA LaunchKeeps ==
    ASSUME KernelInv, NEW i \in Ids, NEW p \in Pids, Launch(i, p), row' = row, pc' = pc,
           UNCHANGED <<ports, kept, todo, members, table>>
    PROVE  KernelInv'
<1>1. /\ pidOf[i] = NoPid /\ Free(p) /\ status[i] = "running" /\ ~known[i]
      /\ status' = status /\ known' = known
      /\ pidOf' = [pidOf EXCEPT ![i] = p] /\ origin' = [origin EXCEPT ![p] = i]
      /\ listens' = listens
  BY DEF Launch, Available, Start
<1>2. /\ \A j \in Ids : pidOf[j] = p => \A q \in Pids : origin[q] # j
      /\ \A j \in Ids : pidOf[j] = p => ~Claims(j)
  BY DEF Launch, Available, Claims
<1>3. p # NoPid
  BY ListingAssumption
<1>4. TypeInv'
  BY <1>1 DEF KernelInv, TypeInv
<1>5. PidInv'
  BY <1>1, <1>3 DEF KernelInv, TypeInv, PidInv
<1>6. ListensInv'
  BY <1>1, Others DEF KernelInv, TypeInv, ListensInv, Free
<1>7. PinnedInv'
  <2> SUFFICES ASSUME NEW j \in Ids, Claims(j)', pidOf'[j] # NoPid
               PROVE  /\ origin'[pidOf'[j]] \in {0, j}
                      /\ \A k \in Ids \ {j}, q \in Pids : pidOf'[k] = pidOf'[j] => origin'[q] # k
    BY DEF PinnedInv
  <2>1. Claims(j)
    BY <1>1 DEF Claims
  <2>2. CASE j = i
    BY <1>1, <1>2, <1>3, <2>2 DEF KernelInv, TypeInv
  <2>3. CASE j # i
    <3>1. pidOf'[j] = pidOf[j] /\ pidOf[j] \in Pids /\ pidOf[j] # p
      BY <1>1, <1>2, <2>1, <2>3 DEF KernelInv, TypeInv
    <3> QED
      BY <1>1, <2>1, <2>3, <3>1 DEF KernelInv, TypeInv, PinnedInv
  <2> QED
    BY <2>2, <2>3
<1> QED
  BY <1>4, <1>5, <1>6, <1>7 DEF KernelInv

\* Any other process gets a free pid that no running row claims, in a group
\* that there is already or that is nobody's.
LEMMA ProcessKeeps ==
    ASSUME KernelInv, NEW c \in Pids, Available(c), NEW g \in Ids \cup {Other},
           g \in Ids => \E p \in Pids : origin[p] = g,
           origin' = [origin EXCEPT ![c] = g],
           NEW ls \in SUBSET Ports, listens' = [listens EXCEPT ![c] = ls],
           UNCHANGED <<pidOf, lifecycleVars, row, pc, ports, kept, todo, members, table>>
    PROVE  KernelInv'
<1>1. status' = status /\ known' = known
  BY DEF lifecycleVars
<1>2. \A j \in Ids : pidOf[j] = c => ~Claims(j)
  BY DEF Available, Claims
<1>3. TypeInv'
  BY <1>1 DEF KernelInv, TypeInv
<1>4. PidInv'
  BY <1>1 DEF KernelInv, PidInv
<1>5. ListensInv'
  BY Others DEF KernelInv, TypeInv, ListensInv, Free
<1>6. PinnedInv'
  <2> SUFFICES ASSUME NEW j \in Ids, Claims(j), pidOf[j] # NoPid
               PROVE  /\ origin'[pidOf[j]] \in {0, j}
                      /\ \A k \in Ids \ {j}, q \in Pids : pidOf[k] = pidOf[j] => origin'[q] # k
    BY <1>1 DEF PinnedInv, Claims
  <2>1. pidOf[j] \in Pids /\ pidOf[j] # c
    BY <1>2 DEF KernelInv, TypeInv
  <2> QED
    BY <2>1, Others DEF KernelInv, TypeInv, PinnedInv
<1> QED
  BY <1>3, <1>4, <1>5, <1>6 DEF KernelInv

\* A process that goes, and a socket that is opened or closed.
LEMMA GoneKeeps ==
    ASSUME KernelInv, NEW p \in Pids, origin' = [origin EXCEPT ![p] = 0],
           listens' = [listens EXCEPT ![p] = {}],
           UNCHANGED <<pidOf, lifecycleVars, row, pc, ports, kept, todo, members, table>>
    PROVE  KernelInv'
  BY Others DEF KernelInv, TypeInv, PidInv, ListensInv, PinnedInv, Free, Claims, lifecycleVars

LEMMA SocketKeeps ==
    ASSUME KernelInv, NEW p, NEW ls \in SUBSET Ports, p \in Pids => ls = {} \/ ~Free(p),
           listens' = [listens EXCEPT ![p] = ls],
           UNCHANGED <<pidOf, origin, status, known, row, pc, ports, kept, todo, members, table>>
    PROVE  KernelInv'
<1>1. TypeInv'
  BY DEF KernelInv, TypeInv
<1>2. \A o \in Pids : listens'[o] = IF o = p THEN ls ELSE listens[o]
  BY DEF KernelInv, TypeInv
<1>3. ListensInv'
  BY <1>2 DEF KernelInv, ListensInv, Free
<1>4. PidInv' /\ PinnedInv'
  BY DEF KernelInv, PidInv, PinnedInv, Claims
<1> QED
  BY <1>1, <1>3, <1>4 DEF KernelInv

\* Whatever processes do.
LEMMA KernelKeeps ==
    ASSUME KernelInv, KernelStep, UNCHANGED requestVars
    PROVE  KernelInv'
<1> USE DEF requestVars, answerVars
<1>1. ASSUME NEW i \in Ids, LeaderDies(i) PROVE KernelInv'
  <2>1. /\ {} \in SUBSET Ports /\ listens' = [listens EXCEPT ![pidOf[i]] = {}]
        /\ UNCHANGED <<pidOf, origin, status, known, row, pc, ports, kept, todo, members, table>>
    BY <1>1 DEF LeaderDies, Die
  <2> QED
    BY <2>1, SocketKeeps
<1>2. ASSUME NEW i \in Ids, NEW p \in Pids, Launch(i, p) PROVE KernelInv'
  BY <1>2, LaunchKeeps
<1>3. ASSUME NEW p \in Pids, Leave(p) PROVE KernelInv'
  BY <1>3, GoneKeeps DEF Leave
<1>4. ASSUME NEW p \in Pids, Stranger(p) PROVE KernelInv'
  <2>1. listens[p] \in SUBSET Ports /\ listens' = [listens EXCEPT ![p] = listens[p]]
    BY <1>4 DEF Stranger, KernelInv, TypeInv
  <2> QED
    BY <1>4, <2>1, Others, ProcessKeeps DEF Stranger
<1>5. ASSUME NEW p \in Pids, NEW c \in Pids, Fork(p, c) PROVE KernelInv'
  <2>1. /\ listens[p] \in SUBSET Ports /\ origin[p] \in Ids /\ Available(c)
        /\ origin' = [origin EXCEPT ![c] = origin[p]] /\ listens' = [listens EXCEPT ![c] = listens[p]]
        /\ UNCHANGED <<pidOf, lifecycleVars>>
    BY <1>5 DEF Fork, Runs, Free, KernelInv, TypeInv
  <2> QED
    BY <2>1, ProcessKeeps
<1>6. ASSUME NEW p \in Pids, NEW q \in Ports, Listen(p, q) PROVE KernelInv'
  <2>1. listens' = [listens EXCEPT ![p] = listens[p] \cup {q}] /\ listens[p] \cup {q} \in SUBSET Ports
    BY <1>6 DEF Listen, KernelInv, TypeInv
  <2> QED
    BY <1>6, <2>1, SocketKeeps DEF Listen, Runs, lifecycleVars
<1>7. ASSUME NEW p \in Pids, NEW q \in Ports, Close(p, q) PROVE KernelInv'
  <2>1. listens' = [listens EXCEPT ![p] = listens[p] \ {q}] /\ listens[p] \ {q} \in SUBSET Ports
    BY <1>7 DEF Close, KernelInv, TypeInv
  <2>2. ~Free(p)
    BY <1>7 DEF Close, KernelInv, ListensInv
  <2> QED
    BY <1>7, <2>1, <2>2, SocketKeeps DEF Close, lifecycleVars
<1> QED
  BY <1>1, <1>2, <1>3, <1>4, <1>5, <1>6, <1>7 DEF KernelStep

\* Whatever the daemon's other tasks do to the rows.
LEMMA RowsKeep ==
    ASSUME KernelInv, RowStep, UNCHANGED requestVars
    PROVE  KernelInv'
<1>1. PICK i \in Ids : \/ \E n \in Names \cup {NoName} : Claim(i, n)
                       \/ pidOf[i] # NoPid /\ Record(i)
                       \/ \E s \in Verdicts : Verdict(i, s)
  BY DEF RowStep
<1>2. UNCHANGED <<pidOf, origin, listens, row, pc, ports, kept, todo, members, table>>
  BY DEF RowStep, kernelVars, requestVars, answerVars
<1>3. CASE \E n \in Names \cup {NoName} : Claim(i, n)
  <2>1. /\ status[i] = "absent" /\ status' = [status EXCEPT ![i] = "running"] /\ known' = known
        /\ pidOf[i] = NoPid
    BY <1>3 DEF Claim, KernelInv, PidInv
  <2> QED
    BY <1>2, <2>1 DEF KernelInv, TypeInv, PidInv, ListensInv, PinnedInv, Free, Claims
<1>4. CASE pidOf[i] # NoPid /\ Record(i)
  BY <1>2, <1>4 DEF Record, KernelInv, TypeInv, PidInv, ListensInv, PinnedInv, Free, Claims
<1>5. CASE \E s \in Verdicts : Verdict(i, s)
  <2>1. PICK s : s # "absent" /\ s # "running" /\ status[i] # "absent"
                 /\ status' = [status EXCEPT ![i] = s] /\ known' = known
    BY <1>5 DEF Verdict
  <2> QED
    BY <1>2, <2>1 DEF KernelInv, TypeInv, PidInv, ListensInv, PinnedInv, Free, Claims
<1> QED
  BY <1>1, <1>3, <1>4, <1>5

\* What a request reads does not change what there is to read.
LEMMA QuietKeeps ==
    ASSUME KernelInv, UNCHANGED <<lifecycleVars, kernelVars>>, UNCHANGED row,
           pc' \in Pcs, kept' \subseteq Ids, todo' \subseteq Ids,
           members' \subseteq Pids, table' \subseteq Pids, ports' \in [Ids -> SUBSET Ports]
    PROVE  KernelInv'
  BY DEF lifecycleVars, kernelVars, KernelInv, TypeInv, PidInv, ListensInv, PinnedInv, Free, Claims

\* A row that is read tells its status and, once it is recorded, its pid.
LEMMA ReadKeeps ==
    ASSUME KernelInv, UNCHANGED <<lifecycleVars, kernelVars>>, DOMAIN row' = Ids,
           \A i \in Ids : row'[i] \in {row[i], ReadRow(i), NoRow},
           pc' \in Pcs, kept' \subseteq Ids, todo' \subseteq Ids,
           UNCHANGED <<members, table, ports>>
    PROVE  KernelInv'
<1>1. UNCHANGED <<status, known, pidOf, origin, listens>>
  BY DEF lifecycleVars, kernelVars
<1>2. \A i \in Ids : /\ Claims(i)' => Claims(i)
                     /\ row'[i].pid # NoPid => row'[i].pid = pidOf[i]
  BY <1>1 DEF KernelInv, PidInv, Claims, ReadRow, NoRow
<1>3. TypeInv'
  BY <1>1 DEF KernelInv, TypeInv
<1>4. PidInv' /\ ListensInv'
  BY <1>1, <1>2 DEF KernelInv, PidInv, ListensInv, Free
<1>5. PinnedInv'
  BY <1>1, <1>2 DEF KernelInv, PinnedInv
<1> QED
  BY <1>3, <1>4, <1>5 DEF KernelInv

\* Nothing is kept between requests.
LEMMA EndKeeps ==
    ASSUME KernelInv, NoRequest, UNCHANGED kernelVars, DOMAIN status' = Ids, UNCHANGED known,
           \A i \in Ids : /\ status'[i] = "running" => status[i] = "running"
                          /\ status'[i] = "absent" => status[i] = "absent"
    PROVE  Inv'
<1>1. UNCHANGED <<pidOf, origin, listens>>
  BY DEF kernelVars
<1>2. \A i \in Ids : row'[i] = NoRow
  BY DEF NoRequest
<1>3. TypeInv'
  BY <1>1 DEF NoRequest, KernelInv, TypeInv, Pcs
<1>4. PidInv' /\ ListensInv'
  BY <1>1, <1>2 DEF NoRow, KernelInv, PidInv, ListensInv, Free
<1>5. PinnedInv'
  BY <1>1, <1>2 DEF NoRow, KernelInv, PinnedInv, Claims
<1>6. RequestInv'
  BY DEF NoRequest, RequestInv, PastInv, StageInv, FoundInv, MembersInv, HeardInv, LostInv, MissingInv, Lists
<1> QED
  BY <1>3, <1>4, <1>5, <1>6 DEF KernelInv, Inv

LEMMA Initially == Init => Inv
<1> SUFFICES ASSUME Init PROVE Inv
  OBVIOUS
<1>1. TypeInv
  BY DEF Init, LInit, TypeInv, Pcs
<1>2. PidInv
  BY DEF Init, LInit, PidInv, NoRow
<1>3. ListensInv /\ PinnedInv
  BY DEF Init, LInit, ListensInv, PinnedInv
<1>4. RequestInv
  BY DEF Init, RequestInv, PastInv, StageInv, FoundInv, MembersInv, HeardInv, LostInv, MissingInv, Lists
<1> QED
  BY <1>1, <1>2, <1>3, <1>4 DEF KernelInv, Inv

-----------------------------------------------------------------------------
(* The past of a request *)

\* A process stays in its group until it is gone, and a pid that was freed
\* during a request stays free.
Stays(p) == origin'[p] \in {origin[p], 0} \/ (Free(p) /\ p \notin past.freed)

LEMMA ProcessesStay ==
    ASSUME KernelInv, KernelStep \/ RowStep, NEW p \in Pids
    PROVE  Stays(p)
<1>1. ASSUME NEW i \in Ids, NEW o \in Pids, Launch(i, o) PROVE Stays(p)
  BY <1>1 DEF Launch, Available, Stays, Free, KernelInv, TypeInv
<1>2. ASSUME NEW o \in Pids, Leave(o) PROVE Stays(p)
  BY <1>2 DEF Leave, Stays, KernelInv, TypeInv
<1>3. ASSUME NEW o \in Pids, Stranger(o) PROVE Stays(p)
  BY <1>3 DEF Stranger, Available, Stays, Free, KernelInv, TypeInv
<1>4. ASSUME NEW o \in Pids, NEW c \in Pids, Fork(o, c) PROVE Stays(p)
  BY <1>4 DEF Fork, Available, Stays, Free, KernelInv, TypeInv
<1>5. CASE origin' = origin
  BY <1>5 DEF Stays
<1> QED
  BY <1>1, <1>2, <1>3, <1>4, <1>5 DEF KernelStep, RowStep, LeaderDies, Listen, Close, kernelVars

\* What is remembered.
LEMMA Remembered ==
    ASSUME TypeInv', Remember, pc # "idle"
    PROVE  /\ past.freed \subseteq past'.freed /\ past.belonged \subseteq past'.belonged
           /\ past.heard \subseteq past'.heard
           /\ \A p \in Pids : ~Free(p) /\ Free(p)' => p \in past'.freed
           /\ \A p \in Pids : p \in past'.freed => p \in past.freed \/ Free(p)'
           /\ \A i \in Ids, p \in Pids : origin'[p] = i => <<i, p>> \in past'.belonged
           /\ \A i \in Ids, p \in Pids, q \in Ports :
                origin'[p] = i /\ q \in listens'[p] => <<i, q>> \in past'.heard
<1>1. past' = [freed |-> past.freed \cup {p \in Pids : ~Free(p) /\ Free(p)'},
                  belonged |-> past.belonged \cup Now'.belonged,
                  heard |-> past.heard \cup Now'.heard,
                  held |-> past.held \cap Now'.held,
                  steady |-> past.steady \cap Now'.steady]
  BY DEF Remember
<1>2. \A i \in Ids, p \in Pids : origin'[p] = i => <<i, p>> \in Now'.belonged
  BY DEF Now
<1>3. \A i \in Ids, p \in Pids, q \in Ports :
        origin'[p] = i /\ q \in listens'[p] => <<i, q>> \in Now'.heard
  BY DEF Now
<1> QED
  BY <1>1, <1>2, <1>3

\* A request knows its past while the world moves on.
LEMMA WorldMoves ==
    ASSUME Inv, KernelStep \/ RowStep, UNCHANGED requestVars, Remember
    PROVE  Inv'
<1>1. KernelInv'
  BY KernelKeeps, RowsKeep DEF Inv
<1>2. UNCHANGED <<op, pc, row, todo, table, open, walk, found, scan, missing, kept, members, ports, unavailable>>
  BY DEF requestVars, scanVars, answerVars
<1>3. CASE pc = "idle"
  <2>1. PastInv' /\ FoundInv' /\ MembersInv' /\ HeardInv' /\ LostInv'
    BY <1>2, <1>3 DEF PastInv, FoundInv, MembersInv, HeardInv, LostInv
  <2>2. StageInv' /\ MissingInv'
    BY <1>2 DEF Inv, RequestInv, StageInv, MissingInv, Lists
  <2> QED
    BY <1>1, <2>1, <2>2 DEF Inv, RequestInv
<1>4. CASE pc # "idle"
  <2>1. /\ past.freed \subseteq past'.freed /\ past.belonged \subseteq past'.belonged
        /\ past.heard \subseteq past'.heard
        /\ \A p \in Pids : ~Free(p) /\ Free(p)' => p \in past'.freed
        /\ \A p \in Pids : p \in past'.freed => p \in past.freed \/ Free(p)'
        /\ \A i \in Ids, p \in Pids : origin'[p] = i => <<i, p>> \in past'.belonged
        /\ \A i \in Ids, p \in Pids, q \in Ports :
                origin'[p] = i /\ q \in listens'[p] => <<i, q>> \in past'.heard
    BY <1>1, <1>4, Remembered DEF KernelInv
  <2>2. \A p \in Pids : Stays(p)
    BY ProcessesStay DEF Inv
  <2>3. PastInv'
    BY <1>2, <1>4, <2>1, <2>2 DEF Stays, Inv, RequestInv, PastInv, Free
  <2>4. StageInv'
    BY <1>2 DEF Inv, RequestInv, StageInv, Lists
  <2>5. FoundInv'
    BY <1>2, <1>4, <2>1, <2>2 DEF Stays, Inv, RequestInv, FoundInv, Free
  <2>6. MembersInv'
    BY <1>2, <1>4, <2>1, <2>2, Others DEF Stays, Inv, KernelInv, TypeInv, RequestInv, MembersInv, Free
  <2>7. HeardInv' /\ LostInv' /\ MissingInv'
    BY <1>2, <1>4, <2>1 DEF Inv, RequestInv, HeardInv, LostInv, MissingInv
  <2> QED
    BY <1>1, <2>3, <2>4, <2>5, <2>6, <2>7 DEF Inv, RequestInv
<1> QED
  BY <1>3, <1>4

-----------------------------------------------------------------------------
(* The steps of a request *)

\* What a request finds of the group of a running row is of that group.
LEMMA GroupIsOwn ==
    ASSUME KernelInv, NEW i \in Ids, row[i].status = "running", row[i].pid # NoPid,
           NEW p \in GroupPids(i), GroupPids(i) \subseteq Pids
    PROVE  origin[p] = i
<1>1. /\ pidOf[i] # NoPid /\ pidOf[i] \in Pids /\ origin[p] # 0 /\ Pgid(p) = pidOf[i]
  BY DEF KernelInv, TypeInv, PidInv, GroupPids, Free
<1>2. /\ origin[pidOf[i]] \in {0, i}
      /\ \A j \in Ids \ {i}, o \in Pids : pidOf[j] = pidOf[i] => origin[o] # j
  BY <1>1 DEF KernelInv, PinnedInv, Claims
<1>3. CASE origin[p] \in Ids
  BY <1>1, <1>2, <1>3 DEF Pgid
<1>4. CASE origin[p] \notin Ids
  BY <1>1, <1>2, <1>4 DEF Pgid
<1> QED
  BY <1>3, <1>4

LEMMA GroupPidsType == TypeInv => \A i \in Ids : GroupPids(i) \subseteq Pids
  BY DEF TypeInv, GroupPids

LEMMA RequestKeeps ==
    ASSUME Inv, NEW o \in Kinds, Request(o)
    PROVE  Inv'
<1>1. KernelInv'
  BY QuietKeeps DEF Request, Inv, KernelInv, TypeInv, answerVars, Pcs
<1>2. /\ pc = "idle" /\ pc' = "query" /\ past' = Now /\ UNCHANGED <<origin, listens>>
      /\ UNCHANGED <<row, todo, found, scan, missing, kept, members, ports, unavailable>>
  BY DEF Request, scanVars, answerVars, kernelVars
<1>3. PastInv'
  BY <1>2 DEF PastInv, Now
<1>4. StageInv' /\ FoundInv' /\ MembersInv' /\ HeardInv' /\ LostInv'
  BY <1>2 DEF Inv, RequestInv, StageInv, FoundInv, MembersInv, HeardInv, LostInv, Lists
<1>5. MissingInv'
  BY <1>2 DEF Inv, RequestInv, MissingInv
<1> QED
  BY <1>1, <1>3, <1>4, <1>5 DEF Inv, RequestInv

LEMMA QueryListKeeps ==
    ASSUME Inv, QueryList
    PROVE  Inv'
<1>1. KernelInv'
  BY ReadKeeps DEF QueryList, Quiet, LiveRows, Inv, Pcs
<1>2. /\ pc = "query" /\ pc' = "tokens" /\ Lists /\ UNCHANGED <<origin, listens, past>>
      /\ UNCHANGED <<op, found, scan, missing, members, ports, unavailable>>
  BY DEF QueryList, Quiet, scanVars, kernelVars
<1>3. found = {} /\ members = {} /\ unavailable = {} /\ scan = "no" /\ ports = [i \in Ids |-> {}]
  BY <1>2 DEF Inv, RequestInv, StageInv
<1>4. LostInv'
  <2> SUFFICES ASSUME op = "ps", NEW i \in kept', row'[i].status = "lost"
               PROVE  i \in todo'
    BY <1>2 DEF LostInv
  <2> QED
    BY DEF QueryList, LiveRows, ReadRow
<1>5. PastInv' /\ StageInv' /\ FoundInv' /\ MembersInv' /\ HeardInv' /\ MissingInv'
  BY <1>2, <1>3 DEF Inv, RequestInv, PastInv, StageInv, FoundInv, MembersInv, HeardInv, MissingInv, Lists, Free
<1> QED
  BY <1>1, <1>4, <1>5 DEF Inv, RequestInv

LEMMA QueryOneKeeps ==
    ASSUME Inv, NEW i \in Ids, QueryOne(i)
    PROVE  Inv'
<1>1. KernelInv'
  BY ReadKeeps DEF QueryOne, Quiet, Inv, KernelInv, TypeInv, Pcs
<1>2. /\ pc = "query" /\ pc' \in {"table", "done"} /\ ~Lists /\ UNCHANGED <<origin, listens, past>>
      /\ UNCHANGED <<op, found, scan, missing, members, ports>> /\ kept' = {i}
  BY DEF QueryOne, Quiet, scanVars, kernelVars
<1>3. found = {} /\ members = {} /\ unavailable = {} /\ scan = "no" /\ ports = [j \in Ids |-> {}]
  BY <1>2 DEF Inv, RequestInv, StageInv
<1>4. row'[i] = ReadRow(i)
  BY DEF QueryOne, Inv, KernelInv, TypeInv
<1>5. StageInv'
  <2>1. pc' = "table" => row'[i].status = "running" /\ row'[i].pid # NoPid
    BY <1>4 DEF QueryOne, ReadRow, Inv, KernelInv, PidInv
  <2> QED
    BY <1>2, <1>3, <2>1 DEF StageInv, Lists
<1>6. MissingInv'
  BY <1>2, <1>3, <1>4 DEF MissingInv, QueryOne, ReadRow
<1>7. PastInv' /\ FoundInv' /\ MembersInv' /\ HeardInv' /\ LostInv'
  BY <1>2, <1>3 DEF Inv, RequestInv, PastInv, FoundInv, MembersInv, HeardInv, LostInv, Lists, Free
<1> QED
  BY <1>1, <1>5, <1>6, <1>7 DEF Inv, RequestInv

LEMMA CheckTokenKeeps ==
    ASSUME Inv, NEW i \in Ids, CheckToken(i)
    PROVE  Inv'
<1>1. KernelInv'
  BY QuietKeeps DEF CheckToken, Quiet, Inv, KernelInv, TypeInv
<1>2. /\ pc = "tokens" /\ pc' = "tokens" /\ todo' = todo \ {i} /\ kept' \subseteq kept
      /\ UNCHANGED <<origin, listens, past, op, row, found, scan, missing, members, ports, unavailable>>
  BY DEF CheckToken, Quiet, scanVars, kernelVars
<1>3. LostInv'
  <2>1. ASSUME NEW j \in kept', row[j].status = "lost", op = "ps" PROVE j \in todo' \/ <<j, row[j].pid>> \in past.belonged
    <3>1. CASE j = i
      <4>1. row[i].pid # NoPid /\ origin[row[i].pid] = i
        BY <2>1, <3>1 DEF CheckToken, IsAlive, Leads
      <4>2. row[i].pid \in Pids
        BY <4>1 DEF Inv, KernelInv, TypeInv, PidInv
      <4> QED
        BY <1>2, <3>1, <4>1, <4>2 DEF Inv, RequestInv, PastInv
    <3>2. CASE j # i
      BY <1>2, <2>1, <3>2 DEF Inv, RequestInv, LostInv
    <3> QED
      BY <3>1, <3>2
  <2> QED
    BY <1>2, <2>1 DEF LostInv
<1>4. PastInv' /\ StageInv' /\ FoundInv' /\ MembersInv' /\ HeardInv' /\ MissingInv'
  BY <1>2 DEF Inv, RequestInv, PastInv, StageInv, FoundInv, MembersInv, HeardInv, MissingInv, Lists, Free
<1> QED
  BY <1>1, <1>3, <1>4 DEF Inv, RequestInv

LEMMA TokensCheckedKeeps ==
    ASSUME Inv, TokensChecked
    PROVE  Inv'
<1>1. KernelInv'
  BY QuietKeeps DEF TokensChecked, Quiet, answerVars, Inv, KernelInv, TypeInv, Pcs
<1>2. /\ pc = "tokens" /\ pc' \in {"sockets", "done"} /\ todo = {} /\ UNCHANGED <<origin, listens, past>>
      /\ UNCHANGED <<op, row, found, scan, missing, kept, members, ports, unavailable>>
  BY DEF TokensChecked, Quiet, scanVars, answerVars, kernelVars
<1>3. PastInv' /\ StageInv' /\ FoundInv' /\ MembersInv' /\ HeardInv' /\ LostInv' /\ MissingInv'
  BY <1>2 DEF Inv, RequestInv, PastInv, StageInv, FoundInv, MembersInv, HeardInv, LostInv, MissingInv, Lists, Free
<1> QED
  BY <1>1, <1>3 DEF Inv, RequestInv

\* A scan that finds those who listen.
LEMMA ScanKeeps ==
    ASSUME Inv, UnchangedButScan, pc \in {"sockets", "net", "net6", "fds"},
           pc' \in {"net", "net6", "fds"} \/ Scanned,
           \A q \in Ports, p \in Pids : <<q, p>> \in found' => <<q, p>> \in found \/ q \in listens[p],
           missing \subseteq missing', pc' = "net" => "netlink" \in missing',
           scan' = "none" => {"netlink", "tcp"} \subseteq missing'
    PROVE  Inv'
<1>1. /\ UNCHANGED <<origin, listens, past, op, row, todo, table, kept, members, ports, unavailable>>
      /\ Quiet
  BY DEF UnchangedButScan, Quiet, kernelVars, answerVars
<1>2. pc' \in {"net", "net6", "fds", "table", "match"} /\ (pc' = "table" => Lists) /\ (pc' = "match" => ~Lists)
  BY DEF Scanned
<1>3. KernelInv'
  BY <1>1, <1>2, QuietKeeps DEF Quiet, Inv, KernelInv, TypeInv, Pcs
<1>4. PastInv' /\ StageInv' /\ HeardInv' /\ LostInv' /\ MissingInv'
  BY <1>1, <1>2 DEF Inv, RequestInv, PastInv, StageInv, HeardInv, LostInv, MissingInv, Lists, Free
<1>5. FoundInv'
  <2> SUFFICES ASSUME NEW q \in Ports, NEW p \in Pids, <<q, p>> \in found', p \notin past.freed
               PROVE  ~Free(p) /\ \A i \in Ids : origin[p] = i => <<i, q>> \in past.heard
    BY <1>1 DEF FoundInv, Free
  <2>1. CASE <<q, p>> \in found
    BY <2>1 DEF Inv, RequestInv, FoundInv
  <2>2. CASE q \in listens[p]
    BY <2>2 DEF Inv, KernelInv, ListensInv, RequestInv, PastInv
  <2> QED
    BY <2>1, <2>2
<1>6. MembersInv'
  <2>1. ASSUME NEW i \in kept, NEW p \in members, NEW q \in Ports, <<q, p>> \in found'
        PROVE  <<i, q>> \in past.heard
    <3>1. CASE <<q, p>> \in found
      BY <2>1, <3>1 DEF Inv, RequestInv, MembersInv
    <3>2. CASE <<q, p>> \notin found
      <4>1. p \in Pids /\ i \in Ids /\ q \in listens[p]
        BY <2>1, <3>2 DEF Inv, KernelInv, TypeInv
      <4>2. ~Free(p)
        BY <4>1 DEF Inv, KernelInv, ListensInv
      <4>3. origin[p] = i
        BY <4>1, <4>2 DEF Inv, RequestInv, PastInv, MembersInv
      <4> QED
        BY <4>1, <4>3 DEF Inv, RequestInv, PastInv
    <3> QED
      BY <3>1, <3>2
  <2> QED
    BY <1>1, <2>1 DEF Inv, RequestInv, MembersInv
<1> QED
  BY <1>3, <1>4, <1>5, <1>6 DEF Inv, RequestInv

LEMMA ScanStepKeeps ==
    ASSUME Inv, ScanStep
    PROVE  Inv'
<1>1. CASE ScanNetlink
  BY <1>1, ScanKeeps DEF ScanNetlink, Misses, Scanned, Inv, RequestInv, MissingInv
<1>2. CASE ReadNet
  BY <1>2, ScanKeeps DEF ReadNet, Misses, Scanned, Inv, RequestInv, MissingInv
<1>3. CASE ReadNet6
  BY <1>3, ScanKeeps DEF ReadNet6, Misses
<1>4. CASE Walked
  BY <1>4, ScanKeeps DEF Walked, Scanned, Inv, RequestInv, MissingInv
<1>5. ASSUME NEW p \in Pids, WalkFds(p) PROVE Inv'
  BY <1>5, ScanKeeps DEF WalkFds, Misses, Inv, RequestInv, MissingInv
<1> QED
  BY <1>1, <1>2, <1>3, <1>4, <1>5 DEF ScanStep

LEMMA ReadTableKeeps ==
    ASSUME Inv, ReadTable
    PROVE  Inv'
<1>1. KernelInv'
  BY QuietKeeps DEF ReadTable, Quiet, Running, answerVars, Inv, KernelInv, TypeInv, Pcs
<1>2. /\ pc = "table" /\ pc' = (IF Lists THEN "rows" ELSE "group") /\ todo' = Running
      /\ UNCHANGED <<origin, listens, past, op, row, found, scan, missing, kept, members, ports, unavailable>>
  BY DEF ReadTable, Quiet, scanVars, answerVars, kernelVars
<1>3. PastInv' /\ FoundInv' /\ MembersInv' /\ HeardInv' /\ LostInv' /\ MissingInv'
  BY <1>2 DEF Inv, RequestInv, PastInv, FoundInv, MembersInv, HeardInv, LostInv, MissingInv, Lists, Free
<1>4. StageInv'
  BY <1>2 DEF Inv, RequestInv, StageInv, Lists, Running
<1> QED
  BY <1>1, <1>3, <1>4 DEF Inv, RequestInv

LEMMA AttributeKeeps ==
    ASSUME Inv, NEW i \in Ids, Attribute(i)
    PROVE  Inv'
<1>1. /\ pc = "rows" /\ pc' = "rows" /\ i \in todo /\ todo' = todo \ {i} /\ Quiet
      /\ UNCHANGED <<origin, listens, past, op, row, table, found, scan, missing, kept, members>>
  BY DEF Attribute, Newest, Quiet, scanVars, kernelVars
<1>2. \/ UNCHANGED ports
      \/ ports' = [ports EXCEPT ![i] = PortsFor(GroupPids(i))] /\ row[i].pid # NoPid
  BY DEF Attribute
<1>3. KernelInv'
  BY <1>1, <1>2, QuietKeeps DEF Quiet, PortsFor, Inv, KernelInv, TypeInv, Pcs
<1>4. PastInv' /\ StageInv' /\ FoundInv' /\ MembersInv' /\ LostInv'
  BY <1>1 DEF Inv, RequestInv, PastInv, StageInv, FoundInv, MembersInv, LostInv, Lists, Free
<1>5. MissingInv'
  BY <1>1 DEF Attribute, Inv, RequestInv, MissingInv
<1>6. ASSUME NEW q \in PortsFor(GroupPids(i)), row[i].pid # NoPid PROVE <<i, q>> \in past.heard
  <2>1. PICK p \in GroupPids(i) : <<q, p>> \in found
    BY <1>6 DEF PortsFor
  <2>2. row[i].status = "running" /\ GroupPids(i) \subseteq Pids
    BY <1>1, GroupPidsType DEF Inv, KernelInv, RequestInv, StageInv
  <2>3. p \in Pids /\ origin[p] = i /\ ~Free(p)
    BY <1>6, <2>1, <2>2, GroupIsOwn DEF Inv, GroupPids
  <2>4. q \in Ports
    BY DEF PortsFor
  <2> QED
    BY <1>1, <2>1, <2>3, <2>4 DEF Inv, RequestInv, PastInv, FoundInv
<1>7. HeardInv'
  BY <1>1, <1>2, <1>6 DEF Inv, KernelInv, TypeInv, RequestInv, HeardInv
<1> QED
  BY <1>3, <1>4, <1>5, <1>7 DEF Inv, RequestInv

LEMMA AttributedKeeps ==
    ASSUME Inv, Attributed
    PROVE  Inv'
<1>1. KernelInv'
  BY QuietKeeps DEF Attributed, Quiet, answerVars, Inv, KernelInv, TypeInv, Pcs
<1>2. /\ pc = "rows" /\ pc' = "done" /\ UNCHANGED <<origin, listens, past>>
      /\ UNCHANGED <<op, row, todo, found, scan, missing, kept, members, ports, unavailable>>
  BY DEF Attributed, Quiet, scanVars, answerVars, kernelVars
<1>3. PastInv' /\ StageInv' /\ FoundInv' /\ MembersInv' /\ HeardInv' /\ LostInv' /\ MissingInv'
  BY <1>2 DEF Inv, RequestInv, PastInv, StageInv, FoundInv, MembersInv, HeardInv, LostInv, MissingInv, Lists, Free
<1> QED
  BY <1>1, <1>3 DEF Inv, RequestInv

LEMMA GroupKeeps ==
    ASSUME Inv, Group
    PROVE  Inv'
<1>1. /\ pc = "group" /\ pc' \in {"sockets", "done"} /\ ~Lists /\ todo' = {} /\ Quiet
      /\ UNCHANGED <<origin, listens, past, op, row, table, found, scan, missing, kept, ports, unavailable>>
  BY DEF Group, Quiet, scanVars, kernelVars, Inv, RequestInv, StageInv
<1>2. PICK i \in Ids : kept = {i} /\ row[i].status = "running" /\ row[i].pid # NoPid
  BY <1>1 DEF Inv, RequestInv, StageInv
<1>3. members' = GroupPids(i) /\ GroupPids(i) \subseteq Pids /\ found = {}
  BY <1>1, <1>2, GroupPidsType DEF Group, Inv, KernelInv, RequestInv, StageInv
<1>4. KernelInv'
  BY <1>1, <1>3, QuietKeeps DEF Quiet, Inv, KernelInv, TypeInv, Pcs
<1>5. MembersInv'
  <2>1. \A p \in GroupPids(i) : origin[p] = i
    BY <1>2, <1>3, GroupIsOwn DEF Inv
  <2> QED
    BY <1>1, <1>2, <1>3, <2>1 DEF MembersInv, Inv, RequestInv, PastInv
<1>6. PastInv' /\ StageInv' /\ FoundInv' /\ HeardInv' /\ LostInv' /\ MissingInv'
  BY <1>1 DEF Inv, RequestInv, PastInv, StageInv, FoundInv, HeardInv, LostInv, MissingInv, Lists, Free
<1> QED
  BY <1>4, <1>5, <1>6 DEF Inv, RequestInv

LEMMA MatchKeeps ==
    ASSUME Inv, Match
    PROVE  Inv'
<1>1. /\ pc = "match" /\ pc' = "done" /\ ~Lists /\ Quiet
      /\ UNCHANGED <<origin, listens, past, op, row, todo, table, found, scan, missing, kept, members>>
  BY DEF Match, Quiet, scanVars, kernelVars, Inv, RequestInv, StageInv
<1>2. /\ ports' = [i \in Ids |-> IF i \in kept THEN PortsFor(members) ELSE {}]
      /\ unavailable' = IF scan = "none" THEN kept ELSE {}
  BY DEF Match
<1>3. KernelInv'
  BY <1>1, <1>2, QuietKeeps DEF Quiet, PortsFor, Inv, KernelInv, TypeInv, Pcs
<1>4. HeardInv'
  BY <1>1, <1>2 DEF PortsFor, HeardInv, Inv, RequestInv, MembersInv
<1>5. PastInv' /\ StageInv' /\ FoundInv' /\ MembersInv' /\ LostInv' /\ MissingInv'
  BY <1>1, <1>2 DEF Inv, RequestInv, PastInv, StageInv, FoundInv, MembersInv, LostInv, MissingInv, Lists, Free
<1> QED
  BY <1>3, <1>4, <1>5 DEF Inv, RequestInv

LEMMA AnswerKeeps ==
    ASSUME Inv, Answer
    PROVE  Inv'
  BY EndKeeps DEF Answer, lifecycleVars, Inv, KernelInv, TypeInv

LEMMA RebootKeeps ==
    ASSUME Inv, Reboot
    PROVE  Inv'
<1>1. /\ NoRequest /\ UNCHANGED kernelVars /\ UNCHANGED known
      /\ status' = [i \in Ids |-> IF status[i] = "running" THEN "lost" ELSE status[i]]
  BY DEF Reboot, LoseAll
<1> QED
  BY <1>1, EndKeeps DEF Inv

-----------------------------------------------------------------------------
(* The theorems *)

LEMMA RequestStepKeeps ==
    ASSUME Inv, RequestStep
    PROVE  Inv'
  BY RequestKeeps, QueryListKeeps, QueryOneKeeps, CheckTokenKeeps, TokensCheckedKeeps, ScanStepKeeps,
     ReadTableKeeps, AttributeKeeps, AttributedKeeps, GroupKeeps, MatchKeeps, AnswerKeeps DEF RequestStep

LEMMA StutterKeeps ==
    ASSUME Inv, UNCHANGED vars
    PROVE  Inv'
<1>1. UNCHANGED <<status, name, known, alive, pidOf, origin, listens, past, op, pc, row, todo, table,
                  open, walk, found, scan, missing, kept, members, ports, unavailable>>
  BY DEF vars, lifecycleVars, kernelVars, requestVars, scanVars, answerVars
<1>2. KernelInv'
  BY <1>1 DEF Inv, KernelInv, TypeInv, PidInv, ListensInv, PinnedInv, Free, Claims
<1>3. RequestInv'
  BY <1>1 DEF Inv, RequestInv, PastInv, StageInv, FoundInv, MembersInv, HeardInv, LostInv, MissingInv, Lists, Free
<1> QED
  BY <1>2, <1>3 DEF Inv

\* What a request has put together, and what the kernel has to tell, is
\* consistent at every step of both.
THEOREM Invariance == Spec => []Inv
<1>1. Inv /\ [Next]_vars => Inv'
  BY WorldMoves, RebootKeeps, RequestStepKeeps, StutterKeeps DEF Next
<1> QED
  BY Initially, <1>1, PTL DEF Spec

\* A lost row is listed only if its own process was there since the request
\* (the identity tokens of list_processes).
THEOREM LostOnlyIfAlive == Spec => []LostRowsAreAlive
<1>1. Inv => LostRowsAreAlive
  BY DEF Inv, RequestInv, LostInv, LostRowsAreAlive
<1> QED
  BY Invariance, <1>1, PTL

\* Ports and processes are put down to the row whose group had them since
\* the request, though they are read at different times.
THEOREM OwnOnly == Spec => []NothingOfOthers
<1>1. Inv => NothingOfOthers
  BY DEF Inv, RequestInv, HeardInv, MembersInv, NothingOfOthers
<1> QED
  BY Invariance, <1>1, PTL

\* Ports are unknown only when neither netlink nor /proc can be read, but
\* for a row without a pid (Discovery::collect).
THEOREM UnknownOnlyWithoutSources == Spec => []UnavailableMeansBoth
<1>1. Inv => UnavailableMeansBoth
  BY DEF Inv, RequestInv, MissingInv, UnavailableMeansBoth
<1> QED
  BY Invariance, <1>1, PTL

-----------------------------------------------------------------------------
(* Completeness: an answer leaves nothing out.  What was true from the
   request on, each of the scans has seen. *)

\* A process that runs has its pid.
AliveInv ==
    /\ DOMAIN alive = Ids
    /\ \A i \in Ids : alive[i] => pidOf[i] # NoPid /\ origin[pidOf[i]] = i

\* What has been true since the request is true.
SinceInv ==
    pc # "idle" =>
        /\ op \in {"ps", "all", "ports", "resources"}
        /\ past.steady \subseteq Ids
        /\ \A i \in past.steady : alive[i] /\ known[i] /\ status[i] \in {"running", "lost"}
        /\ past.held \subseteq Ids \X Pids \X Ports
        /\ \A i \in Ids, p \in Pids, q \in Ports : <<i, p, q>> \in past.held =>
             origin[p] = i /\ q \in listens[p] /\ status[i] = "running" /\ known[i]

\* A process that keeps running stays in the list.
SteadyInv ==
    pc \notin {"idle", "query"} /\ Lists =>
        \A i \in past.steady : i \in kept /\ row[i].pid # NoPid

\* Where the port of a process that keeps listening has been seen.
Found(p, q) == <<q, p>> \in found \/ Unreadable(q)

Shown(i, q) == i \in unavailable \/ q \in ports[i] \/ Unreadable(q)

HeldAt(i, p, q) ==
    /\ pc = "net6" => q \in V6 \/ q \in open
    /\ pc = "fds" => /\ q \in open \/ Unreadable(q)
                     /\ p \in walk \/ Found(p, q)
    /\ pc = "match" \/ (Lists /\ pc \in {"table", "rows"}) => scan = "none" \/ Found(p, q)
    /\ pc \in {"rows", "group"} => p \in table
    /\ i \in kept /\ pc \notin {"idle", "query"} =>
         /\ row[i].status = "running" /\ row[i].pid # NoPid
         /\ ~Lists /\ pc \in {"sockets", "net", "net6", "fds", "match"} => p \in members
         /\ pc = "rows" => i \in todo \/ Shown(i, q)
         /\ pc = "done" /\ op # "resources" => Shown(i, q)

HeldInv ==
    pc # "idle" =>
        \A i \in Ids, p \in Pids, q \in Ports : <<i, p, q>> \in past.held => HeldAt(i, p, q)

Complete == AliveInv /\ SinceInv /\ SteadyInv /\ HeldInv

-----------------------------------------------------------------------------
(* The kernel and the rows *)

LEMMA InitiallyComplete == Init => Complete
  BY DEF Init, LInit, Complete, AliveInv, SinceInv, SteadyInv, HeldInv

\* A leader keeps its pid until it has exited and is reaped.
LEMMA AliveKeeps ==
    ASSUME KernelInv, AliveInv, KernelStep \/ RowStep
    PROVE  AliveInv'
<1>1. ASSUME NEW i \in Ids, LeaderDies(i) PROVE AliveInv'
  BY <1>1 DEF LeaderDies, Die, AliveInv
<1>2. ASSUME NEW i \in Ids, NEW p \in Pids, Launch(i, p) PROVE AliveInv'
  <2>1. /\ Free(p) /\ p # NoPid /\ DOMAIN alive = Ids
        /\ alive' = [alive EXCEPT ![i] = TRUE]
        /\ pidOf' = [pidOf EXCEPT ![i] = p] /\ origin' = [origin EXCEPT ![p] = i]
    BY <1>2, ListingAssumption DEF Launch, Available, Start, AliveInv
  <2>2. DOMAIN pidOf = Ids /\ DOMAIN origin = Pids /\ DOMAIN alive' = Ids
    BY <2>1 DEF KernelInv, TypeInv
  <2>3. ASSUME NEW j \in Ids, alive'[j] PROVE pidOf'[j] # NoPid /\ origin'[pidOf'[j]] = j
    <3>1. CASE j = i
      BY <2>1, <2>2, <3>1
    <3>2. CASE j # i
      <4>1. alive[j] /\ pidOf'[j] = pidOf[j]
        BY <2>1, <2>2, <2>3, <3>2
      <4>2. pidOf[j] # NoPid /\ origin[pidOf[j]] = j /\ pidOf[j] # p
        BY <2>1, <4>1, Others DEF AliveInv, Free
      <4> QED
        BY <2>1, <2>2, <4>1, <4>2
    <3> QED
      BY <3>1, <3>2
  <2> QED
    BY <2>2, <2>3 DEF AliveInv
<1>3. ASSUME NEW p \in Pids, Leave(p) PROVE AliveInv'
  <2>1. \A i \in Ids : alive[i] => pidOf[i] # p
    BY <1>3 DEF Leave, Zombie, Leads, AliveInv
  <2> QED
    BY <1>3, <2>1 DEF Leave, lifecycleVars, AliveInv, KernelInv, TypeInv
<1>4. ASSUME NEW c \in Pids, Free(c), UNCHANGED <<pidOf, lifecycleVars>>,
             NEW g, origin' = [origin EXCEPT ![c] = g]
      PROVE  AliveInv'
  BY <1>4, Others DEF lifecycleVars, AliveInv, Free, KernelInv, TypeInv
<1>5. ASSUME UNCHANGED <<pidOf, origin, alive>> PROVE AliveInv'
  BY <1>5 DEF AliveInv
<1>6. ASSUME NEW p \in Pids, NEW c \in Pids, Fork(p, c) PROVE AliveInv'
  BY <1>4, <1>6 DEF Fork, Available
<1>7. ASSUME NEW p \in Pids, Stranger(p) PROVE AliveInv'
  BY <1>4, <1>7 DEF Stranger, Available
<1>8. ASSUME RowStep PROVE AliveInv'
  BY <1>5, <1>8 DEF RowStep, Claim, Record, Verdict, kernelVars
<1> QED
  BY <1>1, <1>2, <1>3, <1>5, <1>6, <1>7, <1>8 DEF KernelStep, Listen, Close, lifecycleVars

\* What has been true since the request, and is true now, has been true since.
LEMMA Since ==
    ASSUME Remember, pc # "idle"
    PROVE  /\ past'.steady \subseteq past.steady /\ past'.held \subseteq past.held
           /\ \A i \in past'.steady : i \in Ids /\ alive'[i] /\ known'[i] /\ status'[i] \in {"running", "lost"}
           /\ \A i \in Ids, p \in Pids, q \in Ports : <<i, p, q>> \in past'.held =>
                origin'[p] = i /\ q \in listens'[p] /\ status'[i] = "running" /\ known'[i]
<1>1. past' = [freed |-> past.freed \cup {p \in Pids : ~Free(p) /\ Free(p)'},
                  belonged |-> past.belonged \cup Now'.belonged,
                  heard |-> past.heard \cup Now'.heard,
                  held |-> past.held \cap Now'.held,
                  steady |-> past.steady \cap Now'.steady]
  BY DEF Remember
<1>2. \A i \in Now'.steady : i \in Ids /\ alive'[i] /\ known'[i] /\ status'[i] \in {"running", "lost"}
  BY DEF Now
<1>3. \A i \in Ids, p \in Pids, q \in Ports : <<i, p, q>> \in Now'.held =>
        origin'[p] = i /\ q \in listens'[p] /\ status'[i] = "running" /\ known'[i]
  BY DEF Now
<1> QED
  BY <1>1, <1>2, <1>3

LEMMA WorldMovesOn ==
    ASSUME Inv, Complete, KernelStep \/ RowStep, UNCHANGED requestVars, Remember
    PROVE  Complete'
<1>1. AliveInv'
  BY AliveKeeps DEF Inv, Complete
<1>2. UNCHANGED <<op, pc, row, todo, table, open, walk, found, scan, missing, kept, members, ports, unavailable>>
  BY DEF requestVars, scanVars, answerVars
<1>3. CASE pc = "idle"
  BY <1>1, <1>2, <1>3 DEF Complete, SinceInv, SteadyInv, HeldInv
<1>4. CASE pc # "idle"
  <2>1. SinceInv'
    BY <1>2, <1>4, Since DEF Complete, SinceInv
  <2>2. SteadyInv'
    BY <1>2, <1>4, Since DEF Complete, SteadyInv, Lists
  <2>3. \A i \in Ids, p \in Pids, q \in Ports : HeldAt(i, p, q)' <=> HeldAt(i, p, q)
    BY <1>2 DEF HeldAt, Found, Shown, Unreadable, Lists
  <2>4. HeldInv'
    BY <1>2, <1>4, <2>3, Since DEF Complete, HeldInv
  <2> QED
    BY <1>1, <2>1, <2>2, <2>4 DEF Complete
<1> QED
  BY <1>3, <1>4

-----------------------------------------------------------------------------
(* The steps of a request *)

\* Reading does not change what is true.
LEMMA ReadsOnly ==
    ASSUME Complete, Quiet, UNCHANGED op, pc # "idle", SteadyInv', HeldInv'
    PROVE  Complete'
<1>1. UNCHANGED <<status, known, alive, pidOf, origin, listens, past>>
  BY DEF Quiet, lifecycleVars, kernelVars
<1>2. AliveInv' /\ SinceInv'
  BY <1>1 DEF Complete, AliveInv, SinceInv
<1> QED
  BY <1>2 DEF Complete

\* What is held at a step of a request.
LEMMA HeldNow ==
    ASSUME Complete, pc # "idle", NEW i \in Ids, NEW p \in Pids, NEW q \in Ports, <<i, p, q>> \in past.held
    PROVE  /\ origin[p] = i /\ q \in listens[p] /\ status[i] = "running" /\ known[i]
           /\ HeldAt(i, p, q)
  BY DEF Complete, SinceInv, HeldInv

LEMMA RequestComplete ==
    ASSUME Inv, Complete, NEW o \in Kinds, Request(o)
    PROVE  Complete'
<1>1. /\ pc = "idle" /\ pc' = "query" /\ op' = o /\ past' = Now
      /\ UNCHANGED <<status, known, alive, pidOf, origin, listens>>
  BY DEF Request, lifecycleVars, kernelVars
<1>2. AliveInv' /\ SteadyInv'
  BY <1>1 DEF Complete, AliveInv, SteadyInv
<1>3. SinceInv'
  <2>1. /\ Now.steady \subseteq Ids /\ Now.held \subseteq Ids \X Pids \X Ports
        /\ \A i \in Now.steady : alive[i] /\ known[i] /\ status[i] \in {"running", "lost"}
        /\ \A i \in Ids, p \in Pids, q \in Ports : <<i, p, q>> \in Now.held =>
             origin[p] = i /\ q \in listens[p] /\ status[i] = "running" /\ known[i]
    BY DEF Now
  <2> QED
    BY <1>1, <2>1, ListingAssumption DEF SinceInv
<1>4. HeldInv'
  BY <1>1 DEF HeldInv, HeldAt
<1> QED
  BY <1>2, <1>3, <1>4 DEF Complete

LEMMA QueryListComplete ==
    ASSUME Inv, Complete, QueryList
    PROVE  Complete'
<1>1. /\ pc = "query" /\ pc' = "tokens" /\ Lists /\ UNCHANGED <<op, past, open, walk, found, scan, missing>>
      /\ Quiet
  BY DEF QueryList, Quiet, scanVars
<1>2. \A i \in kept' : row'[i] = ReadRow(i)
  BY DEF QueryList, LiveRows
<1>3. \A i \in Ids : status[i] \in {"running", "lost"} => i \in kept'
  BY DEF QueryList, LiveRows
<1>4. \A i \in Ids : known[i] => ReadRow(i).pid # NoPid
  BY DEF ReadRow, Inv, KernelInv, PidInv
<1>5. SteadyInv'
  BY <1>1, <1>2, <1>3, <1>4 DEF SteadyInv, Complete, SinceInv
<1>6. HeldInv'
  <2> SUFFICES ASSUME NEW i \in Ids, NEW p \in Pids, NEW q \in Ports, <<i, p, q>> \in past.held, i \in kept'
               PROVE  row'[i].status = "running" /\ row'[i].pid # NoPid
    BY <1>1 DEF HeldInv, HeldAt
  <2>1. status[i] = "running" /\ known[i]
    BY <1>1, HeldNow
  <2>2. row'[i] = ReadRow(i) /\ ReadRow(i).pid # NoPid
    BY <1>2, <1>4, <2>1
  <2> QED
    BY <2>1, <2>2 DEF ReadRow
<1> QED
  BY <1>1, <1>5, <1>6, ReadsOnly

LEMMA QueryOneComplete ==
    ASSUME Inv, Complete, NEW i \in Ids, QueryOne(i)
    PROVE  Complete'
<1>1. /\ pc = "query" /\ ~Lists /\ UNCHANGED <<op, past, open, walk, found, scan, missing>> /\ Quiet
      /\ kept' = {i} /\ pc' = IF status[i] = "running" /\ known[i] THEN "table" ELSE "done"
  BY DEF QueryOne, Quiet, scanVars
<1>2. row'[i] = ReadRow(i)
  BY DEF QueryOne, Inv, KernelInv, TypeInv
<1>3. SteadyInv'
  BY <1>1 DEF SteadyInv, Lists
<1>4. HeldInv'
  <2> SUFFICES ASSUME NEW p \in Pids, NEW q \in Ports, <<i, p, q>> \in past.held
               PROVE  pc' = "table" /\ row'[i].status = "running" /\ row'[i].pid # NoPid
    BY <1>1 DEF HeldInv, HeldAt, Lists
  <2>1. status[i] = "running" /\ known[i]
    BY <1>1, HeldNow
  <2> QED
    BY <1>1, <1>2, <2>1 DEF ReadRow, Inv, KernelInv, PidInv
<1> QED
  BY <1>1, <1>3, <1>4, ReadsOnly

LEMMA CheckTokenComplete ==
    ASSUME Inv, Complete, NEW i \in Ids, CheckToken(i)
    PROVE  Complete'
<1>1. /\ pc = "tokens" /\ pc' = "tokens" /\ Quiet /\ kept' \subseteq kept
      /\ UNCHANGED <<op, past, row, open, walk, found, scan, missing>>
  BY DEF CheckToken, Quiet, scanVars
<1>2. SteadyInv'
  <2>1. \A j \in past.steady : Lists => j \in kept /\ row[j].pid # NoPid
    BY <1>1 DEF Complete, SteadyInv
  <2>2. i \in past.steady /\ Lists => IsAlive(i)
    <3> SUFFICES ASSUME i \in past.steady, Lists PROVE IsAlive(i)
      OBVIOUS
    <3>1. row[i].pid # NoPid /\ row[i].pid = pidOf[i]
      BY <2>1 DEF Inv, KernelInv, PidInv
    <3>2. alive[i] /\ origin[pidOf[i]] = i
      BY <1>1 DEF Complete, SinceInv, AliveInv
    <3> QED
      BY <3>1, <3>2 DEF IsAlive, Leads
  <2>3. \A j \in kept : j # i \/ IsAlive(i) => j \in kept'
    BY DEF CheckToken
  <2> QED
    BY <1>1, <2>1, <2>2, <2>3 DEF SteadyInv, Lists
<1>3. HeldInv'
  BY <1>1 DEF Complete, HeldInv, HeldAt
<1> QED
  BY <1>1, <1>2, <1>3, ReadsOnly

LEMMA TokensCheckedComplete ==
    ASSUME Inv, Complete, TokensChecked
    PROVE  Complete'
<1>1. /\ pc = "tokens" /\ pc' = (IF Running = {} THEN "done" ELSE "sockets") /\ Quiet
      /\ UNCHANGED <<op, past, row, kept>> /\ Lists
  BY DEF TokensChecked, Quiet, answerVars, Inv, RequestInv, StageInv
<1>2. SteadyInv'
  BY <1>1 DEF Complete, SteadyInv, Lists
<1>3. HeldInv'
  <2> SUFFICES ASSUME NEW i \in Ids, NEW p \in Pids, NEW q \in Ports, <<i, p, q>> \in past.held, i \in kept
               PROVE  row[i].status = "running" /\ row[i].pid # NoPid /\ pc' = "sockets"
    BY <1>1 DEF HeldInv, HeldAt, Lists
  <2>1. row[i].status = "running" /\ row[i].pid # NoPid
    BY <1>1, HeldNow DEF HeldAt
  <2> QED
    BY <1>1, <2>1 DEF Running
<1> QED
  BY <1>1, <1>2, <1>3, ReadsOnly

\* What a scan has to show of a port that a process listens on.
Sees(p, q) ==
    /\ pc = "net6" => q \in V6 \/ q \in open
    /\ pc = "fds" => /\ q \in open \/ Unreadable(q)
                     /\ p \in walk \/ Found(p, q)
    /\ pc \in {"table", "match"} => scan = "none" \/ Found(p, q)

LEMMA ScanComplete ==
    ASSUME Inv, Complete, UnchangedButScan, pc \in {"sockets", "net", "net6", "fds"},
           pc' \in {"net", "net6", "fds"} \/ Scanned,
           \A i \in Ids, p \in Pids, q \in Ports :
                q \in listens[p] /\ HeldAt(i, p, q) => Sees(p, q)'
    PROVE  Complete'
<1>1. UNCHANGED <<past, op, row, todo, table, kept, members, ports, unavailable>> /\ Quiet
  BY DEF UnchangedButScan, Quiet, answerVars
<1>2. pc' \in {"net", "net6", "fds", "table", "match"} /\ (pc' = "table" => Lists) /\ (pc' = "match" => ~Lists)
  BY DEF Scanned
<1>3. SteadyInv'
  BY <1>1, <1>2 DEF Complete, SteadyInv, Lists
<1>4. HeldInv'
  <2> SUFFICES ASSUME NEW i \in Ids, NEW p \in Pids, NEW q \in Ports, <<i, p, q>> \in past.held
               PROVE  HeldAt(i, p, q)'
    BY <1>1 DEF HeldInv
  <2>1. q \in listens[p] /\ HeldAt(i, p, q)
    BY HeldNow
  <2>2. Sees(p, q)'
    BY <2>1
  <2>3. i \in kept => /\ row[i].status = "running" /\ row[i].pid # NoPid
                      /\ ~Lists => p \in members
    BY <2>1 DEF HeldAt
  <2> QED
    BY <1>1, <1>2, <2>2, <2>3 DEF HeldAt, Sees, Lists
<1> QED
  BY <1>1, <1>3, <1>4, ReadsOnly

LEMMA ScanStepComplete ==
    ASSUME Inv, Complete, ScanStep
    PROVE  Complete'
<1>1. CASE ScanNetlink
  BY <1>1, ScanComplete DEF ScanNetlink, Misses, Scanned, Sees, Found
<1>2. CASE ReadNet
  <2>1. \A p \in Pids, q \in Ports : q \in listens[p] => q \in Open
    BY DEF Open
  <2> QED
    BY <1>2, <2>1, ScanComplete DEF ReadNet, Misses, Scanned, Sees, Found, Unreadable
<1>3. CASE ReadNet6
  <2>1. \A p \in Pids, q \in Ports : q \in listens[p] => q \in Open
    BY DEF Open
  <2>2. /\ pc = "net6" /\ pc' = "fds" /\ walk' = Pids /\ UnchangedButScan
        /\ \/ open' = open \cup (Open \cap V6)
           \/ missing' = missing \cup {"tcp6"} /\ open' = open
    BY <1>3 DEF ReadNet6, Misses
  <2>3. \A i \in Ids, p \in Pids, q \in Ports : q \in listens[p] /\ HeldAt(i, p, q) => Sees(p, q)'
    BY <2>1, <2>2 DEF HeldAt, Sees, Unreadable
  <2> QED
    BY <2>2, <2>3, ScanComplete
<1>4. CASE Walked
  <2>1. /\ pc = "fds" /\ walk = {} /\ Scanned /\ UNCHANGED <<found, missing>> /\ UnchangedButScan
    BY <1>4 DEF Walked
  <2>2. \A i \in Ids, p \in Pids, q \in Ports : q \in listens[p] /\ HeldAt(i, p, q) => Sees(p, q)'
    BY <2>1 DEF HeldAt, Sees, Found, Unreadable, Scanned
  <2> QED
    BY <2>1, <2>2, ScanComplete
<1>5. ASSUME NEW o \in Pids, WalkFds(o) PROVE Complete'
  <2>1. /\ pc = "fds" /\ pc' = "fds" /\ walk' = walk \ {o} /\ open' = open /\ UnchangedButScan
        /\ \/ missing' = missing /\ found' = found \cup {<<q, o>> : q \in open \cap listens[o]}
           \/ missing' = missing \cup {"fds"} /\ found' = found
    BY <1>5 DEF WalkFds, Misses
  <2>2. ASSUME NEW i \in Ids, NEW p \in Pids, NEW q \in Ports, q \in listens[p], HeldAt(i, p, q)
        PROVE  Sees(p, q)'
    <3>1. (q \in open \/ Unreadable(q)) /\ (p \in walk \/ Found(p, q))
      BY <2>1, <2>2 DEF HeldAt
    <3>2. Unreadable(q) => Unreadable(q)'
      BY <2>1 DEF Unreadable
    <3>3. Found(p, q) => Found(p, q)'
      BY <2>1, <3>2 DEF Found
    <3>4. p = o => Found(p, q)'
      BY <2>1, <2>2, <3>1, <3>2 DEF Found, Unreadable
    <3> QED
      BY <2>1, <3>1, <3>2, <3>3, <3>4 DEF Sees
  <2> QED
    BY <2>1, <2>2, ScanComplete
<1> QED
  BY <1>1, <1>2, <1>3, <1>4, <1>5 DEF ScanStep

LEMMA ReadTableComplete ==
    ASSUME Inv, Complete, ReadTable
    PROVE  Complete'
<1>1. /\ pc = "table" /\ pc' = (IF Lists THEN "rows" ELSE "group") /\ todo' = Running /\ Quiet
      /\ table' = {p \in Pids : ~Free(p)}
      /\ UNCHANGED <<op, past, row, open, walk, found, scan, missing, kept, members, ports, unavailable>>
  BY DEF ReadTable, Quiet, scanVars, answerVars
<1>2. SteadyInv'
  BY <1>1 DEF Complete, SteadyInv, Lists
<1>3. HeldInv'
  <2> SUFFICES ASSUME NEW i \in Ids, NEW p \in Pids, NEW q \in Ports, <<i, p, q>> \in past.held
               PROVE  HeldAt(i, p, q)'
    BY <1>1 DEF HeldInv
  <2>1. origin[p] = i /\ HeldAt(i, p, q)
    BY <1>1, HeldNow
  <2>2. p \in table'
    BY <1>1, <2>1, Others DEF Free
  <2>3. i \in kept => row[i].status = "running" /\ row[i].pid # NoPid /\ i \in todo'
    BY <1>1, <2>1 DEF HeldAt, Running
  <2>4. Lists => scan = "none" \/ Found(p, q)
    BY <1>1, <2>1 DEF HeldAt
  <2> QED
    BY <1>1, <2>2, <2>3, <2>4 DEF HeldAt, Found, Unreadable, Lists
<1> QED
  BY <1>1, <1>2, <1>3, ReadsOnly

\* A process of a running row is found in its group.
LEMMA InGroup ==
    ASSUME Inv, NEW i \in Ids, NEW p \in table, origin[p] = i, row[i].pid # NoPid
    PROVE  p \in GroupPids(i)
  BY Others DEF Inv, KernelInv, PidInv, GroupPids, Free, Pgid

LEMMA AttributeComplete ==
    ASSUME Inv, Complete, NEW i \in Ids, Attribute(i)
    PROVE  Complete'
<1>1. /\ pc = "rows" /\ pc' = "rows" /\ todo' = todo \ {i} /\ Quiet
      /\ UNCHANGED <<op, past, row, table, open, walk, found, scan, missing, kept, members>>
  BY DEF Attribute, Quiet, scanVars
<1>2. SteadyInv'
  BY <1>1 DEF Complete, SteadyInv, Lists
<1>3. \A j \in Ids \ {i}, q \in Ports : Shown(j, q) => Shown(j, q)'
  BY <1>1 DEF Attribute, Shown, Unreadable, Inv, KernelInv, TypeInv
<1>4. ASSUME NEW p \in Pids, NEW q \in Ports, <<i, p, q>> \in past.held, i \in kept
      PROVE  Shown(i, q)'
  <2>1. origin[p] = i /\ HeldAt(i, p, q)
    BY <1>1, <1>4, HeldNow
  <2>2. Lists
    BY <1>1 DEF Inv, RequestInv, StageInv
  <2>3. p \in table /\ row[i].pid # NoPid /\ (scan = "none" \/ Found(p, q))
    BY <1>1, <1>4, <2>1, <2>2 DEF HeldAt
  <2>4. CASE scan = "none"
    BY <2>3, <2>4 DEF Attribute, Shown
  <2>5. CASE scan # "none"
    <3>1. ports' = [ports EXCEPT ![i] = PortsFor(GroupPids(i))]
      BY <2>3, <2>5 DEF Attribute
    <3>2. ports'[i] = PortsFor(GroupPids(i))
      BY <3>1 DEF Inv, KernelInv, TypeInv
    <3>3. p \in GroupPids(i)
      BY <2>1, <2>3, InGroup
    <3>4. CASE Unreadable(q)
      BY <1>1, <3>4 DEF Shown, Unreadable
    <3>5. CASE <<q, p>> \in found
      BY <3>2, <3>3, <3>5 DEF PortsFor, Shown
    <3> QED
      BY <2>3, <2>5, <3>4, <3>5 DEF Found
  <2> QED
    BY <2>4, <2>5
<1>5. HeldInv'
  <2> SUFFICES ASSUME NEW j \in Ids, NEW p \in Pids, NEW q \in Ports, <<j, p, q>> \in past.held
               PROVE  HeldAt(j, p, q)'
    BY <1>1 DEF HeldInv
  <2>1. HeldAt(j, p, q)
    BY <1>1, HeldNow
  <2>2. j \in kept => j \in todo' \/ Shown(j, q)'
    BY <1>1, <1>3, <1>4, <2>1 DEF HeldAt
  <2>3. /\ p \in table /\ (Lists => scan = "none" \/ Found(p, q))
        /\ j \in kept => row[j].status = "running" /\ row[j].pid # NoPid
    BY <1>1, <2>1 DEF HeldAt
  <2> QED
    BY <1>1, <2>2, <2>3 DEF HeldAt, Found, Unreadable, Lists
<1> QED
  BY <1>1, <1>2, <1>5, ReadsOnly

LEMMA AttributedComplete ==
    ASSUME Inv, Complete, Attributed
    PROVE  Complete'
<1>1. /\ pc = "rows" /\ pc' = "done" /\ todo = {} /\ Quiet
      /\ UNCHANGED <<op, past, row, kept, ports, unavailable, missing>>
  BY DEF Attributed, Quiet, answerVars, scanVars
<1>2. SteadyInv'
  BY <1>1 DEF Complete, SteadyInv, Lists
<1>3. HeldInv'
  BY <1>1 DEF Complete, HeldInv, HeldAt, Shown, Unreadable
<1> QED
  BY <1>1, <1>2, <1>3, ReadsOnly

LEMMA GroupComplete ==
    ASSUME Inv, Complete, Group
    PROVE  Complete'
<1>1. /\ pc = "group" /\ pc' = (IF op = "ports" THEN "sockets" ELSE "done") /\ Quiet
      /\ members' = UNION {GroupPids(i) : i \in kept} /\ UNCHANGED <<op, past, row, kept>> /\ ~Lists
  BY DEF Group, Quiet, Inv, RequestInv, StageInv
<1>2. op \in {"ports", "resources"}
  BY <1>1 DEF Complete, SinceInv, Lists
<1>3. SteadyInv'
  BY <1>1 DEF SteadyInv, Lists
<1>4. HeldInv'
  <2> SUFFICES ASSUME NEW i \in Ids, NEW p \in Pids, NEW q \in Ports, <<i, p, q>> \in past.held, i \in kept
               PROVE  row[i].status = "running" /\ row[i].pid # NoPid /\ p \in members'
    BY <1>1, <1>2 DEF HeldInv, HeldAt, Lists
  <2>1. origin[p] = i /\ HeldAt(i, p, q)
    BY <1>1, HeldNow
  <2>2. p \in table /\ row[i].status = "running" /\ row[i].pid # NoPid
    BY <1>1, <2>1 DEF HeldAt
  <2>3. p \in GroupPids(i)
    BY <2>1, <2>2, InGroup
  <2> QED
    BY <1>1, <2>2, <2>3
<1> QED
  BY <1>1, <1>3, <1>4, ReadsOnly

LEMMA MatchComplete ==
    ASSUME Inv, Complete, Match
    PROVE  Complete'
<1>1. /\ pc = "match" /\ pc' = "done" /\ Quiet /\ UNCHANGED <<op, past, row, kept, missing>> /\ ~Lists
      /\ ports' = [i \in Ids |-> IF i \in kept THEN PortsFor(members) ELSE {}]
      /\ unavailable' = IF scan = "none" THEN kept ELSE {}
  BY DEF Match, Quiet, scanVars, Inv, RequestInv, StageInv
<1>2. SteadyInv'
  BY <1>1 DEF SteadyInv, Lists
<1>3. HeldInv'
  <2> SUFFICES ASSUME NEW i \in Ids, NEW p \in Pids, NEW q \in Ports, <<i, p, q>> \in past.held, i \in kept
               PROVE  row[i].status = "running" /\ row[i].pid # NoPid /\ Shown(i, q)'
    BY <1>1 DEF HeldInv, HeldAt
  <2>1. HeldAt(i, p, q)
    BY <1>1, HeldNow
  <2>2. /\ p \in members /\ row[i].status = "running" /\ row[i].pid # NoPid
        /\ scan = "none" \/ Found(p, q)
    BY <1>1, <2>1 DEF HeldAt
  <2>3. Shown(i, q)'
    BY <1>1, <2>2 DEF Found, Shown, PortsFor, Unreadable
  <2> QED
    BY <2>2, <2>3
<1> QED
  BY <1>1, <1>2, <1>3, ReadsOnly

LEMMA AnswerComplete ==
    ASSUME Complete, Answer
    PROVE  Complete'
  BY DEF Answer, NoRequest, lifecycleVars, kernelVars, Complete, AliveInv, SinceInv, SteadyInv, HeldInv

LEMMA RebootComplete ==
    ASSUME Complete, Reboot
    PROVE  Complete'
  BY DEF Reboot, LoseAll, NoRequest, kernelVars, Complete, AliveInv, SinceInv, SteadyInv, HeldInv

LEMMA StutterComplete ==
    ASSUME Complete, UNCHANGED vars
    PROVE  Complete'
<1>1. UNCHANGED <<status, name, known, alive, pidOf, origin, listens, past, op, pc, row, todo, table,
                  open, walk, found, scan, missing, kept, members, ports, unavailable>>
  BY DEF vars, lifecycleVars, kernelVars, requestVars, scanVars, answerVars
<1>2. AliveInv' /\ SinceInv' /\ SteadyInv'
  BY <1>1 DEF Complete, AliveInv, SinceInv, SteadyInv, Lists
<1>3. \A i \in Ids, p \in Pids, q \in Ports : HeldAt(i, p, q)' <=> HeldAt(i, p, q)
  BY <1>1 DEF HeldAt, Found, Shown, Unreadable, Lists
<1> QED
  BY <1>1, <1>2, <1>3 DEF Complete, HeldInv

-----------------------------------------------------------------------------
(* The theorems *)

\* What has been true since a request came, its scans have seen so far.
THEOREM Completeness == Spec => []Complete
<1>1. Inv /\ Complete /\ [Next]_vars => Complete'
  <2> SUFFICES ASSUME Inv, Complete, [Next]_vars PROVE Complete'
    OBVIOUS
  <2>1. CASE RequestStep
    BY <2>1, RequestComplete, QueryListComplete, QueryOneComplete, CheckTokenComplete,
       TokensCheckedComplete, ScanStepComplete, ReadTableComplete, AttributeComplete,
       AttributedComplete, GroupComplete, MatchComplete, AnswerComplete DEF RequestStep
  <2> QED
    BY <2>1, WorldMovesOn, RebootComplete, StutterComplete DEF Next
<1> QED
  BY InitiallyComplete, Invariance, <1>1, PTL DEF Spec

\* `pz ps` lists every process that ran, with its pid recorded and its row
\* running or lost, from the request on.
THEOREM NoneIsPassedOver == Spec => []ListsTheLiving
<1>1. Complete => ListsTheLiving
  BY DEF Complete, SteadyInv, ListsTheLiving
<1> QED
  BY Completeness, <1>1, PTL

\* A port that a process of a running row listens on from the request on is
\* shown, whichever source could be read.
THEOREM EveryPortIsShown == Spec => []ShowsWhatListens
<1>1. Complete => ShowsWhatListens
  <2> SUFFICES ASSUME Complete, pc = "done", op # "resources", NEW h \in past.held,
                      h[1] \in kept \ unavailable, ~Unreadable(h[3])
               PROVE  h[3] \in ports[h[1]]
    BY DEF ShowsWhatListens
  <2>1. h[1] \in Ids /\ h[2] \in Pids /\ h[3] \in Ports /\ h = <<h[1], h[2], h[3]>>
    BY DEF Complete, SinceInv
  <2>2. HeldAt(h[1], h[2], h[3])
    BY <2>1 DEF Complete, HeldInv
  <2> QED
    BY <2>2 DEF HeldAt, Shown
<1> QED
  BY Completeness, <1>1, PTL
=============================================================================
