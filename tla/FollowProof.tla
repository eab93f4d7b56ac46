----------------------------- MODULE FollowProof -----------------------------
(***************************************************************************)
(* `pz logs -f`: the loop's types, what following one process prints and   *)
(* the lines that following everything prints, for any number of           *)
(* processes, any output and any interleaving.                             *)
(***************************************************************************)
EXTENDS Follow, OutputLogProof

\* What the history variables remember has happened.
MarkInv ==
    /\ mark \in [tail : Tails, read : Nat \cup {Null}, exit : [Procs -> Nat \cup {Null}]]
    /\ mark.read # Null => mark.read <= Len(log)
    /\ \A p \in Procs : mark.exit[p] # Null => mark.exit[p] <= Len(log)
    /\ \A p \in Procs : p <= started => (running[p] <=> mark.exit[p] = Null)
    /\ \A p \in Procs : p > started => ~running[p] /\ mark.exit[p] = Null

\* The loop: which process its requests are about, and when it counts.
LoopInv ==
    /\ after <= Len(log)
    /\ pc \in {"reresolve", "show", "done"} => mode # "all" /\ mark.read # Null
    /\ pc = "show" => id \in Procs
    /\ pc # "done" => quiet <= 2
    /\ mark.read = Null => tail = mark.tail /\ quiet = 0
    /\ mark.read # Null => tail = Null

Entries == [id : Nat, proc : Procs, data : Seq(Bytes)]

Ascending(chunks) == \A j, k \in DOMAIN chunks : j < k => chunks[j].id < chunks[k].id

\* What a client that follows the first process has printed, and where its
\* cursor is.
OutInv ==
    /\ out \in Seq(Entries)
    /\ Ascending(out)
    /\ \A k \in DOMAIN out : out[k].id <= after
    /\ mark.read = Null => out = <<>> /\ after = 0
    /\ mark.tail = 0 => \A k \in DOMAIN out : out[k].id > mark.read
    /\ mark.read # Null =>
          \A i \in DOMAIN log : log[i].proc = 1 =>
              /\ i <= mark.read => i <= after
              /\ i <= after /\ Due(i) => Printed(i)

\* The cursor has passed everything of the first process up to its exit.
PastExit ==
    \A i \in DOMAIN log : log[i].proc = 1 /\ i <= mark.exit[1] => i <= after

\* A quiet poll is counted only after the exit, so that from the next read
\* on the cursor is past it.
QuietInv ==
    /\ quiet >= 1 => ~running[1]
    /\ quiet >= 2 \/ (quiet = 1 /\ pc \in {"reresolve", "show"}) => PastExit
    /\ pc = "done" => quiet >= 3

OneInv == mode = "id" => (pc # "resolve" => id = 1) /\ OutInv /\ QuietInv

Inv == TypeOK /\ MarkInv /\ LoopInv /\ OneInv

-----------------------------------------------------------------------------
\* The generations are numbered from 1.
LEMMA Generations ==
    /\ Cardinality(Procs) \in Nat \ {0}
    /\ 1 \in Procs /\ Cardinality(Procs) \in Procs
    /\ \A p \in Procs : p \in Nat /\ p >= 1
    /\ Null \notin Procs
<1>1. Cardinality(Procs) \in Nat \ {0}
  BY FollowAssumption, FS_CardinalityType, FS_EmptySet
<1>2. \A p : p \in Procs <=> p \in 1 .. Cardinality(Procs)
  BY FollowAssumption
<1> QED
  BY <1>1, <1>2, OutputAssumption

LEMMA Initially == Init => Inv
<1> SUFFICES ASSUME Init PROVE Inv
  OBVIOUS
<1>1. /\ log = <<>> /\ Len(log) = 0 /\ DOMAIN log = {} /\ log \in Seq(Chunks)
      /\ out = <<>> /\ DOMAIN out = {} /\ out \in Seq(Entries)
  BY EmptySeq DEF Init
<1>2. started \in Procs
  BY Generations DEF Init
<1>3. TypeOK
  <2>1. LogTypeOK /\ after \in 0 .. Len(log) /\ quiet \in 0 .. 3
    BY <1>1, OutputAssumption DEF Init, LogTypeOK
  <2>2. running \in [Procs -> BOOLEAN] /\ piped \in [Procs -> BOOLEAN]
    BY DEF Init
  <2> QED
    BY <1>2, <2>1, <2>2 DEF Init, TypeOK, Pcs
<1>4. MarkInv
  <2>1. /\ mark \in [tail : Tails, read : Nat \cup {Null}, exit : [Procs -> Nat \cup {Null}]]
        /\ mark.read = Null /\ \A p \in Procs : mark.exit[p] = Null
    BY DEF Init
  <2>2. \A p \in Procs : running[p] = (p <= started)
    BY DEF Init
  <2>3. \A p \in Procs : p > started => ~(p <= started)
    BY <1>2, Generations
  <2> QED
    BY <2>1, <2>2, <2>3 DEF MarkInv
<1>5. LoopInv
  BY <1>1 DEF Init, LoopInv
<1>6. OneInv
  BY <1>1 DEF Init, OneInv, OutInv, QuietInv, Ascending
<1> QED
  BY <1>3, <1>4, <1>5, <1>6 DEF Inv

-----------------------------------------------------------------------------
(* The processes *)

LEMMA WriteKeeps == ASSUME Inv, NEW p \in Procs, Write(p) PROVE Inv'
<1> USE DEF Inv
<1>1. /\ LogTypeOK' /\ Len(log') = Len(log) + 1 /\ DOMAIN log' = DOMAIN log \cup {Len(log) + 1}
      /\ \A i \in DOMAIN log : log'[i] = log[i]
  BY Inserted DEF Write, TypeOK
<1>2. Len(log) \in Nat /\ DOMAIN log = 1 .. Len(log)
  BY Stored DEF TypeOK, LogTypeOK
<1>3. UNCHANGED <<started, running, piped, pc, mode, id, tail, after, printedAny, quiet, pending, out, mark>>
  BY DEF Write, printVars
<1>4. TypeOK'
  <2>1. after \in 0 .. Len(log')
    BY <1>1, <1>2 DEF TypeOK
  <2> QED
    BY <2>1, <1>1, <1>3 DEF TypeOK
<1>5. MarkInv'
  BY <1>1, <1>2, <1>3 DEF MarkInv
<1>6. after \in Nat /\ mark.read \in Nat \cup {Null} /\ mark.exit \in [Procs -> Nat \cup {Null}]
  BY DEF TypeOK, MarkInv
<1>7. LoopInv'
  BY <1>1, <1>2, <1>3, <1>6 DEF LoopInv
<1>8. OneInv'
  <2> SUFFICES ASSUME mode = "id" PROVE (pc # "resolve" => id = 1) /\ OutInv' /\ QuietInv'
    BY <1>3 DEF OneInv
  <2>1. /\ after <= Len(log) /\ 1 \in Procs
        /\ mark.read # Null => mark.read <= Len(log)
        /\ quiet >= 1 => mark.exit[1] \in Nat /\ mark.exit[1] <= Len(log)
    <3>1. started \in Nat /\ 1 <= started
      BY Generations DEF TypeOK
    <3>2. quiet >= 1 => mark.exit[1] # Null
      BY <3>1, Generations DEF OneInv, QuietInv, MarkInv
    <3> QED
      BY <3>2, <1>6, Generations DEF LoopInv, MarkInv
  \* The new row is behind the cursor, the first read and the exit.
  <2>2. OutInv'
    <3>1. ASSUME mark.read # Null, NEW i \in DOMAIN log', log'[i].proc = 1
          PROVE  /\ i <= mark.read => i <= after
                 /\ i <= after /\ Due(i) => Printed(i)
      <4>1. CASE i \in DOMAIN log
        BY <3>1, <4>1, <1>1 DEF OneInv, OutInv
      <4>2. CASE i = Len(log) + 1
        BY <4>2, <3>1, <2>1, <1>2, <1>6
      <4> QED
        BY <4>1, <4>2, <1>1
    <3>2. \A i : Printed(i)' = Printed(i)
      BY <1>3 DEF Printed
    <3> QED
      BY <3>1, <3>2, <1>3 DEF OneInv, OutInv, Ascending, Due
  <2>3. quiet >= 1 /\ PastExit => PastExit'
    <3> SUFFICES ASSUME quiet >= 1, PastExit, NEW i \in DOMAIN log', log'[i].proc = 1, i <= mark.exit[1]
                 PROVE  i <= after
      BY <1>3 DEF PastExit
    <3>1. i # Len(log) + 1
      BY <2>1, <1>2
    <3> QED
      BY <3>1, <1>1 DEF PastExit
  <2>4. QuietInv'
    BY <2>3, <1>3 DEF OneInv, QuietInv, TypeOK
  <2> QED
    BY <2>2, <2>4 DEF OneInv
<1> QED
  BY <1>4, <1>5, <1>7, <1>8

LEMMA ExitKeeps == ASSUME Inv, NEW p \in Procs, Exit(p) PROVE Inv'
<1> USE DEF Inv
<1>1. /\ running[p] /\ running' = [running EXCEPT ![p] = FALSE]
      /\ mark' = [mark EXCEPT !.exit[p] = Len(log)]
      /\ UNCHANGED <<log, started, piped, pc, mode, id, tail, after, printedAny, quiet, pending, out>>
  BY DEF Exit, printVars
<1>2. Len(log) \in Nat
  BY Stored DEF TypeOK, LogTypeOK
<1>3. /\ mark' \in [tail : Tails, read : Nat \cup {Null}, exit : [Procs -> Nat \cup {Null}]]
      /\ mark'.read = mark.read /\ mark'.tail = mark.tail
      /\ \A r \in Procs : mark'.exit[r] = IF r = p THEN Len(log) ELSE mark.exit[r]
  BY <1>1, <1>2 DEF MarkInv
<1>4. /\ running' \in [Procs -> BOOLEAN]
      /\ \A r \in Procs : running'[r] = IF r = p THEN FALSE ELSE running[r]
  BY <1>1 DEF TypeOK
<1>5. TypeOK'
  BY <1>1, <1>4 DEF TypeOK, LogTypeOK
<1>6. MarkInv'
  BY <1>1, <1>2, <1>3, <1>4, OutputAssumption DEF MarkInv
<1>7. LoopInv'
  BY <1>1, <1>3 DEF LoopInv
<1>8. OneInv'
  <2> SUFFICES ASSUME mode = "id" PROVE (pc # "resolve" => id = 1) /\ OutInv' /\ QuietInv'
    BY <1>1 DEF OneInv
  <2>1. OutInv'
    BY <1>1, <1>3 DEF OneInv, OutInv, Ascending, Printed, Due
  \* It cannot have been counted before.
  <2>2. quiet >= 1 => p # 1
    BY <1>1 DEF OneInv, QuietInv
  <2>3. quiet >= 1 /\ PastExit => PastExit'
    BY <2>2, <1>1, <1>3, Generations DEF PastExit
  <2>4. QuietInv'
    BY <2>2, <2>3, <1>1, <1>4, Generations DEF OneInv, QuietInv, TypeOK
  <2> QED
    BY <2>1, <2>4 DEF OneInv
<1> QED
  BY <1>5, <1>6, <1>7, <1>8

LEMMA PipeKeeps == ASSUME Inv, NEW p \in Procs, PipeCloses(p) PROVE Inv'
<1> USE DEF Inv
<1>1. /\ piped' = [piped EXCEPT ![p] = FALSE]
      /\ UNCHANGED <<log, started, running, pc, mode, id, tail, after, printedAny, quiet, pending, out, mark>>
  BY DEF PipeCloses, printVars
<1>2. TypeOK'
  BY <1>1 DEF TypeOK, LogTypeOK
<1>3. MarkInv'
  BY <1>1 DEF MarkInv
<1>4. LoopInv'
  BY <1>1 DEF LoopInv
<1>5. OneInv'
  BY <1>1 DEF OneInv, OutInv, QuietInv, PastExit, Ascending, Printed, Due
<1> QED
  BY <1>2, <1>3, <1>4, <1>5

LEMMA GenerationKeeps == ASSUME Inv, NextGeneration PROVE Inv'
<1> USE DEF Inv
<1>1. /\ started + 1 \in Procs /\ started' = started + 1
      /\ running' = [running EXCEPT ![started + 1] = TRUE]
      /\ piped' = [piped EXCEPT ![started + 1] = TRUE]
      /\ UNCHANGED <<log, pc, mode, id, tail, after, printedAny, quiet, pending, out, mark>>
  BY DEF NextGeneration, printVars
<1>2. started \in Nat /\ started >= 1
  BY Generations DEF TypeOK
<1>3. TypeOK'
  BY <1>1 DEF TypeOK, LogTypeOK
<1>4. MarkInv'
  <2>1. mark.exit[started + 1] = Null
    BY <1>1, <1>2 DEF MarkInv
  <2>2. \A p \in Procs : running'[p] = IF p = started + 1 THEN TRUE ELSE running[p]
    BY <1>1 DEF TypeOK
  <2>3. ASSUME NEW p \in Procs
        PROVE  /\ p <= started' => (running'[p] <=> mark'.exit[p] = Null)
               /\ p > started' => ~running'[p] /\ mark'.exit[p] = Null
    <3>1. p \in Nat
      BY Generations
    <3>2. CASE p = started + 1
      <4>1. running'[p] /\ mark'.exit[p] = Null
        BY <3>2, <2>1, <2>2, <1>1
      <4>2. ~(p > started')
        BY <3>2, <1>1, <1>2
      <4> QED
        BY <4>1, <4>2
    <3>3. CASE p # started + 1
      <4>1. (p <= started' <=> p <= started) /\ (p > started' => p > started)
        BY <3>1, <3>3, <1>1, <1>2
      <4> QED
        BY <4>1, <3>3, <2>2, <1>1 DEF MarkInv
    <3> QED
      BY <3>2, <3>3
  <2> QED
    BY <2>3, <1>1 DEF MarkInv
<1>5. LoopInv'
  BY <1>1 DEF LoopInv
<1>6. running'[1] = running[1]
  <2>1. started + 1 # 1
    BY <1>2
  <2> QED
    BY <2>1, <1>1, Generations DEF TypeOK
<1>7. OneInv'
  BY <1>1, <1>6 DEF OneInv, OutInv, QuietInv, PastExit, Ascending, Printed, Due
<1> QED
  BY <1>3, <1>4, <1>5, <1>7

-----------------------------------------------------------------------------
(* The loop *)

LEMMA ResolvedOf == Inv => /\ Resolved \in Procs \cup {Null}
                           /\ mode # "all" => Resolved \in Procs
                           /\ mode = "id" => Resolved = 1
  BY Generations, FollowAssumption DEF Inv, TypeOK, Resolved

LEMMA ResolveKeeps == ASSUME Inv, Resolve("resolve", "read") \/ Resolve("reresolve", "show")
                      PROVE  Inv'
<1> USE DEF Inv
<1>1. /\ id' = Resolved
      /\ UNCHANGED <<log, started, running, piped, mode, tail, after, printedAny, quiet, pending, out, mark>>
      /\ \/ pc = "resolve" /\ pc' = "read"
         \/ pc = "reresolve" /\ pc' = "show"
  BY DEF Resolve, procVars, printVars
<1>2. TypeOK'
  <2>1. id' \in Procs \cup {Null} /\ pc' \in Pcs
    BY <1>1, ResolvedOf DEF Pcs
  <2> QED
    BY <2>1, <1>1 DEF TypeOK, LogTypeOK
<1>3. MarkInv'
  BY <1>1 DEF MarkInv
<1>4. LoopInv'
  BY <1>1, ResolvedOf DEF LoopInv
<1>5. OneInv'
  BY <1>1, ResolvedOf DEF OneInv, OutInv, QuietInv, PastExit, Ascending, Printed, Due
<1> QED
  BY <1>2, <1>3, <1>4, <1>5

\* A chunk list behind another.
LEMMA OneAfterAnother ==
    ASSUME NEW a \in Seq(Entries), NEW b \in Seq(Entries), Ascending(a), Ascending(b),
           \A j \in DOMAIN a : \A k \in DOMAIN b : a[j].id < b[k].id
    PROVE  /\ a \o b \in Seq(Entries) /\ Ascending(a \o b)
           /\ \A k \in DOMAIN (a \o b) : \/ \E j \in DOMAIN a : (a \o b)[k] = a[j]
                                         \/ \E j \in DOMAIN b : (a \o b)[k] = b[j]
           /\ \A j \in DOMAIN a : \E k \in DOMAIN (a \o b) : (a \o b)[k] = a[j]
           /\ \A j \in DOMAIN b : \E k \in DOMAIN (a \o b) : (a \o b)[k] = b[j]
<1> DEFINE c == a \o b
           m == Len(a)
           n == Len(b)
<1>1. /\ m \in Nat /\ n \in Nat /\ DOMAIN a = 1 .. m /\ DOMAIN b = 1 .. n
      /\ c \in Seq(Entries) /\ Len(c) = m + n /\ DOMAIN c = 1 .. m + n
      /\ \A k \in 1 .. m + n : c[k] = IF k <= m THEN a[k] ELSE b[k - m]
  <2>1. c \in Seq(Entries) /\ Len(c) = m + n /\ m \in Nat /\ n \in Nat
    BY ConcatProperties, LenProperties
  <2> QED
    BY <2>1, ConcatProperties, LenProperties
<1> HIDE DEF c, m, n
<1>2. \A k \in 1 .. m : k \in 1 .. m + n /\ c[k] = a[k]
  BY <1>1
<1>3. \A k \in 1 .. n : k + m \in 1 .. m + n /\ c[k + m] = b[k]
  BY <1>1
<1>4. \A k \in 1 .. m + n : k \in 1 .. m \/ \E j \in 1 .. n : k = j + m
  <2> TAKE k \in 1 .. m + n
  <2>1. CASE k <= m
    BY <2>1, <1>1
  <2>2. CASE k > m
    <3>1. k - m \in 1 .. n /\ k = (k - m) + m
      BY <2>2, <1>1
    <3> QED
      BY <3>1
  <2> QED
    BY <2>1, <2>2, <1>1
<1>5. Ascending(c)
  <2> SUFFICES ASSUME NEW j \in 1 .. m + n, NEW k \in 1 .. m + n, j < k PROVE c[j].id < c[k].id
    BY <1>1 DEF Ascending
  <2>1. CASE k <= m
    <3>1. j \in 1 .. m /\ k \in 1 .. m
      BY <2>1, <1>1
    <3> QED
      BY <3>1, <1>1, <1>2 DEF Ascending
  <2>2. CASE k > m /\ j <= m
    <3>1. j \in 1 .. m /\ k - m \in 1 .. n /\ c[j] = a[j] /\ c[k] = b[k - m]
      BY <2>2, <1>1
    <3> QED
      BY <3>1, <1>1
  <2>3. CASE j > m
    <3>1. j - m \in 1 .. n /\ k - m \in 1 .. n /\ j - m < k - m /\ c[j] = b[j - m] /\ c[k] = b[k - m]
      BY <2>3, <1>1
    <3> QED
      BY <3>1, <1>1 DEF Ascending
  <2> QED
    BY <2>1, <2>2, <2>3, <1>1
<1>6. \A k \in DOMAIN c : (\E j \in DOMAIN a : c[k] = a[j]) \/ (\E j \in DOMAIN b : c[k] = b[j])
  <2> TAKE k \in DOMAIN c
  <2>1. CASE k \in 1 .. m
    BY <2>1, <1>1, <1>2
  <2>2. ASSUME NEW j \in 1 .. n, k = j + m PROVE \E i \in DOMAIN b : c[k] = b[i]
    BY <2>2, <1>1, <1>3
  <2> QED
    BY <2>1, <2>2, <1>1, <1>4
<1>7. \A j \in DOMAIN a : \E k \in DOMAIN c : c[k] = a[j]
  BY <1>1, <1>2
<1>8. \A j \in DOMAIN b : \E k \in DOMAIN c : c[k] = b[j]
  BY <1>1, <1>3
<1> QED
  BY <1>1, <1>5, <1>6, <1>7, <1>8 DEF c

\* What one read does, whatever is followed.
LEMMA ReadOf ==
    ASSUME Inv, ReadLogs
    PROVE  LET answer == ReadOutput(Query, after, tail)
           IN  /\ pc = "read" /\ pc' = IF mode = "all" THEN "resolve" ELSE "reresolve"
               /\ after' = answer.resume /\ tail' = Null
               /\ after' \in Nat /\ after' <= Len(log)
               /\ \A i \in Selected(Query, 0) : i <= after'
               /\ mark' = IF mark.read = Null THEN [mark EXCEPT !.read = Len(log)] ELSE mark
               /\ printedAny' \in BOOLEAN
               /\ mode = "id" => out' = out \o answer.chunks
               /\ UNCHANGED <<log, started, running, piped, mode, id, quiet>>
               /\ log \in Seq(Chunks) /\ Len(log) \in Nat /\ Len(log) <= MaxChunks
               /\ after \in Nat /\ after <= Len(log) /\ tail \in Nat \cup {Null}
<1> DEFINE answer == ReadOutput(Query, after, tail)
<1>1. /\ log \in Seq(Chunks) /\ Len(log) \in Nat /\ Len(log) <= MaxChunks
      /\ after \in Nat /\ after <= Len(log) /\ tail \in Nat \cup {Null}
  BY Stored, FollowAssumption, OutputAssumption DEF Inv, TypeOK, LogTypeOK, LoopInv
<1>2. /\ answer.resume \in Nat /\ answer.resume <= Len(log)
      /\ \A i \in Selected(Query, 0) : i <= answer.resume
  BY <1>1, ReadsAll
<1> HIDE DEF answer
<1>3. /\ pc = "read" /\ pc' = IF mode = "all" THEN "resolve" ELSE "reresolve"
      /\ after' = answer.resume /\ tail' = Null
      /\ mark' = IF mark.read = Null THEN [mark EXCEPT !.read = Len(log)] ELSE mark
      /\ printedAny' = (answer.chunks # <<>>)
      /\ mode = "id" => out' = out \o answer.chunks
      /\ UNCHANGED <<log, started, running, piped, mode, id, quiet>>
  BY DEF ReadLogs, procVars, PrintRaw, answer
<1> QED
  BY <1>1, <1>2, <1>3 DEF answer

\* The rows a follower of the first process is sent.
LEMMA OneQuery ==
    ASSUME Inv, id = 1, NEW from \in Nat
    PROVE  \A i : i \in Selected(Query, from) <=> i \in DOMAIN log /\ i > from /\ log[i].proc = 1
<1>1. Null # 1
  BY OutputAssumption
<1> QED
  BY <1>1 DEF Selected, Query, Matches

LEMMA ReadKeepsOut == ASSUME Inv, ReadLogs, mode = "id" PROVE OutInv'
<1> DEFINE answer == ReadOutput(Query, after, tail)
           chunks == answer.chunks
           R == Selected(Query, 0)
<1>1. /\ id = 1 /\ OutInv /\ log' = log
      /\ mark.read # Null => tail = Null
      /\ mark.read = Null => tail = mark.tail
  BY ReadOf DEF Inv, OneInv, LoopInv
<1>2. /\ after \in Nat /\ after' \in Nat /\ after' <= Len(log) /\ Len(log) \in Nat
      /\ \A i \in R : i <= after'
      /\ DOMAIN log = 1 .. Len(log)
      /\ out' = out \o chunks /\ after' = answer.resume
      /\ mark.read \in Nat \cup {Null}
  BY ReadOf, Stored DEF Inv, MarkInv
<1>3. /\ chunks \in Seq([id : R, proc : Procs, data : Seq(Bytes)])
      /\ Ascending(chunks)
      /\ \A k \in DOMAIN chunks : chunks[k].id <= after'
      /\ tail = Null =>
           /\ after <= after'
           /\ \A k \in DOMAIN chunks : chunks[k].id > after
           /\ \A i \in Selected(Query, after) : \E k \in DOMAIN chunks : chunks[k].id = i
      /\ tail = 0 => chunks = <<>>
  <2>1. /\ chunks \in Seq([id : R, proc : Procs, data : Seq(Bytes)])
        /\ \A j, k \in DOMAIN chunks : j < k => chunks[j].id < chunks[k].id
        /\ \A k \in DOMAIN chunks : chunks[k].id <= answer.resume
        /\ tail = Null =>
             /\ after <= answer.resume
             /\ \A k \in DOMAIN chunks : chunks[k].id > after
             /\ \A i \in Selected(Query, after) : \E k \in DOMAIN chunks : chunks[k].id = i
        /\ tail = 0 => chunks = <<>>
    BY ReadOf, ReadSends
  <2> HIDE DEF chunks, answer
  <2> QED
    BY <2>1, <1>2 DEF Ascending
<1>4. mark'.tail = mark.tail /\ mark'.read = IF mark.read = Null THEN Len(log) ELSE mark.read
  <2>1. mark' = IF mark.read = Null THEN [mark EXCEPT !.read = Len(log)] ELSE mark
    BY ReadOf
  <2> QED
    BY <2>1 DEF Inv, MarkInv
<1> HIDE DEF answer, chunks
<1>5. /\ \A i : i \in R <=> i \in DOMAIN log /\ i > 0 /\ log[i].proc = 1
      /\ \A i : i \in Selected(Query, after) <=> i \in DOMAIN log /\ i > after /\ log[i].proc = 1
  BY <1>1, <1>2, OneQuery
<1> HIDE DEF R
<1>6. /\ \A k \in DOMAIN chunks : chunks[k].id \in R
      /\ chunks \in Seq(Entries)
  <2> DEFINE S == [id : R, proc : Procs, data : Seq(Bytes)]
             l == Len(chunks)
  <2>1. chunks \in Seq(S)
    BY <1>3
  <2>2. S \subseteq Entries
    BY <1>2, <1>5 DEF Entries
  <2> HIDE DEF S
  <2>3. l \in Nat /\ DOMAIN chunks = 1 .. l /\ chunks \in [1 .. l -> S]
    BY <2>1, LenProperties
  <2>4. \A k \in DOMAIN chunks : chunks[k] \in S
    BY <2>3
  <2>5. chunks \in [1 .. l -> Entries] /\ l \in Nat
    BY <2>2, <2>3
  <2> HIDE DEF l
  <2>6. chunks \in Seq(Entries)
    BY <2>5
  <2> QED
    BY <2>4, <2>6 DEF S
<1>7. /\ out \in Seq(Entries) /\ Ascending(out)
      /\ \A k \in DOMAIN out : out[k].id \in Nat /\ out[k].id <= after
      /\ \A k \in DOMAIN chunks : chunks[k].id \in Nat
  <2>1. /\ out \in Seq(Entries) /\ Ascending(out)
        /\ \A k \in DOMAIN out : out[k].id <= after
    BY <1>1 DEF OutInv
  <2>2. \A k \in DOMAIN out : out[k] \in Entries
    BY <2>1, ElementOfSeq, LenProperties
  <2>3. \A k \in DOMAIN out : out[k].id \in Nat
    BY <2>2 DEF Entries
  <2>4. \A i \in R : i \in Nat
    BY <1>2, <1>5
  <2>5. \A k \in DOMAIN chunks : chunks[k].id \in Nat
    BY <2>4, <1>6
  <2> QED
    BY <2>1, <2>3, <2>5
\* Before the first read nothing is printed, after it no read goes back.
<1>8. \A j \in DOMAIN out : \A k \in DOMAIN chunks : out[j].id < chunks[k].id
  <2> SUFFICES ASSUME NEW j \in DOMAIN out, NEW k \in DOMAIN chunks
               PROVE  out[j].id < chunks[k].id
    OBVIOUS
  <2>1. mark.read # Null
    BY <1>1 DEF OutInv
  <2>2. tail = Null
    BY <2>1, <1>1
  <2> QED
    BY <2>2, <1>2, <1>3, <1>7
<1>9. /\ out' \in Seq(Entries) /\ Ascending(out')
      /\ \A k \in DOMAIN out' : (\E j \in DOMAIN out : out'[k] = out[j]) \/ (\E j \in DOMAIN chunks : out'[k] = chunks[j])
      /\ \A j \in DOMAIN out : \E k \in DOMAIN out' : out'[k] = out[j]
      /\ \A j \in DOMAIN chunks : \E k \in DOMAIN out' : out'[k] = chunks[j]
  <2> DEFINE both == out \o chunks
  <2>1. /\ both \in Seq(Entries) /\ Ascending(both)
        /\ \A k \in DOMAIN both : (\E j \in DOMAIN out : both[k] = out[j]) \/ (\E j \in DOMAIN chunks : both[k] = chunks[j])
    BY <1>3, <1>6, <1>7, <1>8, OneAfterAnother
  <2>2. \A j \in DOMAIN out : \E k \in DOMAIN both : both[k] = out[j]
    BY <1>3, <1>6, <1>7, <1>8, OneAfterAnother
  <2>3. \A j \in DOMAIN chunks : \E k \in DOMAIN both : both[k] = chunks[j]
    BY <1>3, <1>6, <1>7, <1>8, OneAfterAnother
  <2>4. out' = both
    BY <1>2
  <2> HIDE DEF both
  <2> QED
    BY <2>1, <2>2, <2>3, <2>4
<1>10. \A k \in DOMAIN out' : out'[k].id <= after'
  <2> TAKE k \in DOMAIN out'
  <2>1. ASSUME NEW j \in DOMAIN out, out'[k] = out[j] PROVE out'[k].id <= after'
    <3>1. tail = Null /\ after <= after'
      BY <1>1, <1>3 DEF OutInv
    <3> QED
      BY <2>1, <3>1, <1>2, <1>7
  <2> QED
    BY <2>1, <1>3, <1>9
<1>11. ASSUME mark'.tail = 0, NEW k \in DOMAIN out' PROVE out'[k].id > mark'.read
  <2>1. mark.tail = 0 /\ mark.read # Null
    <3> SUFFICES ASSUME mark.read = Null PROVE FALSE
      BY <1>4, <1>11
    <3>1. tail = 0 /\ chunks = <<>> /\ out = <<>>
      BY <1>1, <1>3, <1>4, <1>11 DEF OutInv
    <3>2. DOMAIN out = {} /\ DOMAIN chunks = {}
      BY <3>1
    <3> QED
      BY <3>2, <1>9
  <2>2. mark'.read = mark.read /\ mark.read \in Nat
    BY <2>1, <1>2, <1>4
  <2>3. ASSUME NEW j \in DOMAIN out, out'[k] = out[j] PROVE out'[k].id > mark'.read
    BY <2>1, <2>2, <2>3, <1>1 DEF OutInv
  <2>4. ASSUME NEW j \in DOMAIN chunks, out'[k] = chunks[j] PROVE out'[k].id > mark'.read
    <3> DEFINE i == chunks[j].id
    <3>1. i \in DOMAIN log /\ i \in Nat /\ log[i].proc = 1 /\ i > after
      <4>1. i \in R /\ tail = Null
        BY <2>1, <1>1, <1>6
      <4>2. i \in DOMAIN log /\ i \in 1 .. Len(log) /\ log[i].proc = 1
        BY <4>1, <1>2, <1>5
      <4>3. i > after
        BY <4>1, <1>3
      <4> QED
        BY <4>2, <4>3
    <3>2. ~(i <= mark.read)
      BY <3>1, <2>1, <1>1, <1>2 DEF OutInv
    <3> QED
      BY <3>1, <3>2, <2>2, <2>4
  <2> QED
    BY <2>3, <2>4, <1>9
<1>12. ASSUME NEW i \in DOMAIN log', log'[i].proc = 1
       PROVE  /\ i <= mark'.read => i <= after'
              /\ Due(i)' => Printed(i)'
  <2>1. i \in DOMAIN log /\ log[i].proc = 1 /\ i \in Nat /\ i > 0 /\ i <= Len(log)
    BY <1>12, <1>1, <1>2
  <2>2. i <= after'
    BY <2>1, <1>2, <1>5
  <2>3. ASSUME Due(i)' PROVE Printed(i)'
    <3>1. Due(i) /\ tail = Null
      <4>1. CASE mark.read = Null
        <5>1. mark'.read = Len(log) /\ ~(Len(log) < i)
          BY <4>1, <2>1, <1>2, <1>4
        <5> QED
          BY <4>1, <5>1, <2>3, <1>1, <1>4 DEF Due
      <4>2. CASE mark.read # Null
        BY <4>2, <2>3, <1>1, <1>4 DEF Due
      <4> QED
        BY <4>1, <4>2
    <3>2. CASE i <= after
      <4>1. mark.read # Null
        BY <2>1, <3>2, <1>1 DEF OutInv
      <4>2. PICK j \in DOMAIN out : out[j].id = i
        BY <2>1, <3>1, <3>2, <4>1, <1>1 DEF OutInv, Printed
      <4> QED
        BY <4>2, <1>9 DEF Printed
    <3>3. CASE i > after
      <4>1. PICK j \in DOMAIN chunks : chunks[j].id = i
        BY <2>1, <3>1, <3>3, <1>3, <1>5
      <4> QED
        BY <4>1, <1>9 DEF Printed
    <3> QED
      BY <3>2, <3>3, <2>1, <1>2
  <2> QED
    BY <2>2, <2>3
<1>13. mark'.read # Null
  BY <1>2, <1>4, OutputAssumption
<1> QED
  BY <1>9, <1>10, <1>11, <1>12, <1>13 DEF OutInv

LEMMA ReadKeeps == ASSUME Inv, ReadLogs PROVE Inv'
<1> USE DEF Inv
<1>1. /\ pc = "read" /\ pc' = IF mode = "all" THEN "resolve" ELSE "reresolve"
      /\ tail' = Null /\ after' \in Nat /\ after' <= Len(log)
      /\ \A i \in Selected(Query, 0) : i <= after'
      /\ printedAny' \in BOOLEAN
      /\ UNCHANGED <<log, started, running, piped, mode, id, quiet>>
      /\ log \in Seq(Chunks) /\ Len(log) \in Nat /\ Len(log) <= MaxChunks
  BY ReadOf
<1>2. /\ mark' \in [tail : Tails, read : Nat \cup {Null}, exit : [Procs -> Nat \cup {Null}]]
      /\ mark'.exit = mark.exit /\ mark'.tail = mark.tail
      /\ mark'.read = IF mark.read = Null THEN Len(log) ELSE mark.read
  <2>1. mark' = IF mark.read = Null THEN [mark EXCEPT !.read = Len(log)] ELSE mark
    BY ReadOf
  <2> QED
    BY <2>1, <1>1 DEF MarkInv
<1>3. mark'.read # Null
  BY <1>1, <1>2, OutputAssumption
<1>4. TypeOK'
  <2>1. after' \in 0 .. Len(log')
    BY <1>1
  <2> QED
    BY <2>1, <1>1 DEF TypeOK, LogTypeOK, Pcs
<1>5. MarkInv'
  <2>1. mark'.read <= Len(log)
    BY <1>1, <1>2 DEF MarkInv
  <2> QED
    BY <2>1, <1>1, <1>2 DEF MarkInv
<1>6. LoopInv'
  BY <1>1, <1>2, <1>3 DEF LoopInv
<1>7. OneInv'
  <2> SUFFICES ASSUME mode = "id" PROVE id = 1 /\ OutInv' /\ QuietInv'
    BY <1>1 DEF OneInv
  <2>1. id = 1
    BY <1>1 DEF OneInv
  <2>2. PastExit'
    <3>1. \A i \in DOMAIN log : log[i].proc = 1 => i \in Selected(Query, 0)
      BY <2>1, <1>1, OneQuery, Stored
    <3> QED
      BY <3>1, <1>1 DEF PastExit
  <2>3. QuietInv'
    BY <2>2, <1>1 DEF OneInv, QuietInv
  <2> QED
    BY <2>1, <2>3, ReadKeepsOut
<1> QED
  BY <1>4, <1>5, <1>6, <1>7

LEMMA ShowKeeps == ASSUME Inv, ShowProcess PROVE Inv'
<1> USE DEF Inv
<1> DEFINE loud == running[id] \/ printedAny
<1>1. /\ pc = "show"
      /\ quiet' = IF loud THEN 0 ELSE quiet + 1
      /\ pc' = IF ~running[id] /\ quiet' >= 3 THEN "done" ELSE "resolve"
      /\ UNCHANGED <<log, started, running, piped, mode, id, tail, after, printedAny, pending, out, mark>>
  BY DEF ShowProcess, procVars, printVars
<1>2. running[id] => loud
  OBVIOUS
<1> HIDE DEF loud
<1>3. quiet \in Nat /\ quiet <= 2
  BY <1>1 DEF TypeOK, LoopInv
<1>4. quiet' \in 0 .. 3 /\ (loud => quiet' = 0) /\ (~loud => quiet' = quiet + 1)
  BY <1>1, <1>3
<1>5. /\ pc' = "done" => quiet' >= 3
      /\ pc' # "done" => quiet' <= 2 /\ pc' = "resolve"
  <2>1. CASE quiet' >= 3
    <3>1. ~running[id]
      BY <2>1, <1>2, <1>4
    <3> QED
      BY <3>1, <2>1, <1>1
  <2>2. CASE ~(quiet' >= 3)
    <3>1. pc' = "resolve" /\ quiet' <= 2
      BY <2>2, <1>1, <1>4
    <3> QED
      BY <3>1
  <2> QED
    BY <2>1, <2>2
<1>6. TypeOK'
  BY <1>1, <1>4 DEF TypeOK, LogTypeOK, Pcs
<1>7. MarkInv'
  BY <1>1 DEF MarkInv
<1>8. LoopInv'
  BY <1>1, <1>5 DEF LoopInv
<1>9. OneInv'
  <2> SUFFICES ASSUME mode = "id" PROVE (pc' # "resolve" => id = 1) /\ OutInv' /\ QuietInv'
    BY <1>1 DEF OneInv
  <2>1. id = 1
    BY <1>1 DEF OneInv
  <2>2. quiet' >= 1 => ~running'[1]
    <3>1. quiet' >= 1 => ~loud
      BY <1>4
    <3> QED
      BY <3>1, <2>1, <1>1, <1>2
  \* The second quiet poll in a row comes after a read that came after the exit.
  <2>3. quiet' >= 2 => PastExit'
    <3>1. quiet' >= 2 => quiet >= 1
      BY <1>3, <1>4
    <3>2. quiet >= 1 => quiet >= 2 \/ quiet = 1
      BY <1>3
    <3>3. quiet >= 1 => PastExit
      BY <3>2, <1>1 DEF OneInv, QuietInv
    <3> QED
      BY <3>1, <3>3, <1>1 DEF PastExit
  <2>4. QuietInv'
    <3>1. pc' \notin {"reresolve", "show"}
      BY <1>1
    <3> QED
      BY <3>1, <2>2, <2>3, <1>5 DEF QuietInv
  <2>5. OutInv'
    BY <1>1 DEF OneInv, OutInv, Ascending, Printed, Due
  <2> QED
    BY <2>1, <2>4, <2>5
<1> QED
  BY <1>6, <1>7, <1>8, <1>9

LEMMA StutterKeeps == ASSUME Inv, UNCHANGED vars PROVE Inv'
<1> USE DEF Inv, vars, procVars, printVars
<1>1. TypeOK'
  BY DEF TypeOK, LogTypeOK
<1>2. MarkInv'
  BY DEF MarkInv
<1>3. LoopInv'
  BY DEF LoopInv
<1>4. OneInv'
  BY DEF OneInv, OutInv, QuietInv, PastExit, Ascending, Printed, Due
<1> QED
  BY <1>1, <1>2, <1>3, <1>4

-----------------------------------------------------------------------------
(* What follows *)

LEMMA Invariance == Spec => []Inv
<1>1. Inv /\ [Next]_vars => Inv'
  BY WriteKeeps, ExitKeeps, PipeKeeps, GenerationKeeps, ResolveKeeps, ReadKeeps, ShowKeeps,
     StutterKeeps DEF Next, FollowStep
<1> QED
  BY Initially, <1>1, PTL DEF Spec

\* Every variable of the loop stays in its range, with an id or a name and
\* with --all: the cursor within the log, at most three quiet polls.
THEOREM FollowTyped == Spec => []TypeOK
<1>1. Inv => TypeOK
  BY DEF Inv
<1> QED
  BY Invariance, <1>1, PTL

\* Following one process prints all of its output that the cursor has passed
\* and --tail does not leave out, once and in order, and with --tail 0 nothing
\* else.
THEOREM FollowPrintsInOrder == Spec => []PrintsInOrder
<1>1. Inv => PrintsInOrder
  <2> SUFFICES ASSUME OutInv, Inv, mode = "id" PROVE PrintsInOrder
    BY DEF Inv, OneInv, PrintsInOrder
  <2>1. \A k \in 2 .. Len(out) : out[k - 1].id < out[k].id
    <3> TAKE k \in 2 .. Len(out)
    <3>1. DOMAIN out = 1 .. Len(out) /\ Len(out) \in Nat
      BY LenProperties DEF OutInv
    <3>2. k - 1 \in DOMAIN out /\ k \in DOMAIN out /\ k - 1 < k
      BY <3>1
    <3> QED
      BY <3>2 DEF OutInv, Ascending
  <2> QED
    BY <2>1 DEF OutInv, PrintsInOrder
<1> QED
  BY Invariance, <1>1, PTL

\* Following one process stops only after its exit was recorded and all that
\* was captured before it, but for what --tail leaves out, is printed.
THEOREM FollowEndsComplete == Spec => []EndsComplete
<1>1. Inv => EndsComplete
  <2> SUFFICES ASSUME Inv, mode = "id", pc = "done" PROVE EndsComplete
    BY DEF EndsComplete
  <2>1. id = 1 /\ OutInv /\ QuietInv /\ mark.read # Null /\ quiet >= 3
    BY DEF Inv, OneInv, LoopInv, QuietInv
  <2>2. quiet \in Nat /\ started \in Nat /\ 1 <= started /\ 1 \in Procs
    BY Generations DEF Inv, TypeOK
  <2>3. PastExit /\ ~running[1]
    <3>1. quiet >= 1 /\ quiet >= 2
      BY <2>1, <2>2
    <3> QED
      BY <3>1, <2>1 DEF QuietInv
  <2>4. mark.exit[1] # Null
    BY <2>2, <2>3 DEF Inv, MarkInv
  <2> QED
    BY <2>1, <2>3, <2>4 DEF EndsComplete, OutInv, PastExit
<1> QED
  BY Invariance, <1>1, PTL

-----------------------------------------------------------------------------
(* The lines of a buffer *)

\* Where the lines of a text end: the k-th, 0 before the first.
End(text, k) == IF k = 0 THEN 0 ELSE InOrder(Newlines(text))[k]

LEMMA Ends ==
    ASSUME NEW text \in Seq(Bytes)
    PROVE  LET m == Cardinality(Newlines(text))
           IN  /\ m \in Nat
               /\ \A k \in 0 .. m : End(text, k) \in Nat /\ End(text, k) <= Len(text)
               /\ \A k \in 1 .. m :
                    /\ k - 1 \in 0 .. m /\ k \in 0 .. m
                    /\ End(text, k - 1) < End(text, k) /\ End(text, k) \in Newlines(text)
                    /\ \A j \in Newlines(text) :
                          End(text, k - 1) < j /\ j <= End(text, k) => j = End(text, k)
               /\ \A j \in Newlines(text) : j <= End(text, m)
               /\ Max(Newlines(text) \cup {0}) = End(text, m)
<1> DEFINE N == Newlines(text)
           m == Cardinality(N)
           E == InOrder(N)
           l == Len(text)
           e(k) == End(text, k)
<1>1. l \in Nat /\ N \in SUBSET Nat /\ IsFiniteSet(N) /\ m \in Nat /\ \A j \in N : j \in 1 .. l
  BY NewlinesOf DEF Newlines
<1>2. /\ E \in [1 .. m -> N] /\ DOMAIN E = 1 .. m
      /\ \A i, j \in 1 .. m : i < j => E[i] < E[j]
      /\ \A j \in N : \E k \in 1 .. m : E[k] = j
  BY <1>1, Ordered
<1>3. e(0) = 0 /\ \A k \in 1 .. m : e(k) = E[k] /\ E[k] \in N /\ E[k] \in 1 .. l
  BY <1>1, <1>2 DEF End
<1> HIDE DEF N, m, E, l, e
<1>4. \A k \in 0 .. m : e(k) \in Nat /\ e(k) <= l
  <2> TAKE k \in 0 .. m
  <2>1. k = 0 \/ k \in 1 .. m
    BY <1>1
  <2> QED
    BY <2>1, <1>1, <1>3
<1>5. ASSUME NEW k \in 1 .. m
      PROVE  /\ k - 1 \in 0 .. m /\ k \in 0 .. m
             /\ e(k - 1) < e(k) /\ e(k) \in N
             /\ \A j \in N : e(k - 1) < j /\ j <= e(k) => j = e(k)
  <2>1. k - 1 \in 0 .. m /\ k \in 0 .. m /\ (k - 1 = 0 \/ k - 1 \in 1 .. m) /\ k - 1 < k
    BY <1>1
  <2>2. e(k) = E[k] /\ e(k) \in N /\ e(k) \in Nat /\ e(k) > 0
    BY <1>1, <1>3
  <2>3. e(k - 1) < e(k)
    <3>1. k - 1 \in 1 .. m => e(k - 1) = E[k - 1] /\ E[k - 1] < E[k]
      BY <2>1, <1>2, <1>3
    <3> QED
      BY <2>1, <2>2, <1>3, <3>1
  <2>4. ASSUME NEW j \in N, e(k - 1) < j, j <= e(k) PROVE j = e(k)
    <3>1. PICK n \in 1 .. m : E[n] = j
      BY <1>2
    <3>2. n \in Nat /\ k \in Nat /\ E[n] \in Nat /\ E[k] \in Nat
      BY <1>1, <1>3
    <3>3. ~(k < n)
      <4>1. k < n => E[k] < E[n]
        BY <1>2
      <4> QED
        BY <2>2, <2>4, <3>1, <3>2, <4>1
    <3>4. ~(n < k)
      <4> SUFFICES ASSUME n < k PROVE FALSE
        OBVIOUS
      <4>1. n = k - 1 \/ n < k - 1
        BY <3>2
      <4>2. k - 1 \in 1 .. m
        BY <1>1, <3>2
      <4>3. e(k - 1) = E[k - 1] /\ E[k - 1] \in Nat
        BY <4>2, <1>1, <1>3
      <4>4. n < k - 1 => E[n] < E[k - 1]
        BY <4>2, <1>2
      <4> QED
        BY <2>4, <3>1, <3>2, <4>1, <4>3, <4>4
    <3> QED
      BY <2>2, <3>1, <3>2, <3>3, <3>4
  <2> QED
    BY <2>1, <2>2, <2>3, <2>4
<1>6. \A j \in N : j <= e(m)
  <2> TAKE j \in N
  <2>1. PICK k \in 1 .. m : E[k] = j
    BY <1>2
  <2>2. m \in 1 .. m /\ k \in Nat /\ (k = m \/ k < m)
    BY <1>1
  <2>3. E[k] \in Nat /\ E[m] \in Nat /\ e(m) = E[m] /\ (k < m => E[k] < E[m])
    BY <2>2, <1>1, <1>2, <1>3
  <2> QED
    BY <2>1, <2>2, <2>3
<1>7. Max(N \cup {0}) = e(m)
  <2> DEFINE S == N \cup {0}
             x == Max(S)
  <2>1. S \in SUBSET Nat /\ IsFiniteSet(S) /\ S # {}
    BY <1>1, FS_AddElement
  <2>2. x \in S /\ \A j \in S : j <= x
    BY <2>1, Extremes
  <2>3. e(m) \in S
    <3>1. m = 0 \/ m \in 1 .. m
      BY <1>1
    <3> QED
      BY <3>1, <1>3
  <2>4. \A j \in S : j <= e(m) /\ j \in Nat
    BY <2>1, <1>1, <1>4, <1>6
  <2> HIDE DEF S, x
  <2>5. x <= e(m) /\ e(m) <= x /\ x \in Nat /\ e(m) \in Nat
    BY <2>2, <2>3, <2>4
  <2>6. x = e(m)
    BY <2>5
  <2> QED
    BY <2>6 DEF x, S
<1> QED
  BY <1>1, <1>4, <1>5, <1>6, <1>7 DEF N, m, l, e

\* Cutting a buffer at its line ends: lines, each with its end and no other,
\* a rest without one, and together they are the buffer.
LEMMA LinesOf ==
    ASSUME NEW text \in Seq(Bytes)
    PROVE  /\ Lines(text) \in Seq(Seq(Bytes)) /\ Rest(text) \in Seq(Bytes)
           /\ \A k \in 1 .. Len(Lines(text)) : Newlines(Lines(text)[k]) = {Len(Lines(text)[k])}
           /\ Newlines(Rest(text)) = {}
           /\ FlattenSeq(Lines(text)) \o Rest(text) = text
<1> DEFINE N == Newlines(text)
           m == Cardinality(N)
           l == Len(text)
           e(k) == End(text, k)
           L == Lines(text)
           R == Rest(text)
<1>1. /\ m \in Nat /\ l \in Nat
      /\ \A k \in 0 .. m : e(k) \in Nat /\ e(k) <= l
      /\ \A k \in 1 .. m :
            /\ k - 1 \in 0 .. m /\ k \in 0 .. m
            /\ e(k - 1) < e(k) /\ e(k) \in N
            /\ \A j \in N : e(k - 1) < j /\ j <= e(k) => j = e(k)
      /\ \A j \in N : j <= e(m)
      /\ Max(N \cup {0}) = e(m)
  BY Ends, LenProperties
<1>2. \A j : j \in N <=> j \in 1 .. l /\ text[j] = NL
  BY LenProperties DEF Newlines
<1>3. e(0) = 0
  BY DEF End
<1>4. L = [k \in 1 .. m |-> SubSeq(text, e(k - 1) + 1, e(k))]
  <2> DEFINE E == InOrder(N)
             f == [k \in 1 .. m |-> SubSeq(text, e(k - 1) + 1, e(k))]
  <2>1. DOMAIN E = 1 .. m
    BY DEF InOrder
  <2>2. L = [k \in DOMAIN E |-> SubSeq(text, IF k = 1 THEN 1 ELSE E[k - 1] + 1, E[k])]
    BY DEF Lines
  <2>3. \A k \in 1 .. m : e(k) = E[k] /\ e(k - 1) + 1 = IF k = 1 THEN 1 ELSE E[k - 1] + 1
    BY <1>1 DEF End
  <2> HIDE DEF e, L, E, m
  <2> QED
    BY <2>1, <2>2, <2>3
<1>5. R = SubSeq(text, e(m) + 1, l)
  BY <1>1 DEF Rest
<1> HIDE DEF N, m, l, e, L, R
<1>6. ASSUME NEW k \in 1 .. m
      PROVE  L[k] \in Seq(Bytes) /\ Newlines(L[k]) = {Len(L[k])}
  <2> DEFINE a == e(k - 1)
             b == e(k)
             d == L[k]
  <2>1. /\ a \in Nat /\ b \in Nat /\ a < b /\ b <= l /\ b \in N
        /\ \A j \in N : a < j /\ j <= b => j = b
    BY <1>1
  <2>2. d = SubSeq(text, a + 1, b)
    BY <1>4
  <2> HIDE DEF a, b, d
  <2>3. /\ d \in Seq(Bytes) /\ Len(d) = b - a /\ DOMAIN d = 1 .. b - a
        /\ \A i \in 1 .. b - a : d[i] = text[a + i]
    BY <2>1, <2>2, PieceOf DEF l
  <2>4. \A i \in 1 .. b - a : a + i \in 1 .. l /\ a < a + i /\ a + i <= b /\ (a + i = b <=> i = b - a)
    BY <2>1, <1>1
  <2>5. \A i : i \in Newlines(d) <=> i \in 1 .. b - a /\ a + i \in N
    BY <2>3, <2>4, <1>2 DEF Newlines
  <2>6. b - a \in 1 .. b - a /\ a + (b - a) = b
    BY <2>1
  <2>7. \A i : i \in Newlines(d) <=> i = b - a
    BY <2>1, <2>4, <2>5, <2>6
  <2> QED
    BY <2>3, <2>7 DEF d
<1>7. R \in Seq(Bytes) /\ Newlines(R) = {}
  <2> DEFINE a == e(m)
  <2>1. a \in Nat /\ a <= l /\ \A j \in N : j <= a
    <3>1. m \in 0 .. m
      BY <1>1
    <3> QED
      BY <3>1, <1>1
  <2> HIDE DEF a
  <2>2. /\ R \in Seq(Bytes) /\ Len(R) = l - a /\ DOMAIN R = 1 .. l - a
        /\ \A i \in 1 .. l - a : R[i] = text[a + i]
    BY <2>1, <1>1, <1>5, PieceOf DEF l, a
  <2>3. \A i \in 1 .. l - a : a + i \in 1 .. l /\ ~(a + i <= a)
    BY <2>1, <1>1
  <2> QED
    BY <2>1, <2>2, <2>3, <1>2 DEF Newlines
<1>8. L \in Seq(Seq(Bytes)) /\ Len(L) = m
  <2>1. L \in [1 .. m -> Seq(Bytes)]
    BY <1>4, <1>6
  <2>2. L \in Seq(Seq(Bytes))
    BY <1>1, <2>1, SeqDef
  <2> QED
    BY <1>1, <2>1, <2>2, LenProperties
<1>9. FlattenSeq(L) = SubSeq(text, 1, e(m))
  <2> DEFINE p(k) == SubSeq(L, 1, k)
             Good == {k \in 0 .. m : FlattenSeq(p(k)) = SubSeq(text, 1, e(k))}
  <2>1. 0 \in Good
    <3>1. p(0) = <<>> /\ SubSeq(text, 1, 0) = <<>>
      BY SubSeqEmpty
    <3>2. FlattenSeq(<<>>) = <<>>
      <4>1. <<>> \in Seq(Seq(Bytes)) /\ \A i \in 1 .. Len(<<>>) : <<>>[i] = <<>>
        BY EmptySeq
      <4> QED
        BY <4>1, FlattenNothing
    <3>3. FlattenSeq(p(0)) = SubSeq(text, 1, e(0))
      BY <3>1, <3>2, <1>3
    <3>4. 0 \in 0 .. m
      BY <1>1
    <3> QED
      BY <3>3, <3>4
  <2>2. ASSUME NEW k \in 0 .. m, k \in Good /\ k < m PROVE k + 1 \in Good
    <3> DEFINE n == k + 1
               a == e(k)
               b == e(n)
               x == L[n]
    <3>1. n \in 1 .. m /\ n \in 0 .. m /\ n - 1 = k /\ k \in Nat
      BY <1>1, <2>2
    <3>2. p(k) \in Seq(Seq(Bytes)) /\ x \in Seq(Bytes) /\ p(n) = Append(p(k), x)
      BY <3>1, <2>2, <1>8, Prefix
    <3>3. FlattenSeq(p(n)) = FlattenSeq(p(k)) \o x
      BY <3>2, FlattenAppend
    <3>4. x = SubSeq(text, a + 1, b)
      <4> HIDE DEF n
      <4> QED
        BY <3>1, <1>4
    <3>5. FlattenSeq(p(k)) = SubSeq(text, 1, a)
      BY <2>2
    <3>6. a \in Nat /\ b \in Nat /\ a < b /\ b <= l /\ l \in Nat
      <4> HIDE DEF n
      <4>1. e(n - 1) < e(n)
        BY <3>1, <1>1
      <4> QED
        BY <3>1, <4>1, <1>1
    <3> HIDE DEF a, b, n, x, p
    <3>7. SubSeq(text, 1, a) \o SubSeq(text, a + 1, b) = SubSeq(text, 1, b)
      <4>1. 1 \in 1 .. l + 1 /\ a \in 1 - 1 .. l /\ b \in a .. l
        BY <3>6
      <4> QED
        BY <4>1, ConcatAdjacentSubSeq DEF l
    <3>8. FlattenSeq(p(n)) = SubSeq(text, 1, b)
      BY <3>3, <3>4, <3>5, <3>7
    <3> QED
      BY <3>1, <3>8 DEF n, b
  <2> HIDE DEF Good
  <2>3. \A k \in 0 .. m : k \in Good
    BY <2>1, <2>2, <1>1, Upwards
  <2>4. FlattenSeq(p(m)) = SubSeq(text, 1, e(m))
    <3>1. m \in 0 .. m
      BY <1>1
    <3> QED
      BY <2>3, <3>1 DEF Good
  <2>5. p(m) = L
    BY <1>8, SubSeqFull
  <2> QED
    BY <2>4, <2>5
<1>10. FlattenSeq(L) \o R = text
  <2> DEFINE a == e(m)
  <2>1. a \in Nat /\ a <= l
    <3>1. m \in 0 .. m
      BY <1>1
    <3> QED
      BY <3>1, <1>1
  <2> HIDE DEF a
  <2>2. SubSeq(text, 1, a) \o SubSeq(text, a + 1, l) = SubSeq(text, 1, l)
    <3>1. 1 \in 1 .. l + 1 /\ a \in 1 - 1 .. l /\ l \in a .. l
      BY <2>1, <1>1
    <3> QED
      BY <3>1, ConcatAdjacentSubSeq DEF l
  <2>3. SubSeq(text, 1, l) = text
    BY SubSeqFull DEF l
  <2> QED
    BY <2>2, <2>3, <1>5, <1>9 DEF a
<1> QED
  BY <1>6, <1>7, <1>8, <1>10 DEF L, R

-----------------------------------------------------------------------------
(* The output in lists of chunks *)

\* What is printed with labels.
Labels == [proc : Procs, data : Seq(Bytes)]

Own(chunks, p) == [k \in DOMAIN chunks |-> IF chunks[k].proc = p THEN chunks[k].data ELSE <<>>]

LEMMA OwnOf ==
    ASSUME NEW S, \A c \in S : c.data \in Seq(Bytes), NEW s \in Seq(S), NEW p
    PROVE  /\ Own(s, p) \in Seq(Seq(Bytes)) /\ Len(Own(s, p)) = Len(s)
           /\ \A k \in 1 .. Len(s) : Own(s, p)[k] = IF s[k].proc = p THEN s[k].data ELSE <<>>
           /\ OutputOf(s, p) = FlattenSeq(Own(s, p))
<1> DEFINE n == Len(s)
           o == Own(s, p)
<1>1. n \in Nat /\ DOMAIN s = 1 .. n
  BY LenProperties
<1>2. \A k \in 1 .. n : s[k].data \in Seq(Bytes)
  BY ElementOfSeq
<1>3. o = [k \in 1 .. n |-> IF s[k].proc = p THEN s[k].data ELSE <<>>]
  BY <1>1 DEF Own
<1> HIDE DEF n, o
<1>4. o \in [1 .. n -> Seq(Bytes)]
  BY <1>2, <1>3, EmptySeq
<1>5. o \in Seq(Seq(Bytes))
  BY <1>1, <1>4, SeqDef
<1>6. Len(o) = n
  BY <1>1, <1>4, <1>5, LenProperties
<1> QED
  BY <1>3, <1>5, <1>6 DEF n, o, OutputOf, Own

\* The output in two lists of chunks.
LEMMA OutputConcat ==
    ASSUME NEW S, \A c \in S : c.data \in Seq(Bytes), NEW s \in Seq(S), NEW t \in Seq(S), NEW p
    PROVE  /\ OutputOf(s, p) \in Seq(Bytes)
           /\ OutputOf(s \o t, p) = OutputOf(s, p) \o OutputOf(t, p)
<1> DEFINE a == Own(s, p)
           b == Own(t, p)
           u == s \o t
           c == Own(u, p)
           m == Len(s)
           n == Len(t)
<1>1. /\ m \in Nat /\ n \in Nat /\ u \in Seq(S) /\ Len(u) = m + n
      /\ \A i \in 1 .. m + n : u[i] = IF i <= m THEN s[i] ELSE t[i - m]
  BY ConcatProperties, LenProperties
<1> HIDE DEF u
<1>2. /\ a \in Seq(Seq(Bytes)) /\ Len(a) = m
      /\ \A k \in 1 .. m : a[k] = IF s[k].proc = p THEN s[k].data ELSE <<>>
      /\ OutputOf(s, p) = FlattenSeq(a)
  BY OwnOf
<1>3. /\ b \in Seq(Seq(Bytes)) /\ Len(b) = n
      /\ \A k \in 1 .. n : b[k] = IF t[k].proc = p THEN t[k].data ELSE <<>>
      /\ OutputOf(t, p) = FlattenSeq(b)
  BY OwnOf
<1>4. /\ c \in Seq(Seq(Bytes)) /\ Len(c) = Len(u)
      /\ \A k \in 1 .. Len(u) : c[k] = IF u[k].proc = p THEN u[k].data ELSE <<>>
      /\ OutputOf(u, p) = FlattenSeq(c)
  BY <1>1, OwnOf
<1> HIDE DEF a, b, c, m, n
<1>5. /\ a \o b \in Seq(Seq(Bytes)) /\ Len(a \o b) = m + n
      /\ \A i \in 1 .. m + n : (a \o b)[i] = IF i <= m THEN a[i] ELSE b[i - m]
  BY <1>2, <1>3, ConcatProperties
<1>6. c = a \o b
  <2>1. ASSUME NEW i \in 1 .. m + n PROVE c[i] = (a \o b)[i]
    <3>1. CASE i <= m
      <4>1. i \in 1 .. m
        BY <1>1, <3>1
      <4> QED
        BY <3>1, <4>1, <1>1, <1>2, <1>4, <1>5
    <3>2. CASE ~(i <= m)
      <4> DEFINE k == i - m
      <4>1. k \in 1 .. n
        BY <1>1, <3>2
      <4>2. u[i] = t[k] /\ (a \o b)[i] = b[k]
        BY <3>2, <1>1, <1>5
      <4> HIDE DEF k
      <4>3. c[i] = IF t[k].proc = p THEN t[k].data ELSE <<>>
        BY <4>2, <1>1, <1>4
      <4> QED
        BY <4>1, <4>2, <4>3, <1>3
    <3> QED
      BY <3>1, <3>2
  <2> DEFINE d == a \o b
  <2>2. d \in Seq(Seq(Bytes)) /\ Len(c) = Len(d) /\ \A i \in 1 .. Len(c) : c[i] = d[i]
    BY <2>1, <1>1, <1>4, <1>5
  <2> HIDE DEF d
  <2>3. c = d
    BY <2>2, <1>4, SeqEqual
  <2> QED
    BY <2>3 DEF d
<1>7. FlattenSeq(a \o b) = FlattenSeq(a) \o FlattenSeq(b)
  BY <1>2, <1>3, FlattenConcat
<1>8. FlattenSeq(a) \in Seq(Bytes)
  BY <1>2, FlattenOf
<1> QED
  BY <1>2, <1>3, <1>4, <1>6, <1>7, <1>8 DEF u

\* One chunk more.
LEMMA OutputAppend ==
    ASSUME NEW S, \A c \in S : c.data \in Seq(Bytes), NEW s \in Seq(S), NEW c \in S, NEW p
    PROVE  OutputOf(Append(s, c), p) = OutputOf(s, p) \o IF c.proc = p THEN c.data ELSE <<>>
<1> DEFINE t == Append(s, c)
           n == Len(s)
           x == IF c.proc = p THEN c.data ELSE <<>>
           a == Own(s, p)
           b == Own(t, p)
<1>1. /\ t \in Seq(S) /\ Len(t) = n + 1 /\ n \in Nat
      /\ t[n + 1] = c /\ \A i \in 1 .. n : t[i] = s[i]
  BY AppendProperties, LenProperties
<1> HIDE DEF t
<1>2. x \in Seq(Bytes)
  BY EmptySeq
<1>3. /\ a \in Seq(Seq(Bytes)) /\ Len(a) = n
      /\ \A k \in 1 .. n : a[k] = IF s[k].proc = p THEN s[k].data ELSE <<>>
      /\ OutputOf(s, p) = FlattenSeq(a)
  BY OwnOf
<1>4. /\ b \in Seq(Seq(Bytes)) /\ Len(b) = Len(t)
      /\ \A k \in 1 .. Len(t) : b[k] = IF t[k].proc = p THEN t[k].data ELSE <<>>
      /\ OutputOf(t, p) = FlattenSeq(b)
  BY <1>1, OwnOf
<1>5. b = Append(a, x)
  <2>1. /\ Append(a, x) \in Seq(Seq(Bytes)) /\ Len(Append(a, x)) = n + 1
        /\ Append(a, x)[n + 1] = x /\ \A i \in 1 .. n : Append(a, x)[i] = a[i]
    <3> HIDE DEF a, x, n
    <3> QED
      BY <1>2, <1>3, AppendProperties
  <2>2. b[n + 1] = x
    <3>1. n + 1 \in 1 .. Len(t)
      BY <1>1
    <3> QED
      BY <3>1, <1>1, <1>4
  <2>3. \A i \in 1 .. n : b[i] = a[i]
    <3> TAKE i \in 1 .. n
    <3>1. i \in 1 .. Len(t)
      BY <1>1
    <3> QED
      BY <3>1, <1>1, <1>3, <1>4
  <2> HIDE DEF a, b, x, n
  <2>4. \A i \in 1 .. Len(b) : b[i] = Append(a, x)[i]
    <3> TAKE i \in 1 .. Len(b)
    <3>1. i \in 1 .. n \/ i = n + 1
      BY <1>1, <1>4
    <3> QED
      BY <3>1, <2>1, <2>2, <2>3
  <2> QED
    BY <2>1, <2>4, <1>1, <1>4, SeqEqual
<1> HIDE DEF a, b, x
<1>6. FlattenSeq(Append(a, x)) = FlattenSeq(a) \o x
  BY <1>2, <1>3, FlattenAppend
<1> QED
  BY <1>3, <1>4, <1>5, <1>6 DEF t, x

\* The output in the labelled lines of one process.
LEMMA LabelledOf ==
    ASSUME NEW r \in Procs, NEW lines \in Seq(Seq(Bytes))
    PROVE  LET ls == Labelled(r, lines)
           IN  /\ ls \in Seq(Labels) /\ Len(ls) = Len(lines)
               /\ \A k \in 1 .. Len(lines) : ls[k].data = lines[k]
               /\ \A p : OutputOf(ls, p) = IF p = r THEN FlattenSeq(lines) ELSE <<>>
<1> DEFINE ls == Labelled(r, lines)
           n == Len(lines)
<1>1. n \in Nat /\ DOMAIN lines = 1 .. n /\ \A k \in 1 .. n : lines[k] \in Seq(Bytes)
  BY LenProperties, ElementOfSeq
<1>2. ls = [k \in 1 .. n |-> [proc |-> r, data |-> lines[k]]]
  BY <1>1 DEF Labelled
<1> HIDE DEF ls, n
<1>3. ls \in [1 .. n -> Labels]
  BY <1>1, <1>2 DEF Labels
<1>4. ls \in Seq(Labels)
  BY <1>1, <1>3, SeqDef
<1>5. Len(ls) = n
  BY <1>1, <1>3, <1>4, LenProperties
<1>6. \A k \in 1 .. n : ls[k].data = lines[k] /\ ls[k].proc = r
  BY <1>2
<1>7. ASSUME NEW p PROVE OutputOf(ls, p) = IF p = r THEN FlattenSeq(lines) ELSE <<>>
  <2> DEFINE o == Own(ls, p)
  <2>0. \A c \in Labels : c.data \in Seq(Bytes)
    BY DEF Labels
  <2>1. /\ o \in Seq(Seq(Bytes)) /\ Len(o) = n
        /\ \A k \in 1 .. n : o[k] = IF ls[k].proc = p THEN ls[k].data ELSE <<>>
        /\ OutputOf(ls, p) = FlattenSeq(o)
    BY <2>0, <1>4, <1>5, OwnOf
  <2> HIDE DEF o
  <2>2. CASE p = r
    <3>1. \A k \in 1 .. Len(o) : o[k] = lines[k]
      BY <2>1, <2>2, <1>6
    <3>2. o = lines
      BY <3>1, <2>1, SeqEqual DEF n
    <3> QED
      BY <3>2, <2>1, <2>2
  <2>3. CASE p # r
    <3>1. \A k \in 1 .. Len(o) : o[k] = <<>>
      BY <2>1, <2>3, <1>6
    <3> QED
      BY <3>1, <2>1, <2>3, FlattenNothing
  <2> QED
    BY <2>2, <2>3
<1> QED
  BY <1>4, <1>5, <1>6, <1>7 DEF ls, n

\* What is printed is complete lines, and what is pending is none yet.
Cut(printer) ==
    /\ printer.pending \in [Procs -> Seq(Bytes)]
    /\ printer.out \in Seq(Labels)
    /\ \A p \in Procs : Newlines(printer.pending[p]) = {}
    /\ \A k \in 1 .. Len(printer.out) : Newlines(printer.out[k].data) = {Len(printer.out[k].data)}

\* Everything read of each process is printed or pending.
Complete(printer, rows) ==
    \A p \in Procs : OutputOf(printer.out, p) \o printer.pending[p] = OutputOf(rows, p)

\* A chunk through the buffer keeps it so.
LEMMA BufferedKeeps ==
    ASSUME NEW printer, Cut(printer), NEW c, c.proc \in Procs, c.data \in Seq(Bytes)
    PROVE  /\ Cut(Buffered(printer, c))
           /\ \A rows \in Seq(Chunks), row \in Chunks :
                Complete(printer, rows) /\ c.proc = row.proc /\ c.data = row.data
                    => Complete(Buffered(printer, c), Append(rows, row))
<1> DEFINE r == c.proc
           text == printer.pending[r] \o c.data
           lines == Lines(text)
           rest == Rest(text)
           more == Labelled(r, lines)
           new == Buffered(printer, c)
<1>1. /\ printer.pending \in [Procs -> Seq(Bytes)]
      /\ printer.out \in Seq(Labels)
      /\ \A p \in Procs : Newlines(printer.pending[p]) = {}
      /\ \A k \in 1 .. Len(printer.out) : Newlines(printer.out[k].data) = {Len(printer.out[k].data)}
  BY DEF Cut
<1>2. r \in Procs /\ c.data \in Seq(Bytes) /\ \A d \in Chunks : d.data \in Seq(Bytes)
  BY OutputAssumption DEF Chunks
<1>3. text \in Seq(Bytes) /\ printer.pending[r] \in Seq(Bytes)
  BY <1>1, <1>2, ConcatProperties
<1>4. /\ new.pending = [printer.pending EXCEPT ![r] = rest]
      /\ new.out = printer.out \o more
  BY DEF Buffered
<1> HIDE DEF text, new
<1>5. /\ lines \in Seq(Seq(Bytes)) /\ rest \in Seq(Bytes)
      /\ \A k \in 1 .. Len(lines) : Newlines(lines[k]) = {Len(lines[k])}
      /\ Newlines(rest) = {}
      /\ FlattenSeq(lines) \o rest = text
  BY <1>3, LinesOf
<1> HIDE DEF lines, rest
<1>6. /\ more \in Seq(Labels) /\ Len(more) = Len(lines)
      /\ \A k \in 1 .. Len(lines) : more[k].data = lines[k]
      /\ \A p : OutputOf(more, p) = IF p = r THEN FlattenSeq(lines) ELSE <<>>
  BY <1>2, <1>5, LabelledOf
<1> HIDE DEF more, r
<1>7. \A d \in Labels : d.data \in Seq(Bytes)
  BY DEF Labels
<1> DEFINE old == printer.out
           both == new.out
<1>0. old \in Seq(Labels) /\ both = old \o more
  BY <1>1, <1>4
<1> HIDE DEF old, both
<1>8. \A p : /\ OutputOf(old, p) \in Seq(Bytes)
             /\ OutputOf(both, p) = OutputOf(old, p) \o OutputOf(more, p)
  <2> TAKE p
  <2>1. old \in Seq(Labels) /\ more \in Seq(Labels)
    BY <1>0, <1>6
  <2>2. /\ OutputOf(old, p) \in Seq(Bytes)
        /\ OutputOf(old \o more, p) = OutputOf(old, p) \o OutputOf(more, p)
    BY ONLY <2>1, <1>7, OutputConcat
  <2> QED
    BY <2>2, <1>0
<1>10. new.pending \in [Procs -> Seq(Bytes)] /\ \A p \in Procs : Newlines(new.pending[p]) = {}
  BY <1>1, <1>2, <1>4, <1>5
<1>11. /\ both \in Seq(Labels)
       /\ \A k \in 1 .. Len(both) : Newlines(both[k].data) = {Len(both[k].data)}
  <2> DEFINE m == Len(old)
             n == Len(more)
  <2>1. /\ m \in Nat /\ n \in Nat /\ both \in Seq(Labels) /\ Len(both) = m + n
        /\ \A i \in 1 .. m + n : both[i] = IF i <= m THEN old[i] ELSE more[i - m]
    <3>1. m \in Nat /\ n \in Nat
      BY <1>0, <1>6, LenProperties
    <3>2. /\ old \o more \in Seq(Labels) /\ Len(old \o more) = m + n
          /\ \A i \in 1 .. m + n : (old \o more)[i] = IF i <= m THEN old[i] ELSE more[i - m]
      <4>1. old \in Seq(Labels) /\ more \in Seq(Labels)
        BY <1>0, <1>6
      <4> QED
        BY ONLY <4>1, ConcatProperties
    <3> QED
      BY <3>1, <3>2, <1>0
  <2>2. \A k \in 1 .. m : Newlines(old[k].data) = {Len(old[k].data)}
    BY <1>1 DEF old
  <2>3. \A k \in 1 .. n : Newlines(more[k].data) = {Len(more[k].data)}
    BY <1>5, <1>6
  <2> HIDE DEF m, n
  <2>4. ASSUME NEW k \in 1 .. m + n PROVE Newlines(both[k].data) = {Len(both[k].data)}
    <3>1. CASE k <= m
      <4>1. k \in 1 .. m
        BY <2>1, <3>1
      <4> QED
        BY <3>1, <4>1, <2>1, <2>2
    <3>2. CASE ~(k <= m)
      <4>1. k - m \in 1 .. n
        BY <2>1, <3>2
      <4> QED
        BY <3>2, <4>1, <2>1, <2>3
    <3> QED
      BY <3>1, <3>2
  <2> QED
    BY <2>1, <2>4
<1>12. ASSUME NEW rows \in Seq(Chunks), NEW row \in Chunks, Complete(printer, rows),
              c.proc = row.proc, c.data = row.data, NEW p \in Procs
       PROVE  OutputOf(both, p) \o new.pending[p] = OutputOf(Append(rows, row), p)
  <2> DEFINE A == OutputOf(old, p)
             P == printer.pending[p]
             D == c.data
             F == FlattenSeq(lines)
             W == OutputOf(rows, p)
  <2>0. /\ OutputOf(Append(rows, row), p) = W \o IF r = p THEN D ELSE <<>>
        /\ A \o P = W
    <3>1. OutputOf(Append(rows, row), p) = OutputOf(rows, p) \o IF row.proc = p THEN row.data ELSE <<>>
      BY <1>2, OutputAppend
    <3>2. r = row.proc /\ D = row.data
      BY <1>12 DEF r
    <3>3. OutputOf(printer.out, p) \o printer.pending[p] = OutputOf(rows, p)
      BY <1>12 DEF Complete
    <3> QED
      BY <3>1, <3>2, <3>3 DEF old
  <2>1. /\ A \in Seq(Bytes) /\ P \in Seq(Bytes) /\ D \in Seq(Bytes) /\ F \in Seq(Bytes)
        /\ A \o P = W /\ W \in Seq(Bytes)
    <3>1. A \in Seq(Bytes) /\ P \in Seq(Bytes) /\ D \in Seq(Bytes) /\ A \o P = W
      BY <1>1, <1>2, <1>8, <2>0
    <3>2. F \in Seq(Bytes)
      BY <1>5, FlattenOf
    <3> HIDE DEF A, P, D, W
    <3>3. W \in Seq(Bytes)
      BY <3>1, ConcatProperties
    <3> QED
      BY <3>1, <3>2, <3>3
  <2>2. CASE p = r
    <3>1. new.pending[p] = rest /\ OutputOf(both, p) = A \o F
      BY <2>2, <1>1, <1>4, <1>6, <1>8
    <3>2. F \o rest = P \o D
      BY <2>2, <1>5 DEF text
    <3>3. OutputOf(Append(rows, row), p) = W \o D
      BY <2>2, <2>0
    <3> HIDE DEF A, P, D, F, W
    <3>4. (A \o F) \o rest = (A \o P) \o D
      <4>1. /\ A \in Seq(Bytes) /\ P \in Seq(Bytes) /\ D \in Seq(Bytes) /\ F \in Seq(Bytes)
            /\ rest \in Seq(Bytes)
        BY <2>1, <1>5
      <4>2. Recut(A, F, rest, P, D)
        BY ONLY <4>1, RecutOf
      <4> QED
        BY ONLY <4>2, <3>2 DEF Recut
    <3> QED
      BY <3>1, <3>3, <3>4, <2>1
  <2>3. CASE p # r
    <3>1. new.pending[p] = P /\ OutputOf(both, p) = A \o <<>>
      BY <2>3, <1>1, <1>4, <1>6, <1>8
    <3>2. OutputOf(Append(rows, row), p) = W \o <<>>
      BY <2>3, <2>0
    <3> HIDE DEF A, P, W
    <3>3. A \o <<>> = A /\ W \o <<>> = W
      BY <2>1, ConcatEmptySeq
    <3> QED
      BY <3>1, <3>2, <3>3, <2>1
  <2> QED
    BY <2>2, <2>3
<1>13. Cut(new)
  BY <1>10, <1>11 DEF Cut, both
<1>14. ASSUME NEW rows \in Seq(Chunks), NEW row \in Chunks, Complete(printer, rows),
              c.proc = row.proc, c.data = row.data
       PROVE  Complete(new, Append(rows, row))
  BY <1>12, <1>14 DEF Complete, both
<1> QED
  BY <1>13, <1>14 DEF new

\* The printer after each of the chunks.
Prints(chunks, first, n, g) ==
    g = [k \in 0 .. n |-> IF k = 0 THEN first ELSE Buffered(g[k - 1], chunks[k])]

LEMMA PrintsTo == ASSUME NEW chunks, NEW first, NEW m \in Nat PROVE \E g : Prints(chunks, first, m, g)
<1> DEFINE Good == {n \in Nat : \E g : Prints(chunks, first, n, g)}
<1>1. 0 \in Good
  <2> DEFINE g == [k \in {0} |-> first]
  <2>1. 0 .. 0 = {0}
    OBVIOUS
  <2>2. g = [k \in 0 .. 0 |-> IF k = 0 THEN first ELSE Buffered(g[k - 1], chunks[k])]
    BY <2>1
  <2> QED
    BY <2>2 DEF Prints
<1>2. ASSUME NEW n \in 0 .. m, n \in Good PROVE n + 1 \in Good
  <2>1. PICK f : Prints(chunks, first, n, f)
    BY <1>2
  <2> DEFINE g == [k \in 0 .. n + 1 |-> IF k = 0 THEN first ELSE Buffered(f[k - 1], chunks[k])]
  <2>2. ASSUME NEW k \in 0 .. n PROVE g[k] = f[k]
    <3>1. k \in 0 .. n + 1
      BY <1>2
    <3>2. f = [j \in 0 .. n |-> IF j = 0 THEN first ELSE Buffered(f[j - 1], chunks[j])]
      BY <2>1 DEF Prints
    <3>3. f[k] = IF k = 0 THEN first ELSE Buffered(f[k - 1], chunks[k])
      BY <3>2
    <3> QED
      BY <3>1, <3>3
  <2>3. ASSUME NEW k \in 0 .. n + 1, k # 0 PROVE g[k - 1] = f[k - 1]
    <3>1. k - 1 \in 0 .. n
      BY <1>2, <2>3
    <3> QED
      BY <3>1, <2>2
  <2>4. g = [k \in 0 .. n + 1 |-> IF k = 0 THEN first ELSE Buffered(g[k - 1], chunks[k])]
    BY <2>3
  <2> HIDE DEF g
  <2>5. Prints(chunks, first, n + 1, g)
    BY <2>4 DEF Prints
  <2> QED
    BY <2>5, <1>2
<1> HIDE DEF Good
<1>3. m \in Good
  <2>1. \A i \in 0 .. m : i \in Good /\ i < m => i + 1 \in Good
    BY <1>2
  <2>2. \A i \in 0 .. m : i \in Good
    BY <1>1, <2>1, Upwards
  <2> QED
    BY <2>2
<1> QED
  BY <1>3 DEF Good

\* PrintPrefixed ends with the last of them.
LEMMA PrefixedOf ==
    ASSUME NEW chunks, Len(chunks) \in Nat, PrintPrefixed(chunks)
    PROVE  \E g : /\ Prints(chunks, [pending |-> pending, out |-> out], Len(chunks), g)
                  /\ pending' = g[Len(chunks)].pending
                  /\ out' = g[Len(chunks)].out
<1> DEFINE first == [pending |-> pending, out |-> out]
           g == CHOOSE g : Prints(chunks, first, Len(chunks), g)
<1>1. Prints(chunks, first, Len(chunks), g)
  BY PrintsTo
<1>2. pending' = g[Len(chunks)].pending /\ out' = g[Len(chunks)].out
  BY DEF PrintPrefixed, Prints
<1> QED
  BY <1>1, <1>2

-----------------------------------------------------------------------------
(* Following everything *)

\* Following everything: only lines are printed, and without --tail what was
\* read so far is printed or pending.
AllInv ==
    mode = "all" =>
        /\ pc # "resolve" => id = Null
        /\ Cut([pending |-> pending, out |-> out])
        /\ mark.tail = Null => Complete([pending |-> pending, out |-> out], SubSeq(log, 1, after))

\* A read passes every chunk through the buffers; without --tail it is sent
\* every row behind the cursor.
LEMMA ReadKeepsAll == ASSUME Inv, AllInv, ReadLogs PROVE AllInv'
<1> SUFFICES ASSUME mode = "all"
             PROVE  /\ pc' # "resolve" => id' = Null
                    /\ Cut([pending |-> pending', out |-> out'])
                    /\ mark'.tail = Null =>
                         Complete([pending |-> pending', out |-> out'], SubSeq(log', 1, after'))
  BY ReadOf DEF AllInv
<1> DEFINE a == ReadOutput(Query, after, tail)
           c == a.chunks
           m == Len(c)
           first == [pending |-> pending, out |-> out]
<1>1. /\ pc = "read" /\ pc' = "resolve" /\ log' = log /\ id' = id
      /\ after' = a.resume /\ PrintPrefixed(c)
      /\ mark' = IF mark.read = Null THEN [mark EXCEPT !.read = Len(log)] ELSE mark
  BY DEF ReadLogs, procVars
<1>2. /\ log \in Seq(Chunks) /\ Len(log) \in Nat /\ after \in Nat /\ after <= Len(log)
      /\ tail \in Nat \cup {Null}
  BY ReadOf
<1>3. mark'.tail = mark.tail
  BY <1>1 DEF Inv, MarkInv
<1>4. /\ id = Null /\ Cut(first)
      /\ mark.tail = Null => tail = Null /\ Complete(first, SubSeq(log, 1, after))
  BY <1>1 DEF AllInv, Inv, LoopInv
<1>5. m \in Nat /\ \A k \in 1 .. m : c[k].proc \in Procs /\ c[k].data \in Seq(Bytes)
  <2> DEFINE SentRows == [id : Selected(Query, 0), proc : Procs, data : Seq(Bytes)]
  <2>1. c \in Seq(SentRows)
    BY <1>2, ReadSends
  <2>2. \A e \in SentRows : e.proc \in Procs /\ e.data \in Seq(Bytes)
    OBVIOUS
  <2> HIDE DEF SentRows, c
  <2>3. Len(c) \in Nat /\ \A k \in 1 .. Len(c) : c[k] \in SentRows
    BY <2>1, LenProperties, ElementOfSeq
  <2> QED
    BY <2>2, <2>3
<1>6. mark.tail = Null =>
        /\ m = Len(log) - after /\ a.resume = Len(log)
        /\ \A k \in 1 .. m : c[k].proc = log[after + k].proc /\ c[k].data = log[after + k].data
  BY <1>2, <1>4, EverythingSent DEF Query
<1> HIDE DEF a, c
<1>7. PICK g : /\ Prints(c, first, m, g)
               /\ pending' = g[m].pending
               /\ out' = g[m].out
  BY <1>1, <1>5, PrefixedOf
<1> HIDE DEF first, m
<1>8. /\ g[0] = first
      /\ \A k \in 1 .. m : g[k] = Buffered(g[k - 1], c[k])
  <2>1. 0 \in 0 .. m /\ \A k \in 1 .. m : k \in 0 .. m /\ k # 0
    BY <1>5
  <2> QED
    BY <2>1, <1>7 DEF Prints
<1> DEFINE Good == {k \in 0 .. m : Cut(g[k])}
           Whole == {k \in 0 .. m : Complete(g[k], SubSeq(log, 1, after + k))}
<1>9. ASSUME NEW k \in 0 .. m, k < m
      PROVE  /\ k + 1 \in 1 .. m /\ k + 1 \in 0 .. m /\ g[k + 1] = Buffered(g[k], c[k + 1])
             /\ c[k + 1].proc \in Procs /\ c[k + 1].data \in Seq(Bytes)
  <2> DEFINE j == k + 1
  <2>1. j \in 1 .. m /\ j \in 0 .. m /\ j - 1 = k
    BY <1>5, <1>9
  <2> HIDE DEF j
  <2>2. g[j] = Buffered(g[k], c[j]) /\ c[j].proc \in Procs /\ c[j].data \in Seq(Bytes)
    BY <2>1, <1>5, <1>8
  <2> QED
    BY <2>1, <2>2 DEF j
<1>10. \A k \in 0 .. m : k \in Good
  <2>1. 0 \in Good
    BY <1>4, <1>5, <1>8
  <2>2. ASSUME NEW k \in 0 .. m, k \in Good /\ k < m PROVE k + 1 \in Good
    BY <1>9, <2>2, BufferedKeeps
  <2> HIDE DEF Good
  <2> QED
    BY <1>5, <2>1, <2>2, Upwards
<1>11. ASSUME mark.tail = Null PROVE \A k \in 0 .. m : k \in Whole
  <2>1. 0 \in Whole
    <3>1. after + 0 = after /\ 0 \in 0 .. m
      BY <1>2, <1>5
    <3> QED
      BY <3>1, <1>4, <1>8, <1>11
  <2>2. ASSUME NEW k \in 0 .. m, k \in Whole /\ k < m PROVE k + 1 \in Whole
    <3> DEFINE i == after + k
               j == k + 1
               rows == SubSeq(log, 1, i)
               row == log[i + 1]
    <3>1. /\ j \in 1 .. m /\ j \in 0 .. m /\ i \in Nat /\ i < Len(log) /\ after + j = i + 1
      BY <1>2, <1>5, <1>6, <1>11, <2>2
    <3>2. rows \in Seq(Chunks) /\ row \in Chunks /\ SubSeq(log, 1, i + 1) = Append(rows, row)
      BY <3>1, <1>2, Prefix
    <3>3. Complete(g[k], rows) /\ Cut(g[k])
      BY <1>10, <2>2
    <3>4. /\ g[j] = Buffered(g[k], c[j])
          /\ c[j].proc \in Procs /\ c[j].data \in Seq(Bytes)
      BY <1>9, <2>2
    <3> HIDE DEF rows, i, j
    <3>5. c[j].proc = row.proc /\ c[j].data = row.data
      BY <3>1, <1>6, <1>11
    <3> HIDE DEF row
    <3>6. Complete(g[j], Append(rows, row))
      BY <3>2, <3>3, <3>4, <3>5, BufferedKeeps
    <3>7. Complete(g[j], SubSeq(log, 1, after + j))
      BY <3>1, <3>2, <3>6
    <3> QED
      BY <3>1, <3>7 DEF j
  <2> HIDE DEF Whole
  <2> QED
    BY <1>5, <2>1, <2>2, Upwards
<1>12. Cut(g[m]) /\ (mark.tail = Null => Complete(g[m], SubSeq(log, 1, after + m)))
  <2>1. m \in 0 .. m
    BY <1>5
  <2> QED
    BY <2>1, <1>10, <1>11
<1>13. mark.tail = Null => after + m = Len(log) /\ after' = Len(log)
  BY <1>1, <1>2, <1>6
<1>14. /\ Cut([pending |-> pending', out |-> out'])
       /\ mark.tail = Null => Complete([pending |-> pending', out |-> out'], SubSeq(log, 1, Len(log)))
  BY <1>7, <1>12, <1>13 DEF Cut, Complete
<1> QED
  BY <1>1, <1>3, <1>13, <1>14

\* New rows are behind the cursor.
LEMMA WriteKeepsAll == ASSUME Inv, AllInv, NEW p \in Procs, Write(p) PROVE AllInv'
<1>1. /\ LogTypeOK' /\ Len(log') = Len(log) + 1 /\ \A i \in DOMAIN log : log'[i] = log[i]
  BY Inserted DEF Write, Inv, TypeOK
<1>2. UNCHANGED <<pc, mode, id, after, pending, out, mark>>
  BY DEF Write, printVars
<1>3. /\ log \in Seq(Chunks) /\ log' \in Seq(Chunks) /\ Len(log) \in Nat /\ DOMAIN log = 1 .. Len(log)
      /\ after \in Nat /\ after <= Len(log)
  BY <1>1, Stored, OutputAssumption DEF Inv, TypeOK, LogTypeOK, LoopInv
<1>4. SubSeq(log', 1, after) = SubSeq(log, 1, after)
  <2> DEFINE d == SubSeq(log, 0 + 1, after)
             e == SubSeq(log', 0 + 1, after)
  <2>1. 0 \in Nat /\ 0 <= after /\ after - 0 = after /\ 0 + 1 = 1 /\ after <= Len(log')
    BY <1>1, <1>3
  <2>2. d \in Seq(Chunks) /\ Len(d) = after - 0 /\ \A i \in 1 .. after - 0 : d[i] = log[0 + i]
    BY <2>1, <1>3, PieceOf
  <2>3. e \in Seq(Chunks) /\ Len(e) = after - 0 /\ \A i \in 1 .. after - 0 : e[i] = log'[0 + i]
    BY <2>1, <1>3, PieceOf
  <2> HIDE DEF d, e
  <2>4. \A i \in 1 .. after : 0 + i = i /\ i \in 1 .. Len(log)
    BY <1>3
  <2>5. \A i \in 1 .. Len(e) : e[i] = d[i]
    BY <2>1, <2>2, <2>3, <2>4, <1>1, <1>3
  <2>6. e = d
    BY <2>2, <2>3, <2>5, SeqEqual
  <2> QED
    BY <2>1, <2>6 DEF d, e
<1> QED
  BY <1>2, <1>4 DEF AllInv

LEMMA AllInvariance == Spec => []AllInv
<1>1. Init => AllInv
  <2> SUFFICES ASSUME Init PROVE AllInv
    OBVIOUS
  <2>1. /\ log = <<>> /\ out = <<>> /\ after = 0 /\ pc = "resolve"
        /\ pending = [p \in Procs |-> <<>>]
    BY DEF Init
  <2>2. SubSeq(log, 1, after) = <<>>
    BY <2>1, SubSeqEmpty
  <2>3. \A p : OutputOf(<<>>, p) = <<>>
    <3> TAKE p
    <3>1. Own(<<>>, p) = <<>>
      BY DEF Own
    <3>2. OutputOf(<<>>, p) = FlattenSeq(Own(<<>>, p))
      BY DEF OutputOf, Own
    <3>3. <<>> \in Seq(Seq(Bytes)) /\ \A i \in 1 .. Len(<<>>) : <<>>[i] = <<>>
      BY EmptySeq
    <3> QED
      BY <3>1, <3>2, <3>3, FlattenNothing
  <2>4. <<>> \in Seq(Bytes) /\ <<>> \in Seq(Labels) /\ Len(<<>>) = 0 /\ <<>> \o <<>> = <<>> /\ Newlines(<<>>) = {}
    BY EmptySeq, ConcatEmptySeq DEF Newlines
  <2>5. /\ Cut([pending |-> pending, out |-> out])
        /\ Complete([pending |-> pending, out |-> out], <<>>)
    BY <2>1, <2>3, <2>4 DEF Cut, Complete
  <2> QED
    BY <2>1, <2>2, <2>5 DEF AllInv
<1>2. Inv /\ AllInv /\ [Next]_vars => AllInv'
  <2> SUFFICES ASSUME Inv, AllInv, [Next]_vars PROVE AllInv'
    OBVIOUS
  <2>1. ASSUME NEW p \in Procs, Exit(p) PROVE AllInv'
    <3>1. UNCHANGED <<log, pc, mode, id, after, pending, out>> /\ mark' = [mark EXCEPT !.exit[p] = Len(log)]
      BY <2>1 DEF Exit, printVars
    <3>2. mark'.tail = mark.tail
      BY <3>1 DEF Inv, MarkInv
    <3> QED
      BY <3>1, <3>2 DEF AllInv
  <2>2. ASSUME Resolve("resolve", "read") \/ Resolve("reresolve", "show") PROVE AllInv'
    <3>1. /\ UNCHANGED <<log, mode, after, pending, out, mark>> /\ id' = Resolved
      BY <2>2 DEF Resolve, procVars, printVars
    <3>2. mode = "all" => Resolved = Null
      BY DEF Resolved
    <3> QED
      BY <3>1, <3>2 DEF AllInv
  <2>3. ASSUME NEW p \in Procs, PipeCloses(p) PROVE AllInv'
    BY <2>3 DEF PipeCloses, printVars, AllInv
  <2>4. CASE NextGeneration
    BY <2>4 DEF NextGeneration, printVars, AllInv
  <2>5. CASE ShowProcess
    BY <2>5 DEF ShowProcess, procVars, printVars, AllInv, Inv, LoopInv
  <2>6. CASE UNCHANGED vars
    BY <2>6 DEF vars, procVars, printVars, AllInv
  <2> QED
    BY <2>1, <2>2, <2>3, <2>4, <2>5, <2>6, ReadKeepsAll, WriteKeepsAll DEF Next, FollowStep
<1> QED
  BY Invariance, <1>1, <1>2, PTL DEF Spec

\* With --all only complete lines are printed and none waits once it is
\* complete, and without --tail what is printed of each process and its pending
\* line are what was read of it, whichever processes write in between.
THEOREM FollowUnglued == Spec => []LinesUnglued
<1>1. AllInv => LinesUnglued
  <2> SUFFICES ASSUME AllInv, mode = "all" PROVE LinesUnglued
    BY DEF LinesUnglued
  <2>1. /\ Cut([pending |-> pending, out |-> out])
        /\ mark.tail = Null => Complete([pending |-> pending, out |-> out], SubSeq(log, 1, after))
    BY DEF AllInv
  <2>2. /\ out \in Seq(Labels)
        /\ \A k \in 1 .. Len(out) : Newlines(out[k].data) = {Len(out[k].data)}
        /\ \A p \in Procs : Newlines(pending[p]) = {}
        /\ mark.tail = Null =>
             \A p \in Procs : OutputOf(out, p) \o pending[p] = OutputOf(SubSeq(log, 1, after), p)
    BY <2>1 DEF Cut, Complete
  <2>3. DOMAIN out = 1 .. Len(out)
    BY <2>2, LenProperties
  <2> QED
    BY <2>2, <2>3 DEF LinesUnglued
<1> QED
  BY AllInvariance, <1>1, PTL
=============================================================================
