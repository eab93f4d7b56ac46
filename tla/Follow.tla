-------------------------------- MODULE Follow --------------------------------
(***************************************************************************)
(* `pz logs -f`: the client's polling loop (follow_logs and OutputPrinter  *)
(* of src/src/client/output.rs) against processes that write, finish and   *)
(* are restarted meanwhile.  A poll is two requests, ReadLogs and          *)
(* ShowProcess, and each resolves the selector anew (service.rs), so the   *)
(* loop is a machine of four steps.                                        *)
(*                                                                         *)
(* The processes are the generations 1, 2, ... of one name, or, with       *)
(* --all, unrelated processes.  Their output is captured by tasks of their *)
(* own, which go on as long as somebody holds the pipe, whether or not the *)
(* row says running.                                                       *)
(***************************************************************************)
EXTENDS OutputLog

CONSTANTS
    Modes,      \* how the process is designated: "id" (the first), "name", "all"
    Tails       \* the --tail arguments, Null for none

ASSUME FollowAssumption ==
    /\ Modes \subseteq {"id", "name", "all"}
    /\ Tails \subseteq Nat \cup {Null}
    /\ IsFiniteSet(Procs) /\ Procs # {}
    /\ Procs = 1 .. Cardinality(Procs)

VARIABLES
    started,    \* how many generations have been spawned
    running,    \* the row says running
    piped,      \* the capture tasks still read
    pc,         \* where the loop stands
    mode,       \* the client's arguments, from Modes
    id,         \* the process the request under way is about, Null for all
    tail,       \* tail_lines, taken by the first read
    after,      \* after_id
    printedAny, \* the last read returned something
    quiet,      \* quiet_polls_after_exit
    pending,    \* the printer's partial line of each process
    out,        \* what was printed, as chunks or as labelled lines
    mark        \* history: the --tail argument, and how long the log was at
                \* the first read and at each exit

procVars == <<log, started, running, piped>>
printVars == <<pending, out>>
vars == <<procVars, pc, mode, id, tail, after, printedAny, quiet, printVars, mark>>

Pcs == {"resolve", "read", "reresolve", "show", "done"}

TypeOK ==
    /\ LogTypeOK
    /\ started \in Procs
    /\ running \in [Procs -> BOOLEAN]
    /\ piped \in [Procs -> BOOLEAN]
    /\ pc \in Pcs
    /\ mode \in Modes
    /\ id \in Procs \cup {Null}
    /\ tail \in Tails \cup {Null}
    /\ after \in 0 .. Len(log)
    /\ printedAny \in BOOLEAN
    /\ quiet \in 0 .. 3

Init ==
    /\ log = <<>>
    /\ mode \in Modes
    /\ started = IF mode = "all" THEN Cardinality(Procs) ELSE 1
    /\ running = [p \in Procs |-> p <= started]
    /\ piped = [p \in Procs |-> p <= started]
    /\ pc = "resolve"
    /\ id = Null
    /\ tail \in Tails
    /\ after = 0
    /\ printedAny = FALSE
    /\ quiet = 0
    /\ pending = [p \in Procs |-> <<>>]
    /\ out = <<>>
    /\ mark = [tail |-> tail, read |-> Null, exit |-> [p \in Procs |-> Null]]

-----------------------------------------------------------------------------
(* The processes *)

Write(p) ==
    /\ piped[p]
    /\ \E s \in Streams, d \in Data, at \in Times : InsertOutputChunk(p, s, d, at)
    /\ UNCHANGED <<started, running, piped, pc, mode, id, tail, after, printedAny, quiet, printVars, mark>>

\* The reaper records the exit.
Exit(p) ==
    /\ running[p]
    /\ running' = [running EXCEPT ![p] = FALSE]
    /\ mark' = [mark EXCEPT !.exit[p] = Len(log)]
    /\ UNCHANGED <<log, started, piped, pc, mode, id, tail, after, printedAny, quiet, printVars>>

\* The last holder of the pipe is gone: the group's leader is not the last.
PipeCloses(p) ==
    /\ piped[p]
    /\ ~running[p]
    /\ piped' = [piped EXCEPT ![p] = FALSE]
    /\ UNCHANGED <<log, started, running, pc, mode, id, tail, after, printedAny, quiet, printVars, mark>>

\* The name is run again.
NextGeneration ==
    /\ mode # "all"
    /\ started + 1 \in Procs
    /\ ~running[started]
    /\ started' = started + 1
    /\ running' = [running EXCEPT ![started + 1] = TRUE]
    /\ piped' = [piped EXCEPT ![started + 1] = TRUE]
    /\ UNCHANGED <<log, pc, mode, id, tail, after, printedAny, quiet, printVars, mark>>

-----------------------------------------------------------------------------
(* The loop *)

\* resolve_process_id: a name is its running generation, else its newest.
Resolved == CASE mode = "id" -> 1
              [] mode = "name" -> started
              [] mode = "all" -> Null

Resolve(from, to) ==
    /\ pc = from
    /\ pc' = to
    /\ id' = Resolved
    /\ UNCHANGED <<procVars, mode, tail, after, printedAny, quiet, printVars, mark>>

Query == [proc |-> id, stream |-> Null, since |-> Null, until |-> Null]

\* Mutant of PrintPrefixed: the label goes in front of every chunk.
PrintUnbuffered(chunks) ==
    /\ out' = out \o [k \in DOMAIN chunks |-> [proc |-> chunks[k].proc, data |-> chunks[k].data]]
    /\ UNCHANGED pending

\* The complete lines in a buffer, and what is left behind them.
Lines(text) ==
    LET ends == InOrder(Newlines(text))
    IN  [k \in DOMAIN ends |-> SubSeq(text, IF k = 1 THEN 1 ELSE ends[k - 1] + 1, ends[k])]

Rest(text) == SubSeq(text, Max(Newlines(text) \cup {0}) + 1, Len(text))

Labelled(p, lines) == [k \in DOMAIN lines |-> [proc |-> p, data |-> lines[k]]]

\* A chunk joins its process's buffer, and each complete line leaves it.
Buffered(printer, c) ==
    LET text == printer.pending[c.proc] \o c.data
    IN  [pending |-> [printer.pending EXCEPT ![c.proc] = Rest(text)],
         out |-> printer.out \o Labelled(c.proc, Lines(text))]

\* The chunks' lines with their labels, each as soon as it is complete.
PrintPrefixed(chunks) ==
    LET printer[k \in 0 .. Len(chunks)] ==
            IF k = 0 THEN [pending |-> pending, out |-> out]
            ELSE Buffered(printer[k - 1], chunks[k])
    IN  /\ pending' = printer[Len(chunks)].pending
        /\ out' = printer[Len(chunks)].out

PrintRaw(chunks) ==
    /\ out' = out \o chunks
    /\ UNCHANGED pending

\* Mutant of ReadLogs: the client infers the cursor from what it got.
ReadInferring ==
    /\ pc = "read"
    /\ LET answer == ReadOutput(Query, after, tail)
       IN  /\ IF mode = "all" THEN PrintPrefixed(answer.chunks) ELSE PrintRaw(answer.chunks)
           /\ after' = IF answer.chunks = <<>> THEN after ELSE Last(answer.chunks).id
           /\ printedAny' = (answer.chunks # <<>>)
    /\ tail' = Null
    /\ pc' = IF mode = "all" THEN "resolve" ELSE "reresolve"
    /\ mark' = IF mark.read = Null THEN [mark EXCEPT !.read = Len(log)] ELSE mark
    /\ UNCHANGED <<procVars, mode, id, quiet>>

ReadLogs ==
    /\ pc = "read"
    /\ LET answer == ReadOutput(Query, after, tail)
       IN  /\ IF mode = "all" THEN PrintPrefixed(answer.chunks) ELSE PrintRaw(answer.chunks)
           /\ after' = answer.resume
           /\ printedAny' = (answer.chunks # <<>>)
    /\ tail' = Null
    /\ pc' = IF mode = "all" THEN "resolve" ELSE "reresolve"
    /\ mark' = IF mark.read = Null THEN [mark EXCEPT !.read = Len(log)] ELSE mark
    /\ UNCHANGED <<procVars, mode, id, quiet>>

\* Mutant of ShowProcess: the first quiet poll after the exit ends the loop.
ShowOnce ==
    /\ pc = "show"
    /\ quiet' = IF running[id] \/ printedAny THEN 0 ELSE quiet + 1
    /\ pc' = IF ~running[id] /\ quiet' >= 1 THEN "done" ELSE "resolve"
    /\ UNCHANGED <<procVars, mode, id, tail, after, printedAny, printVars, mark>>

\* Mutant of ShowProcess: quiet polls are not added up.
ShowUncounted ==
    /\ pc = "show"
    /\ quiet' = IF running[id] \/ printedAny THEN 0 ELSE 1
    /\ pc' = IF ~running[id] /\ quiet' >= 3 THEN "done" ELSE "resolve"
    /\ UNCHANGED <<procVars, mode, id, tail, after, printedAny, printVars, mark>>

\* Mutant of ShowProcess: nothing ends the loop.
ShowAlways ==
    /\ pc = "show"
    /\ quiet' = IF running[id] \/ printedAny THEN 0 ELSE quiet + 1
    /\ pc' = "resolve"
    /\ UNCHANGED <<procVars, mode, id, tail, after, printedAny, printVars, mark>>

\* Not with --all: following everything has no exit condition.
ShowProcess ==
    /\ pc = "show"
    /\ quiet' = IF running[id] \/ printedAny THEN 0 ELSE quiet + 1
    /\ pc' = IF ~running[id] /\ quiet' >= 3 THEN "done" ELSE "resolve"
    /\ UNCHANGED <<procVars, mode, id, tail, after, printedAny, printVars, mark>>

FollowStep == Resolve("resolve", "read") \/ ReadLogs \/ Resolve("reresolve", "show") \/ ShowProcess

Next ==
    \/ FollowStep
    \/ \E p \in Procs : Write(p) \/ Exit(p) \/ PipeCloses(p)
    \/ NextGeneration

Spec == Init /\ [][Next]_vars

\* The client polls on until it is done; processes need neither write nor
\* exit.  Only the loop moves pc, and it can until it is done.
Polls == pc # "done" /\ pc' \in Pcs \ {pc}

FairSpec == Spec /\ WF_pc(Polls)

-----------------------------------------------------------------------------
Printed(i) == \E k \in DOMAIN out : out[k].id = i

\* What --tail does not leave out: everything without it, else what was
\* captured since the first read.
Due(i) == mark.tail = Null \/ mark.read < i

\* Following one process prints all of its output that the cursor has passed,
\* or with --tail all that was captured since the first read, once and in
\* order, and with --tail 0 nothing else (the cursor read_output returns even
\* when it has nothing to return).
PrintsInOrder ==
    mode = "id" =>
        /\ \A k \in 2 .. Len(out) : out[k - 1].id < out[k].id
        /\ mark.tail = 0 => \A k \in DOMAIN out : out[k].id > mark.read
        /\ mark.read # Null =>
             \A i \in DOMAIN log : log[i].proc = 1 /\ i <= after /\ Due(i) => Printed(i)

\* Following one process stops only after everything is printed that was
\* captured before its exit was recorded and that --tail does not leave out,
\* although reading the log and reading the status are separate requests (the
\* quiet polls after the exit): of a process that had exited before the first
\* read as well.
EndsComplete ==
    mode = "id" /\ pc = "done" =>
        /\ mark.exit[id] # Null
        /\ \A i \in DOMAIN log :
                log[i].proc = id /\ i <= mark.exit[id] /\ Due(i) => Printed(i)

\* What chunks hold of a process.
OutputOf(chunks, p) ==
    FlattenSeq([k \in DOMAIN chunks |-> IF chunks[k].proc = p THEN chunks[k].data ELSE <<>>])

\* Lines of several processes are never glued together: one complete line is
\* printed at a time, and none waits once it is complete; without --tail, what
\* is printed of each process, and its pending line, are what was read of it
\* (the line buffer of OutputPrinter).
LinesUnglued ==
    mode = "all" =>
        /\ \A k \in DOMAIN out : Newlines(out[k].data) = {Len(out[k].data)}
        /\ \A p \in Procs : Newlines(pending[p]) = {}
        /\ mark.tail = Null =>
             \A p \in Procs :
                OutputOf(out, p) \o pending[p] = OutputOf(SubSeq(log, 1, after), p)

\* A follower ends once the process has exited and its pipe is closed.
FollowEnds == mode = "id" => (~running[1] /\ ~piped[1] ~> pc = "done")

\* `pz logs <name> -f` is there to "continue printing new output as it
\* arrives" (cli.rs): the cursor passes over nothing that a process of the
\* name wrote, after the first read and before its own exit was recorded.
NothingSkipped ==
    mode = "name" =>
        \A i \in DOMAIN log :
            LET exit == mark.exit[log[i].proc]
            IN  /\ mark.read # Null /\ mark.read < i /\ i <= after
                /\ exit # Null => i <= exit
                => Printed(i)
=============================================================================
