# A TLA+ model of pz

`pz` runs services in the background: a client sends one request over a Unix
socket, a daemon spawns processes, records them and their output in SQLite,
stops, restarts and times them out. This directory models the daemon, how it
is started, what it lists, and the client's follower and configuration, checks
them with TLC and proves the main safety properties with TLAPS. Every definition
is translated from the Rust sources; `PROJECT.json` maps each of them to its
lines.

## 1. Inventory

| Part | State | Operations | What makes it correct |
|---|---|---|---|
| store, `processes` (`daemon/store.rs`) | rows: status, name, pid/pgid/token, timeout | reserve, activate, six status updates, set_timeout, queries | one running row per name; ids never reused; a final status is not overwritten by a weaker one |
| store, `process_output` (`daemon/store.rs`) | chunks with a global id | insert, read_output with tail and cursor | a tail is the last lines; a cursor loses and repeats nothing |
| process groups (kernel; `terminate.rs`, `pid_identity.rs`) | leader, members, whose they are, pid | signal, group_alive, is_alive, reap | no stranger is signaled; "dead" means that no member runs that the daemon may signal |
| termination (`terminate.rs`) | phase and deadline | TERM, grace, KILL, deadline | it concludes only on a dead group, and it always concludes |
| runtime state (`daemon_state.rs`) | entry per child: lifecycle channel, timeout task | insert, finish, set_timeout, subscribe | waiters are released; a dropped handle leaves nothing behind |
| supervisor (`supervisor.rs`) | child handles, reaper and capture tasks | spawn, reap | no child without a row, no row without a child or a reaper |
| service (`service.rs`) | none of its own; requests in progress | run, replace, restart, stop, wait, timeout, ps, show, logs, resources, ports | stop and restart return on a confirmed death; names are exclusive; timeouts are enforced |
| server, start (`server.rs`, `runtime.rs`) | socket file, accept loop, rows of earlier daemons | prepare_socket, boot pass, bind, stop; ask, launch, poll | one daemon; a boot loses the rows of the dead and of nobody else; a start that succeeds is one |
| listing (`service.rs`, `ports.rs`) | none | ps, ports, resources | what lives is shown, and nothing of others |
| environment (`supervisor.rs`, `config.rs`, `command.rs`) | env files, configurations, what a row keeps | run_spec, effective_env, restart_spec | the layers decide in their order; nothing else gets in; a restart reproduces it |
| follower (`client/output.rs`) | cursor, quiet polls, pending lines | poll, print | everything printed once and in order, and an end after the exit |
| CLI, rendering, transport | none | parse, print | - |

The parts interact by calls and through two shared stores, the database and
the runtime state. Every connection is a task of a multi-threaded runtime;
every supervised process has a reaper, two capture tasks and possibly a
timeout task; an expired timeout spawns a detached escalation. Nothing holds
a lock across two calls. What is hard is what may happen between two of them:
other requests, an exit, a timeout, a failing call, the death of the daemon,
the recycling of a pid. `PROJECT.json` lists the hazards, each at its line.

## 2. Modules

    Store  <-  ProcessGroups  <-  Terminate  <-+
      ^                                        +-  Daemon  <-  DaemonProps  <-  DaemonInvariant
      +-----  DaemonState  <-------------------+                  |                |        |
                                                              Lifecycle       DaemonProof  MCDaemon
                                                              (INSTANCE)           |
                                                                           DaemonSafetyProof

    Lifecycle  <-  Listing  <-  ListingProof, MCListing
    Startup  <-  StartupProof, MCStartup
    Environment  <-  EnvironmentProof, MCEnvironment
    OutputLog  <-  OutputLogProof  <------+------+
        ^                                 |      |
        +-------  LogTail  <-  LogTailProof, MCLogTail
        +-------  Follow   <-  FollowProof,  MCFollow

| Module | Models |
|---|---|
| `Store` | the `processes` table; one operator per SQL statement |
| `ProcessGroups` | a group per generation: its leader (running, zombie, reaped), other members, which of them run as another user, and whether its pid has been recycled; `group_alive` and `is_alive` |
| `Terminate` | `kill_group_confirmed` in four phases |
| `DaemonState` | the runtime map: an entry, its timeout task, and a task whose handle was dropped |
| `Daemon` | requests, spawning, reapers, timeouts, crash and boot; the composition of the four above |
| `Lifecycle` | the abstract specification: how the status of a generation may move, what each status says about the process, who may claim a name |
| `DaemonProps` | the properties, those that hold and those the documentation claims |
| `DaemonInvariant` | the inductive invariant |
| `DaemonProof`, `DaemonSafetyProof` | the proofs about `Daemon`: its types and its invariant; what follows from it, the refinement included |
| `Startup`, `StartupProof` | daemons that are started, race, serve, stop and crash, and `pz daemon start`; the proofs about it |
| `Listing`, `ListingProof` | `ps`, `ports` and `resources`, as readers of rows, sockets and processes that change; the proofs about it |
| `Environment`, `EnvironmentProof` | the environment of a process, from the client's options and configuration to the spawn, and again at a restart; the proofs about it |
| `OutputLog` | `process_output`: `insert_output_chunk`, `read_output`, `seek_tail`, `trim_leading_lines` |
| `LogTail` | `read_output` against a reference definition of "the last N lines" |
| `Follow` | `follow_logs` and `OutputPrinter` against writing, exiting, restarted processes |
| `OutputLogProof`, `LogTailProof`, `FollowProof` | lemmas about what a read of the log returns; the proofs about `LogTail` and `Follow` |
| `MC*` | definitions for TLC: symmetry, data, queries |

### How the daemon is cut into steps

A step is one call on the store, the runtime state or the operating system,
with the decision taken on its answer: `sread` reads the row, `stoken` compares
the token, `term` sends SIGTERM, and so on. `pc[t]` says where the handler of
request `t` stands, `target[t]` the generation it works on, `job[t]` what it
has still to do: a replace calls the stop and comes back (`cont`), with the
generations still to be stopped (`todo`). A handler that answers, with a
response or an error, is idle again; the bound on concurrent requests is
`Tasks`, not on requests served.

- `reaper[i]`: the child handle is held by the spawning handler, awaited by the
  reaper task, reaped, recorded. A dropped handle is `none`, and then the
  runtime (or init, when the daemon is dead) reaps the child (`InitReaps`).
- `fire[i]`: an expired timeout has seen the entry, has marked the row, or
  runs the escalation. Two timeout tasks of one generation that expire
  together are one here. `FireTimer` may happen as soon as the task exists:
  durations are abstracted, and a clear that comes too late is the same.
- `Crash` is the death of the daemon in any state, `pz daemon stop` included:
  that only ends the accept loop, and the tasks go with the process. `Boot` is
  `mark_running_processes_lost` before the first request.
- SIGTERM changes nothing by itself: a group may exit at any time, before the
  grace ends or not. SIGKILL ends the group, unless the group is `Unkillable`.
- A process may become another user's (`sudo`), if its generation is among
  `OtherUsers`, and does not come back; `foreign[i]` says which of a group the
  daemon may not signal. A signal passes those over, and when there are no
  others `kill` fails with EPERM: `kill_group_confirmed` ignores the error and
  `group_alive` takes it for a dead group (`GroupAlive`).
- A failure of the store (fault `store`) may strike any call: the handler
  answers with the error, or goes on where the code ignores the result.

### The follower

A poll is two requests, and each resolves the selector again, so the loop has
four steps (`resolve`, `read`, `reresolve`, `show`). The processes write and
exit in between; the capture tasks go on after the exit as long as somebody
holds the pipe. `out` is what was printed and `mark` is a history variable used
by the properties only; `Due(i)` is what `--tail` does not leave out: everything
without it, what was captured since the first read with it.

### Startup

A step is one call on the file system, the socket or the database; `bind(2)`
and `listen(2)`, which `UnixListener::bind` makes, are two. `file[p]` is whose
socket is linked at path `p`: a file outlives its daemon, and a daemon whose
file was removed serves on, unreachable. `Connectable` is what `connect` finds
out. `Claim` stands for all that `Daemon` models of a daemon that serves, and a
handler may still claim a row when the accept loop is over. `overlap` and `env`
are chosen once: whether starts may overlap, and from which shell each daemon
is launched. The daemons in `Earlier` were killed before the model begins, and each
has left a socket file.

### Listing

A list is one query, a token check per lost row, one scan of the sockets (by
netlink, or `/proc/net/tcp`, `tcp6` and the descriptors of one process after the
other), one scan of the process table, and `getpgid` of its processes for each
row. Between any two of them the kernel and the other tasks move. What rows do
is what `Lifecycle` allows: the module extends the abstract specification
instead of the detailed one, which the theorem `Refinement` justifies; `beyond`
there says that a process runs as another user, which no request asks and only
the verdict `killed` depends on, so it stays `FALSE` here. `past`
is history: who was in which group, who listened on what, and which processes
ran all along, since the request came.

### Environment

A layer gives every key a value or none. A request has a layer per source: what
is inherited, each file, the configuration, `--env`; `effective_env` reads them
one by one, and the row keeps the files and the keys but not the values of
`--env`. Files and configurations are edited between any two reads. `asker`,
`dirty`, `stale` and `offered` are history.

## 3. Runs

Bounds are constants of the configurations: `MaxId` generations ever spawned,
`Tasks` requests at a time, `MaxBoots` daemon restarts, `MaxChunks` chunks.
Handlers are interchangeable, so `Tasks` is a symmetry set in the runs without
liveness; so are the processes of `tail`. Two handlers are enough for every
race named in the hazards, because the other parties (reaper, timeout, boot,
kernel) are actors of their own. Three generations let a lost one, a running
one and a new claim of the same name coexist.

| Run | Bounds | Shows |
|---|---|---|
| `spawn_race` | 3 ids, 1 daemon restart, no faults, pids recycled late, the first process may change user | run, replace, restart, stop of one name race across a daemon restart: `VisibleWhileAlive`, `OneVisibleHolder`, `RunningIsSupervised`, `NoStrangerSignaled`, and `Implements` (Daemon refines Lifecycle) |
| `stop_race` | 1 id, families, unkillable groups, processes that change user, store, exec, environment and deadline faults, 1 daemon restart | stops, forced stops, timeouts and exits: `TypeOK`, `IndInv` (the invariant of the proofs), `StopConfirmsDeath`, `Implements` |
| `timeout_liveness` | 1 id, families, processes that change user, timeouts | `TimeoutKills`, `RequestsAnswered`, `ExitNoticed`, `WaitersReleased`, `RunningIsSupervised`, which they rest on, and `ListedWhileAlive` |
| `tail` | 3 chunks of 5 shapes, 2 processes, 2 streams, 2 times, tails 0-3 | `TailIsLastLines`, `CursorIsExact` |
| `follow` | 3 chunks that end in mid-line, 2 processes, tails none, 0, 1, by id and with `--all` | `TypeOK`, `PrintsInOrder`, `EndsComplete`, `FollowEnds`, and, for `--all`, `LinesUnglued` |
| `startup` | 2 daemons after one that was killed, 1 row, 2 shells with different paths, starts that may overlap and starts that may not | `ReachableWhileServing`, `LosesOnlyTheEnded`, `CrashLosesRows`, `SuccessMeansServed`, and, under fairness, `SomebodyServes`, `StopCompletes` |
| `listing` | 2 generations, 2 pids, 1 port, every source may fail, `ps` and `ports` | `ListsTheLiving`, `LostRowsAreAlive`, `NothingOfOthers`, `ShowsWhatListens`, `UnavailableMeansBoth` |
| `environment` | 2 generations, 2 edits, 1 key, 2 values, 2 shells, files and configurations that are missing, malformed or good | `EnvIsDecided`, `NothingElse`, `RestartReproduces` |

Three chunks are enough for a tail whose boundary chunk is neither the newest
nor the oldest, and for a follower whose cursor passes a chunk it does not
print. One id suffices in `stop_race`: stops, timeouts and reapers of different
generations share no state but the name, which `spawn_race` is about. `stop_race`
makes no waits, which change nothing but their own handler; `timeout_liveness`
does. Two daemons make every race of `startup`, the one that finds, unlinks or
binds and the one it does that to, and a third one, dead from the beginning, the
stale file that two starts race over. Two
pids and two generations let the pid of one be recycled by the other, or by a
stranger, while a request is served (one pid is in use and one is free for
whoever comes); `timed_out` stands for the final statuses, which list alike.
One key suffices in `environment` because keys do not interact, and two values
tell the layers apart; the shells differ in where their configuration is (one
sets `PZ_CONFIG`).

`CHECK_DEADLOCK FALSE` stands where the system really stops: no more chunks
to write, a follower that is done. In the other runs a
client can always make another request.

`Recycling = "late"` says that a pid is not recycled while the daemon is in the
middle of an operation on it (DESIGN.md accepts that limit of the grace
window, and `"any"` lifts it); across operations and daemon lifetimes it may be,
which is what `NoStrangerSignaled` is about. `store` is not among the faults of the runs that check
`RunningIsSupervised`: the code ignores the result of `mark_process_finished`,
and after a failed one the row does say running until the next boot.

### Where the code departs from its documentation

Each of these runs checks one sentence of the documentation and TLC finds a
behaviour of the code against it.

| Run | Says | What happens |
|---|---|---|
| `v_successor` | DESIGN.md: restart spawns only after the group is confirmed dead | the timeout marks the row `timed_out` before it kills, and restart only stops running and lost rows |
| `v_boot` | DESIGN.md: a boot marks rows of a previous daemon lost | of two starts the one that fails to bind has already marked the rows of the one that serves |
| `v_privileged` | DESIGN.md, terminate.rs: on Linux a stop of a privileged group errors | `group_alive` takes EPERM for dead, as on macOS: the stop succeeds and the row says killed |
| `v_follow` | cli.rs: follow prints new output | the name is resolved anew at each poll while the cursor is global |

More departures are in the models and follow from reading the code; they have
no run of their own, and the properties that come near them except them.

- `--inherit-env` inherits the environment of the daemon, which is that of the
  shell that started it (cli.rs:97: "Inherit the CLI environment"). `EnvIsDecided`
  claims the documented meaning only of a daemon started from the same shell
  (`InheritsCli`).
- A timeout for an id that has no entry yet runs detached: no row records it, no
  clear reaches it, and it kills whatever process gets the id (cli.rs:36: "Add,
  replace, or clear a process timeout").
- A wait between the claim of the row and the insertion of the entry finds
  nothing to wait on, and answers with a running process (cli.rs:41: "Blocks
  until the process exits").
- A set and a clear of a timeout that cross between the store and the runtime
  state leave a row with a timeout that nothing enforces (README.md:76: "Timeouts
  are enforced by the daemon").
- A daemon that dies during a timeout's escalation leaves a live process whose
  row says `timed_out`, and no list shows it (DESIGN.md:302); `ListedWhileAlive`
  is about one daemon's life.
- Between the reaper's `child.wait` and `mark_process_finished` a running row's
  pid is not pinned, so a stop in that window trusts a free pid (DESIGN.md:220);
  `NoStrangerSignaled` needs that it is not recycled within the window.
- A restart resolves its name twice: when the process has exited and the name was
  run anew in between, the new process is stopped and the old one's command
  started (cli.rs:45).
- A stopped daemon's handlers run until its process is gone; a row they claim
  after the next daemon's boot pass says running until the boot after
  (README.md:117). `CrashLosesRows` is about daemons that crashed.
- Socket and database are found by different variables: a daemon started from a
  shell with another runtime directory and the same state directory marks the
  rows of the one that serves lost (DESIGN.md:225). `Consistent` excludes it.
- A daemon that dies between `command.spawn` and `activate_process` leaves a live
  child that no row identifies: the row is lost without a pid and its name is
  free.
- After a failed `mark_process_finished`, whose result is ignored, a row says
  running and holds its name until the next boot.
- `pz logs --all --tail N` counts lines over the interleaved chunks of all
  processes, so what it shows of one may begin in mid-line.
- Two starts that overlap can end with two daemons that serve one database, one
  of them unreachable; which is why the properties of `startup` assume starts
  that do not overlap, and `SomebodyServes` does not.
- `pz daemon start` may report success on the answer of a daemon that is about
  to end; `SuccessMeansServed` excepts it.
- `pz ports` of a running row whose pid is not recorded yet says unavailable
  although no source failed (`UnavailableMeansBoth` names the case); `pz ps`
  passes the row over.
- The `[env]` section of a configuration, described as defaults, overrides what
  `--env-file` says.
- A restart or a replace stops the old process before the env files are read:
  one that cannot be read leaves the service down.

## 4. Fairness

`Daemon`'s fairness is the runtime's: a task that can take a step takes one
(`TaskStep`, `FireStep`, `ReaperStep`), a sleep ends (`FireTimer`), and a child
nobody awaits is reaped (`InitReaps`). Clients need not call, processes need not
exit, the daemon need not die or come back. Every wait inside a handler is
either such a sleep or `WaitFinished`, which `RequestsAnswered` exempts while the
process runs. `timeout_liveness` has no `Unkillable` groups: the code gives up on
them, and `TimeoutKills` would not hold. Of a process that became another user's
`TimeoutKills` says nothing: no signal reaches it. A follower's client polls on
(`WF_pc(Polls)`); processes need not write or exit. In `Startup` a daemon that
starts or stops goes on (`StartStep`, `StopStep`): these are straight-line code.
Nobody need start, stop, connect to or kill one. `SomebodyServes` promises
nothing when a daemon of that socket is stopped, or killed before it listens,
while it is waited for: either may take the only candidate away.

## 5. Proofs

The proofs hold for all constants that satisfy the named assumptions
(`NamesAssumption`: names and ids are distinct; `GroupsAssumption`,
`DaemonAssumption`: the switches have their types and `OtherUsers` are ids;
`StartupAssumption`: no daemon is called `None`, `Earlier` are daemons; `EnvironmentAssumption`: the paths that can be asked
for are files; `ListingAssumption`: the constants have their types, and `NoPid`
is no pid; `OutputAssumption`: a chunk is a non-empty sequence of bytes, because
a read of none ends the capture; `FollowAssumption`: the processes are numbered
from 1).

| Theorem | States | Hypotheses |
|---|---|---|
| `TypeCorrect`, `Invariance` | `Spec => []TypeOK`, `Spec => []IndInv` | |
| `Visibility` | `Spec => []VisibleWhileAlive` | |
| `NameExclusion` | `Spec => []OneVisibleHolder` | |
| `StopConfirmed` | `Spec => StopConfirmsDeath` | |
| `Refinement` | `Spec => Implements` | |
| `Supervision` | `Spec => []RunningIsSupervised` | no store failures |
| `NoStranger` | `Spec => []NoStrangerSignaled` | no store failures, no recycling in the middle of an operation |
| `Listed` | `Spec => []ListedWhileAlive` | SIGKILL kills |
| `OneServer` | `Spec => []ReachableWhileServing` | (starts that do not overlap, in the property) |
| `BootTakesOver` | `Spec => LosesOnlyTheEnded` | (the same, and shells that agree on the paths) |
| `CrashedAreLost` | `Spec => []CrashLosesRows` | (the same) |
| `SuccessIsTrue` | `Spec => []SuccessMeansServed` | (starts that do not overlap) |
| `LastLayerDecides` | `Spec => EnvIsDecided` | (no source edited while it is read, in the property) |
| `NothingGetsIn` | `Spec => NothingElse` | |
| `RestartIsFaithful` | `Spec => RestartReproduces` | (no source edited since, in the property) |
| `LostOnlyIfAlive` | `Spec => []LostRowsAreAlive` | |
| `OwnOnly` | `Spec => []NothingOfOthers` | |
| `UnknownOnlyWithoutSources` | `Spec => []UnavailableMeansBoth` | |
| `NoneIsPassedOver` | `Spec => []ListsTheLiving` | |
| `EveryPortIsShown` | `Spec => []ShowsWhatListens` | |
| `CursorExact` | `Spec => []CursorIsExact` | |
| `TailLines` | `Spec => []TailIsLastLines` | |
| `FollowTyped` | `Spec => []TypeOK` | |
| `FollowPrintsInOrder` | `Spec => []PrintsInOrder` | (one process, by its id, in the property) |
| `FollowEndsComplete` | `Spec => []EndsComplete` | (the same) |
| `FollowUnglued` | `Spec => []LinesUnglued` | (`--all`, in the property) |

**Daemon.** `VisibleWhileAlive` and `OneVisibleHolder` are not inductive. That a
killed row is dead depends on what a stop knew before it wrote the row
(`StopInv`), which rests on the pid being recorded (`PidInv`), which rests on the
spawning handler owning its row (`OwnersInv`), whose id was fresh when it claimed
it (`FreshInv`). That names are exclusive depends on what a handler between the
check and the claim knows of lost generations (`NamesInv`: none that is alive,
which stays true because the dead stay dead, and because a boot, the only way to
a new lost row, ends every handler: `DownInv`). `VerdictInv` says what each
final status implies, `killed` that the leader is dead or beyond the daemon's
reach, which stays true because a process that changed user does not come back; `TargetInv` that handlers past their lookup have a target.

Most steps touch nothing the invariant reads but one handler's place, or age a
leader. They are `Quiet`, and `QuietStep` proves the whole invariant for all of
them at once; `TaskQuiet` and `OtherQuiet` show which steps are. Each of the
others (claim, spawn, failed spawn, activation, insertion, the mark of a stop,
the three steps of an expired timeout and of a reaper, crash, boot) has a lemma
with one step per conjunct. `InvStep` puts them together.

On top of `IndInv`, `DaemonSafetyProof` adds four invariants, each inductive
relative to it: `SupervisedInv` (a row leaves running before its entry goes, so
a running row has one or is being spawned), `DeathInv` (a stop about to record
killed has seen nothing of the group that it may signal, and a group that is out
of reach stays so: members run as their parents do) and `StrangerInv`
(nothing that could signal is left of a generation whose pid was recycled), and
`ListedInv`: a status that says a process is over is written by a stop that saw
its group dead, by a reaper whose child has exited, or by a timeout, whose
escalation is then under way until the group is dead. Its theorem assumes that
SIGKILL kills, because an escalation that gives up leaves the row timed_out of a
process that runs on (`stop_race` has such groups; the property is checked by
`timeout_liveness`, which has none). The same module shows that the initial states map, and that each step of
`Daemon` is, under `IndInv`, a step of `Lifecycle` or a stutter.

**Startup.** The invariant follows a start through its calls: what a daemon
between the probe and the bind knows of the file, that a daemon which listens
is the one its file leads to, and that rows of a crashed daemon are running only
until the next boot pass of their database.

**Environment.** The layers read so far decide what has been built (`BuiltInv`),
everything built was offered (`OfferedInv`), a row tells its process's
environment until a source changes (`KeptInv`), and a restart asks for what the
row tells (`PredInv`). Two values that the same layers decide are equal.

**Listing.** That nothing of others is shown rests on pids: the pid of a running
row is its own group's or free (`PinnedInv`), and one that was freed during a
request stays free, so whoever a scan found listening is either still in its
group, and was heard there, or is found in no group later (`FoundInv`,
`MembersInv`). Both are assumptions of the model on the recycling of pids
(`Available`), as in `Daemon`. That nothing is left out is a second invariant
on top (`HeldAt`): it follows a port that is listened on throughout through the
scans, and says where each stage has it.

**Logs.** `OutputLogProof` says what a read returns, for every log, query and
number of lines. The members of a finite set of ids have ranks, so that
`InOrder` lists each once (`Ranks`, `Ordered`). A trim of n line ends leaves the
bytes that n line ends precede (`TrimOf`). `LinesAt` counts the lines that end at
or after a byte, over the pairs of a row and a place in it: the count that
`seek_tail` makes at a row splits at any byte of it (`LinesSplit`), falls from
row to row (`LinesFall`) and is 1 at the very last byte (`LastLine`). From that,
`TailBytes`: a byte is sent if and only if at most n lines end at or after it;
and `ReadsAll`: the cursor is behind every row selected, because with n > 0 the
last byte is sent, so the last row is not trimmed away, and with n = 0 the seek
starts there. A text put together from pieces has every byte of every piece at
the piece's offset plus its place (`FlattenOf`, `PlacesOf`, `PlacesOrdered`).
`LogTailProof` carries the bytes over to the reference definition, which knows a
text and no rows: the lines counted over rows are those counted over the text
(`SameCount`). The last n lines begin at the first byte at or after which at most
n lines end (`LastLinesFrom`); the rows kept are those from some row on, that
row from that byte on, and what is left of the pieces is what is left of the text
(`FlattenFrom`). The induction these need is over sets (`Upwards`): a set of
numbers that holds 0 and every successor up to m holds all of them, because the
least one missing would have a predecessor.

**Follow.** The invariant says, of a client that follows one process, that what
is printed is ascending and up to the cursor, and that every row of the process
that is due is printed or behind the cursor (`OutInv`; with `--tail` those are the
rows since the first read, which needs that the cursor is past all the older
ones). For the end: a quiet poll is counted only when the status
request saw the exit, so the read of the next poll comes after the exit and
leaves no row of the process behind the cursor (`QuietInv`, `PastExit`). The
loop ends with the third quiet poll in a row; the proof shows that the second
would do, the first would not (the mutant `ShowOnce`). A name is left out,
because `v_follow` shows that following one does skip output.

Following everything, the invariant is about the printer: what is printed are
complete lines and what is pending is none yet (`Cut`), and without `--tail` the
two together are, for each process, what the cursor has passed (`Complete`). One
chunk through the buffer keeps both (`BufferedKeeps`): the lines of a text and
its rest put together are the text (`LinesOf`), and what a list of labelled lines
holds of a process is cut where the list is (`OutputConcat`). A read is sent
every row behind the cursor (`EverythingSent`), and `PrintPrefixed` passes them
through one after the other. The printer's states are a recursive function of
how many chunks have passed, which exists for every length (`PrintsTo`), so the
read's proof is an induction with `Upwards` over the chunks (`ReadKeepsAll`).

Only model-checked: liveness under fairness, which is out of the prover's reach.

## 6. Plan

Done: the daemon with its refinement, startup, logs and follower, listing,
environment, and the proofs above. What would come next, in this order:

1. `Follow` with a mutable name, once the follower pins the generation it
   follows, and with a daemon that dies between two polls.
2. Identity tokens with their one-second resolution, and rows without one.

## 7. Not modelled

- The command line's parsing, durations, tables and JSON: stateless functions of
  text. (`run_spec` is in `Environment`, the follower's printer in `Follow`.)
- The transport: one line of JSON each way per connection. A request is
  delivered once or not at all, a response may be lost with its client, and
  neither changes the daemon's state.
- Schema migrations: one transaction of `rusqlite_migration` when the database
  is opened; `Store` models the schema that results.
- Identity tokens have a resolution of one second and rows may be older than
  tokens; processes may leave their group; macOS reads EPERM and ports in its
  own way. The models follow Linux and exact tokens.
- Memory and CPU figures of `pz resources`, and the sampler behind them.
- Exit codes, commands, messages and the syntax of keys are data no decision
  depends on; a configuration's list values are joined when it is read.
