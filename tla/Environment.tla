----------------------------- MODULE Environment -----------------------------
(***************************************************************************)
(* The environment a process is spawned with: what the client puts into a  *)
(* run request (run_spec in client/command.rs, config.rs), what the row    *)
(* keeps of it, and what the daemon makes of the request or, at a restart, *)
(* of the row (effective_env in supervisor.rs), while files and            *)
(* configurations are edited and the daemon is restarted from other        *)
(* shells.  A step is one file that is read, or one row.                   *)
(*                                                                         *)
(* One spawn is in progress at a time: spawns share nothing but the files. *)
(* Text is parsed into layers: a layer gives every key a value or Unset.   *)
(***************************************************************************)
EXTENDS Naturals, Sequences

CONSTANTS
    Keys, Values, Unset,
    Shells,     \* [vars: layer, cwd, home, xdg_config: directories, pz_config: file]
    Files,      \* the files there may be, <<directory, name>>
    Texts,      \* what an env file may hold: sequences of lines
    Configs,    \* what a configuration file may hold
    Argss,      \* the options of `pz run`: [inherit, files, env]
    None,       \* no text, no row, no spawn
    MaxId,      \* bound: the generations ever spawned
    MaxEdits    \* bound: the edits

Ids == 1 .. MaxId

Layers == [Keys -> Values \cup {Unset}]
NoVars == [k \in Keys |-> Unset]

\* A blank line or a comment, one that cannot be parsed, an assignment.
Blank == [key |-> Unset, ok |-> TRUE]
Bad == [key |-> Unset, ok |-> FALSE]
Line(k, v) == [key |-> k, ok |-> TRUE, value |-> v]

\* A configuration file that is not there, and one that cannot be parsed.
DefaultConfig == [inherit |-> FALSE, files |-> <<>>, env |-> NoVars, ok |-> TRUE]
Malformed == [DefaultConfig EXCEPT !.ok = FALSE]

-----------------------------------------------------------------------------
(* Paths as they are written: [base, name], where base is "/" (absolute),  *)
(* "." (relative) or "~" (in a configuration, relative to $HOME).          *)
(* Directories are sequences of names; a file is <<directory, name>>.      *)

\* config_path: the first variable that is set decides; PZ_CONFIG is the file.
ConfigPath(sh) ==
    CASE sh.pz_config # Unset -> sh.pz_config
      [] sh.pz_config = Unset /\ sh.xdg_config # Unset -> <<sh.xdg_config, "pz.toml">>
      [] OTHER -> <<(IF sh.home # Unset THEN sh.home ELSE sh.cwd) \o <<".config">>, "pz.toml">>

ConfigPaths == {ConfigPath(sh) : sh \in Shells}

\* expand_config_home; a relative path is relative to the configuration.
ConfigPathValue(p, sh) ==
    CASE p.base = "/" -> <<<<>>, p.name>>
      [] p.base = "~" /\ sh.home # Unset -> <<sh.home, p.name>>
      [] OTHER -> <<ConfigPath(sh)[1], p.name>>

\* A path of the command line is relative to the client's directory.
AbsolutePath(p, sh) == IF p.base = "/" THEN <<<<>>, p.name>> ELSE <<sh.cwd, p.name>>

-----------------------------------------------------------------------------
VARIABLES
    daemon,     \* the shell the daemon was started from
    text,       \* what each env file holds, None if it is not there
    config,     \* what each configuration file holds
    edits,      \* how many edits there were
    row,        \* of each generation: [inherit, files, keys] or None
    env,        \* the environment it was spawned with
    pc,         \* where the spawn in progress stands
    spec,       \* what it was asked for: [inherit, files, env]
    built,      \* the environment so far
    next,       \* the next of its files to be read
    pred,       \* the generation it restarts, 0 for none
    asker,      \* history: the shell it was asked for from, None for a restart
    dirty,      \* history: a source of it has changed since it was asked for
    stale,      \* history: the generations a source of which has changed since
    offered     \* history: the values its sources had since it was asked for

sourceVars == <<daemon, text, config, edits>>
rowVars == <<row, env>>
spawnVars == <<pc, spec, built, next, pred, asker>>
vars == <<sourceVars, rowVars, spawnVars, dirty, stale, offered>>

NoSpec == [inherit |-> FALSE, files |-> <<>>, env |-> NoVars]

\* What a file says, whatever its order; what it gives a key is the last.
Parses(t) == t # None /\ \A n \in DOMAIN t : t[n].ok

Assigns(t, k) == {n \in DOMAIN t : t[n].key = k}

Last(S) == CHOOSE n \in S : \A m \in S : m <= n

Layer(t) == [k \in Keys |-> IF Assigns(t, k) = {} THEN Unset ELSE t[Last(Assigns(t, k))].value]

\* Layer u is laid over layer v: BTreeMap::insert of each of its keys.
Over(u, v) == [k \in Keys |-> IF u[k] # Unset THEN u[k] ELSE v[k]]

ConfigFile == ConfigPath(daemon)

\* The layers of a spawn as its sources are now, the lowest first.
LayersOf(s) ==
    [n \in 1 .. Len(s.files) + 3 |->
        CASE n = 1 -> IF s.inherit THEN daemon.vars ELSE NoVars
          [] n = Len(s.files) + 2 -> config[ConfigFile].env
          [] n = Len(s.files) + 3 -> s.env
          [] OTHER -> LET t == text[s.files[n - 1]] IN IF Parses(t) THEN Layer(t) ELSE NoVars]

Offers(s) == {<<k, LayersOf(s)[n][k]>> : k \in Keys, n \in 1 .. Len(s.files) + 3}

\* Bound: edits make the files, and the configurations, differ.
Init ==
    /\ daemon \in Shells
    /\ \E t \in Texts \cup {None} : text = [f \in Files |-> t]
    /\ \E c \in Configs : config = [p \in ConfigPaths |-> c]
    /\ edits = 0
    /\ row = [i \in Ids |-> None]
    /\ env = [i \in Ids |-> NoVars]
    /\ pc = "idle" /\ spec = NoSpec /\ built = NoVars /\ next = 1 /\ pred = 0
    /\ asker = None
    /\ dirty = FALSE /\ stale = {} /\ offered = {}

-----------------------------------------------------------------------------
(* The client *)

\* run_spec: the configuration's files come first.
RunSpec(args, sh, c) ==
    [inherit |-> c.inherit \/ args.inherit,
     files |-> [n \in DOMAIN c.files |-> ConfigPathValue(c.files[n], sh)]
                 \o [n \in DOMAIN args.files |-> AbsolutePath(args.files[n], sh)],
     env |-> args.env]

\* Bound: ids are left.
MaySpawn == pc = "idle" /\ row[MaxId] = None

Ask(s, i, sh) ==
    /\ pc' = "env" /\ spec' = s /\ built' = NoVars /\ next' = 1 /\ pred' = i /\ asker' = sh
    /\ dirty' = FALSE
    /\ offered' = Offers(s)
    /\ UNCHANGED <<sourceVars, rowVars, stale>>

Run(sh, args) ==
    /\ MaySpawn
    /\ config[ConfigPath(sh)].ok
    /\ Ask(RunSpec(args, sh, config[ConfigPath(sh)]), 0, sh)

\* What a row keeps of a request: not the inline values.
AsSpec(r) == [inherit |-> r.inherit, files |-> r.files, env |-> NoVars]

\* Mutant of Restart: that inline values were not stored is ignored.
RestartAnyway(i) ==
    /\ MaySpawn
    /\ row[i] # None
    /\ Ask(AsSpec(row[i]), i, None)

\* restart_spec: what the row keeps is all there is.
Restart(i) ==
    /\ MaySpawn
    /\ row[i] # None
    /\ row[i].keys = {}
    /\ Ask(AsSpec(row[i]), i, None)

\* Every path that can be asked for is among Files.
ASSUME EnvironmentAssumption ==
    \A sh \in Shells, args \in Argss, c \in Configs : RunSpec(args, sh, c).files \in Seq(Files)

-----------------------------------------------------------------------------
(* effective_env *)

Quiet == UNCHANGED <<sourceVars, rowVars, spec, pred, asker, dirty, stale, offered>>

Fails ==
    /\ pc' = "idle" /\ spec' = NoSpec /\ built' = NoVars /\ next' = 1 /\ pred' = 0
    /\ asker' = None
    /\ dirty' = FALSE /\ offered' = {}
    /\ UNCHANGED <<sourceVars, rowVars, stale>>

\* Mutant of Inherit: the environment is not cleared.
InheritAlways ==
    /\ pc = "env"
    /\ built' = daemon.vars
    /\ pc' = "files"
    /\ UNCHANGED next
    /\ Quiet

\* What is inherited is the daemon's environment.
Inherit ==
    /\ pc = "env"
    /\ built' = IF spec.inherit THEN daemon.vars ELSE NoVars
    /\ pc' = "files"
    /\ UNCHANGED next
    /\ Quiet

ReadEnvFile ==
    /\ pc = "files" /\ next <= Len(spec.files)
    /\ LET t == text[spec.files[next]] IN
       \/ ~Parses(t) /\ Fails
       \/ /\ Parses(t)
          /\ built' = Over(Layer(t), built)
          /\ next' = next + 1
          /\ UNCHANGED pc
          /\ Quiet

\* Mutant of LoadConfig: the configuration gives defaults.
LoadDefaults ==
    /\ pc = "files" /\ next > Len(spec.files)
    /\ \/ ~config[ConfigFile].ok /\ Fails
       \/ /\ config[ConfigFile].ok
          /\ built' = Over(built, config[ConfigFile].env)
          /\ pc' = "spawn"
          /\ UNCHANGED next
          /\ Quiet

\* The daemon loads its own configuration, whichever the client's was.
LoadConfig ==
    /\ pc = "files" /\ next > Len(spec.files)
    /\ \/ ~config[ConfigFile].ok /\ Fails
       \/ /\ config[ConfigFile].ok
          /\ built' = Over(config[ConfigFile].env, built)
          /\ pc' = "spawn"
          /\ UNCHANGED next
          /\ Quiet

\* The row keeps the keys of inline variables, not their values.
Spawn(i) ==
    /\ pc = "spawn"
    /\ row[i] = None /\ \A j \in Ids : j < i => row[j] # None
    /\ row' = [row EXCEPT ![i] = [inherit |-> spec.inherit, files |-> spec.files,
                                  keys |-> {k \in Keys : spec.env[k] # Unset}]]
    /\ env' = [env EXCEPT ![i] = Over(spec.env, built)]
    /\ stale' = IF dirty THEN stale \cup {i} ELSE stale
    /\ pc' = "idle" /\ spec' = NoSpec /\ built' = NoVars /\ next' = 1 /\ pred' = 0
    /\ asker' = None
    /\ dirty' = FALSE /\ offered' = {}
    /\ UNCHANGED sourceVars

SpawnStep == Inherit \/ ReadEnvFile \/ LoadConfig \/ \E i \in Ids : Spawn(i)

-----------------------------------------------------------------------------
(* The sources change *)

InFiles(s, f) == \E n \in DOMAIN s.files : s.files[n] = f

\* What depends on what has changed: the spawn in progress if `mine`, and
\* the generations of S.
Changed(mine, S) ==
    /\ edits < MaxEdits
    /\ edits' = edits + 1
    /\ dirty' = (dirty \/ (pc # "idle" /\ mine))
    /\ stale' = stale \cup {i \in S : row[i] # None}
    /\ UNCHANGED <<rowVars, spawnVars>>
    /\ offered' = IF pc = "idle" THEN {} ELSE offered \cup Offers(spec)'

EditFile(f, t) ==
    /\ text[f] # t
    /\ text' = [text EXCEPT ![f] = t]
    /\ UNCHANGED <<daemon, config>>
    /\ Changed(InFiles(spec, f), {i \in Ids : row[i] # None /\ InFiles(row[i], f)})

EditConfig(p, c) ==
    /\ config[p] # c
    /\ config' = [config EXCEPT ![p] = c]
    /\ UNCHANGED <<daemon, text>>
    /\ Changed(p = ConfigFile, IF p = ConfigFile THEN Ids ELSE {})

\* A daemon started from another shell: a spawn in progress is gone.
RestartDaemon(sh) ==
    /\ sh # daemon
    /\ pc = "idle"
    /\ daemon' = sh
    /\ UNCHANGED <<text, config>>
    /\ Changed(FALSE, {i \in Ids : row[i] # None
                                 /\ (row[i].inherit \/ ConfigPath(sh) # ConfigFile)})

Next ==
    \/ \E sh \in Shells : RestartDaemon(sh) \/ \E args \in Argss : Run(sh, args)
    \/ \E i \in Ids : Restart(i)
    \/ SpawnStep
    \/ \E f \in Files, t \in Texts \cup {None} : EditFile(f, t)
    \/ \E p \in ConfigPaths, c \in Configs : EditConfig(p, c)

Spec == Init /\ [][Next]_vars

-----------------------------------------------------------------------------
(* Properties *)

\* Of the lowest `top` layers, v is what the last of those that set k says.
Decides(s, top, k, v) ==
    \/ v = Unset /\ \A n \in 1 .. top : LayersOf(s)[n][k] = Unset
    \/ v # Unset /\ \E n \in 1 .. top :
          /\ LayersOf(s)[n][k] = v
          /\ \A m \in n + 1 .. top : LayersOf(s)[m][k] = Unset

\* "Inherit the CLI environment" (cli.rs): where no higher layer sets a key,
\* e has what the shell it was asked for from has.  Excepted is a daemon that
\* another shell started, for there the code departs from the documentation:
\* it inherits that shell's, the daemon's, environment.
InheritsCli(e) ==
    spec.inherit /\ asker = daemon =>
        \A k \in Keys : (\A n \in 2 .. Len(spec.files) + 3 : LayersOf(spec)[n][k] = Unset)
                          => e[k] = asker.vars[k]

\* A process whose sources did not change while it was spawned has the
\* environment that the last layer to set a key decides: what is inherited,
\* the files in their order, the configuration, --env; all of its files could
\* be read, and what it inherits is the CLI's, if the daemon was started from
\* the same shell.
EnvIsDecided ==
    [][\A i \in Ids : row[i] = None /\ row'[i] # None /\ ~dirty =>
          /\ \A k \in Keys : Decides(spec, Len(spec.files) + 3, k, env'[i][k])
          /\ \A n \in DOMAIN spec.files : Parses(text[spec.files[n]])
          /\ InheritsCli(env'[i])]_vars

\* "Processes start with an empty environment unless the user passes
\* --inherit-env, --env-file, or --env, or defines default env vars"
\* (DESIGN.md): whatever is edited meanwhile, every variable of a process
\* had its value in one of the sources it was asked for.
NothingElse ==
    [][\A i \in Ids : row[i] = None /\ row'[i] # None =>
          \A k \in Keys : env'[i][k] # Unset => <<k, env'[i][k]>> \in offered]_vars

\* A restart reproduces the environment of the process it restarts, unless
\* one of the sources has changed: inline values, which nothing keeps, make
\* a process unrestartable (DESIGN.md).
RestartReproduces ==
    [][\A i \in Ids : row[i] = None /\ row'[i] # None /\ pred # 0 =>
          pred \in stale \/ dirty \/ env'[i] = env[pred]]_vars
=============================================================================
