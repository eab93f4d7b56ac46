-------------------------- MODULE EnvironmentProof --------------------------
(***************************************************************************)
(* Proofs about Environment, for every set of keys, files, texts,          *)
(* configurations and shells: what a process is spawned with is decided by *)
(* the layers of its sources, and a restart decides the same.              *)
(***************************************************************************)
EXTENDS Environment, TLAPS

TypeInv ==
    /\ daemon \in Shells
    /\ DOMAIN text = Files
    /\ DOMAIN config = ConfigPaths
    /\ \A p \in ConfigPaths : config[p] \in Configs
    /\ DOMAIN row = Ids /\ DOMAIN env = Ids
    /\ \A i \in Ids : row[i] # None => row[i].files \in Seq(Files)
    /\ \A i \in Ids : env[i] = [k \in Keys |-> env[i][k]]
    /\ pc \in {"idle", "env", "files", "spawn"}
    /\ spec = [inherit |-> spec.inherit, files |-> spec.files, env |-> spec.env]
    /\ spec.files \in Seq(Files)
    /\ next \in Nat \ {0}
    /\ pc = "env" => next = 1
    /\ pc = "files" => next <= Len(spec.files) + 1
    /\ pred \in Ids \cup {0}
    /\ stale \subseteq Ids

\* What has been built is decided by the layers read so far.
BuiltInv ==
    /\ pc = "files" /\ ~dirty =>
         /\ \A k \in Keys : Decides(spec, next, k, built[k])
         /\ \A n \in 1 .. next - 1 : Parses(text[spec.files[n]])
    /\ pc = "spawn" /\ ~dirty =>
         /\ \A k \in Keys : Decides(spec, Len(spec.files) + 2, k, built[k])
         /\ \A n \in 1 .. Len(spec.files) : Parses(text[spec.files[n]])

\* What has been built was offered.
OfferedInv ==
    pc # "idle" =>
        /\ Offers(spec) \subseteq offered
        /\ pc = "env" => built = NoVars
        /\ \A k \in Keys : built[k] # Unset => <<k, built[k]>> \in offered

\* A row tells the environment of its process, until a source changes.
KeptInv ==
    \A i \in Ids : row[i] # None /\ row[i].keys = {} /\ i \notin stale =>
        \A k \in Keys : Decides(AsSpec(row[i]), Len(row[i].files) + 3, k, env[i][k])

\* A restart asks for what the row tells.
PredInv ==
    pc # "idle" /\ pred # 0 =>
        row[pred] # None /\ row[pred].keys = {} /\ spec = AsSpec(row[pred])

Inv == TypeInv /\ BuiltInv /\ OfferedInv /\ KeptInv /\ PredInv

-----------------------------------------------------------------------------
(* Layers *)

\* Where each layer stands.
LEMMA LayerAt ==
    ASSUME NEW s, s.files \in Seq(Files)
    PROVE  /\ Len(s.files) \in Nat
           /\ DOMAIN s.files = 1 .. Len(s.files)
           /\ LayersOf(s)[1] = IF s.inherit THEN daemon.vars ELSE NoVars
           /\ \A n \in 1 .. Len(s.files) :
                LayersOf(s)[n + 1] = IF Parses(text[s.files[n]]) THEN Layer(text[s.files[n]]) ELSE NoVars
           /\ LayersOf(s)[Len(s.files) + 2] = config[ConfigFile].env
           /\ LayersOf(s)[Len(s.files) + 3] = s.env
  BY DEF LayersOf

\* The first layer decides alone.
LEMMA First ==
    ASSUME NEW s, NEW k \in Keys, s.files \in Seq(Files)
    PROVE  Decides(s, 1, k, LayersOf(s)[1][k])
  BY DEF Decides

\* A layer that is laid over the others decides where it sets a key.
LEMMA Overlay ==
    ASSUME NEW s, NEW top \in Nat, NEW k \in Keys, NEW u, NEW v,
           Decides(s, top, k, v[k]), LayersOf(s)[top + 1][k] = u[k]
    PROVE  Decides(s, top + 1, k, Over(u, v)[k])
<1>1. CASE u[k] = Unset
  <2>1. Over(u, v)[k] = v[k]
    BY <1>1 DEF Over
  <2>2. CASE v[k] = Unset
    BY <1>1, <2>1, <2>2 DEF Decides
  <2>3. CASE v[k] # Unset
    <3>1. PICK n \in 1 .. top : LayersOf(s)[n][k] = v[k]
                                /\ \A m \in n + 1 .. top : LayersOf(s)[m][k] = Unset
      BY <2>3 DEF Decides
    <3>2. \A m \in n + 1 .. top + 1 : LayersOf(s)[m][k] = Unset
      BY <1>1, <3>1
    <3> QED
      BY <2>1, <2>3, <3>1, <3>2 DEF Decides
  <2> QED
    BY <2>2, <2>3
<1>2. CASE u[k] # Unset
  <2>1. Over(u, v)[k] = u[k]
    BY <1>2 DEF Over
  <2> QED
    BY <1>2, <2>1 DEF Decides
<1> QED
  BY <1>1, <1>2

\* The layers decide on one value.
LEMMA Unique ==
    ASSUME NEW s, NEW top \in Nat, NEW k, NEW v, NEW w, Decides(s, top, k, v), Decides(s, top, k, w)
    PROVE  v = w
<1>1. CASE v = Unset \/ w = Unset
  BY <1>1 DEF Decides
<1>2. CASE v # Unset /\ w # Unset
  <2>1. PICK n \in 1 .. top : LayersOf(s)[n][k] = v /\ \A o \in n + 1 .. top : LayersOf(s)[o][k] = Unset
    BY <1>2 DEF Decides
  <2>2. PICK m \in 1 .. top : LayersOf(s)[m][k] = w /\ \A o \in m + 1 .. top : LayersOf(s)[o][k] = Unset
    BY <1>2 DEF Decides
  <2>3. ~(n < m) /\ ~(m < n)
    BY <1>2, <2>1, <2>2
  <2> QED
    BY <2>1, <2>2, <2>3
<1> QED
  BY <1>1, <1>2

\* What the layers decide on is offered.
LEMMA LayerOffered ==
    ASSUME NEW s, NEW n \in 1 .. Len(s.files) + 3, NEW k \in Keys
    PROVE  <<k, LayersOf(s)[n][k]>> \in Offers(s)
  BY DEF Offers

-----------------------------------------------------------------------------
(* The types *)

LEMMA TypeStep == TypeInv /\ [Next]_vars => TypeInv'
<1> SUFFICES ASSUME TypeInv, [Next]_vars PROVE TypeInv'
  OBVIOUS
<1> USE DEF TypeInv, sourceVars, rowVars, spawnVars
<1>0. Len(spec.files) \in Nat /\ <<>> \in Seq(Files)
  OBVIOUS
<1>1. ASSUME NEW sh \in Shells, NEW args \in Argss, Run(sh, args) PROVE TypeInv'
  <2>1. ConfigPath(sh) \in ConfigPaths
    BY DEF ConfigPaths
  <2>2. spec'.files \in Seq(Files)
    BY <1>1, <2>1, EnvironmentAssumption DEF Run, Ask
  <2>3. spec' = [inherit |-> spec'.inherit, files |-> spec'.files, env |-> spec'.env]
    BY <1>1 DEF Run, Ask, RunSpec
  <2>4. /\ UNCHANGED <<daemon, text, config, row, env, stale>>
        /\ pc' = "env" /\ next' = 1 /\ pred' = 0
    BY <1>1 DEF Run, Ask
  <2>5. ConfigPaths' = ConfigPaths
    BY DEF ConfigPaths
  <2> QED
    BY <2>2, <2>3, <2>4
<1>2. ASSUME NEW i \in Ids, Restart(i) PROVE TypeInv'
  <2>1. /\ spec'.files \in Seq(Files)
        /\ spec' = [inherit |-> spec'.inherit, files |-> spec'.files, env |-> spec'.env]
    BY <1>2 DEF Restart, Ask, AsSpec
  <2> QED
    BY <1>2, <2>1 DEF Restart, Ask
<1>3. ASSUME Fails PROVE TypeInv'
  BY <1>0, <1>3 DEF Fails, NoSpec
<1>4. CASE Inherit
  BY <1>0, <1>4 DEF Inherit, Quiet
<1>5. CASE ReadEnvFile
  <2>1. CASE Fails
    BY <1>3, <2>1
  <2>2. CASE Quiet /\ next' = next + 1 /\ UNCHANGED pc
    BY <1>0, <1>5, <2>2 DEF ReadEnvFile, Quiet
  <2> QED
    BY <1>5, <2>1, <2>2 DEF ReadEnvFile
<1>6. CASE LoadConfig
  BY <1>0, <1>3, <1>6 DEF LoadConfig, Quiet
<1>7. ASSUME NEW i \in Ids, Spawn(i) PROVE TypeInv'
  <2>1. \A j \in Ids : row'[j] # None => row'[j].files \in Seq(Files)
    BY <1>7 DEF Spawn
  <2>2. \A j \in Ids : env'[j] = [k \in Keys |-> env'[j][k]]
    BY <1>7 DEF Spawn, Over
  <2> QED
    BY <1>0, <1>7, <2>1, <2>2 DEF Spawn, NoSpec
<1>8. ASSUME NEW f \in Files, NEW t, EditFile(f, t) PROVE TypeInv'
  BY <1>8 DEF EditFile, Changed
<1>9. ASSUME NEW p \in ConfigPaths, NEW c \in Configs, EditConfig(p, c) PROVE TypeInv'
  BY <1>9 DEF EditConfig, Changed
<1>10. ASSUME NEW sh \in Shells, RestartDaemon(sh) PROVE TypeInv'
  BY <1>10 DEF RestartDaemon, Changed
<1>11. CASE UNCHANGED vars
  BY <1>11 DEF vars
<1> QED
  BY <1>1, <1>2, <1>4, <1>5, <1>6, <1>7, <1>8, <1>9, <1>10, <1>11 DEF Next, SpawnStep

-----------------------------------------------------------------------------
(* What a spawn has built *)

\* The layers of a request are the same when neither it nor any of its
\* sources has changed.
LEMMA SameLayers ==
    ASSUME TypeInv, NEW s, s.files \in Seq(Files),
           UNCHANGED daemon, config'[ConfigFile] = config[ConfigFile],
           \A n \in DOMAIN s.files : text'[s.files[n]] = text[s.files[n]]
    PROVE  LayersOf(s)' = LayersOf(s)
<1>1. ConfigFile' = ConfigFile
  BY DEF ConfigFile
<1>2. Len(s.files) \in Nat /\ DOMAIN s.files = 1 .. Len(s.files)
  OBVIOUS
<1>3. \A n \in 1 .. Len(s.files) + 3 : LayersOf(s)'[n] = LayersOf(s)[n]
  <2> TAKE n \in 1 .. Len(s.files) + 3
  <2>1. CASE n = 1 \/ n = Len(s.files) + 2 \/ n = Len(s.files) + 3
    BY <1>1, <1>2, <2>1 DEF LayersOf
  <2>2. CASE n \in 2 .. Len(s.files) + 1
    <3>1. n - 1 \in DOMAIN s.files
      BY <1>2, <2>2
    <3> QED
      BY <1>2, <2>2, <3>1 DEF LayersOf
  <2> QED
    BY <1>2, <2>1, <2>2
<1> QED
  BY <1>3 DEF LayersOf

LEMMA SpecLayers ==
    ASSUME TypeInv, UNCHANGED <<daemon, spec>>, config'[ConfigFile] = config[ConfigFile],
           \A n \in DOMAIN spec.files : text'[spec.files[n]] = text[spec.files[n]]
    PROVE  LayersOf(spec)' = LayersOf(spec)
<1>1. PICK s : s = spec
  OBVIOUS
<1>2. s.files \in Seq(Files)
  BY <1>1 DEF TypeInv
<1>3. LayersOf(s)' = LayersOf(s)
  BY <1>1, <1>2, SameLayers
<1>4. LayersOf(spec)' = LayersOf(s)' /\ LayersOf(spec) = LayersOf(s)
  BY <1>1 DEF LayersOf
<1> QED
  BY <1>3, <1>4

\* A step of effective_env changes no source.
LEMMA QuietLayers ==
    ASSUME TypeInv, Quiet
    PROVE  LayersOf(spec)' = LayersOf(spec)
  BY SpecLayers DEF Quiet, sourceVars, rowVars

\* The same for an edit that does not make the spawn dirty.
LEMMA EditLayers ==
    ASSUME TypeInv, pc # "idle", ~dirty',
           \/ \E f \in Files, t \in Texts \cup {None} : EditFile(f, t)
           \/ \E p \in ConfigPaths, c \in Configs : EditConfig(p, c)
    PROVE  /\ LayersOf(spec)' = LayersOf(spec)
           /\ \A n \in DOMAIN spec.files : text'[spec.files[n]] = text[spec.files[n]]
           /\ ~dirty
<1> USE DEF Changed, spawnVars
<1>1. ASSUME NEW f \in Files, NEW t, EditFile(f, t)
      PROVE  LayersOf(spec)' = LayersOf(spec) /\ ~dirty
             /\ \A n \in DOMAIN spec.files : text'[spec.files[n]] = text[spec.files[n]]
  <2>1. ~InFiles(spec, f) /\ ~dirty /\ UNCHANGED <<daemon, config, spec>>
    BY <1>1 DEF EditFile
  <2>2. \A n \in DOMAIN spec.files : text'[spec.files[n]] = text[spec.files[n]]
    BY <1>1, <2>1 DEF EditFile, InFiles, TypeInv
  <2> QED
    BY <2>1, <2>2, SpecLayers
<1>2. ASSUME NEW p \in ConfigPaths, NEW c, EditConfig(p, c)
      PROVE  LayersOf(spec)' = LayersOf(spec) /\ ~dirty
             /\ \A n \in DOMAIN spec.files : text'[spec.files[n]] = text[spec.files[n]]
  <2>1. p # ConfigFile /\ ~dirty /\ UNCHANGED <<daemon, text, spec>>
    BY <1>2 DEF EditConfig
  <2>2. config'[ConfigFile] = config[ConfigFile]
    BY <1>2, <2>1 DEF EditConfig, TypeInv, ConfigFile, ConfigPaths
  <2> QED
    BY <2>1, <2>2, SpecLayers
<1> QED
  BY <1>1, <1>2

LEMMA BuiltStep == TypeInv /\ BuiltInv /\ OfferedInv /\ [Next]_vars => BuiltInv'
<1> SUFFICES ASSUME TypeInv, BuiltInv, OfferedInv, [Next]_vars PROVE BuiltInv'
  OBVIOUS
<1>0. spec.files \in Seq(Files) /\ Len(spec.files) \in Nat /\ next \in Nat
  BY DEF TypeInv
<1> USE DEF BuiltInv
<1>1. CASE pc' \in {"idle", "env"}
  BY <1>1
<1>2. CASE Inherit
  <2>1. \A k \in Keys : built'[k] = LayersOf(spec)[1][k]
    BY <1>0, <1>2, LayerAt DEF Inherit
  <2>2. \A k \in Keys : Decides(spec, 1, k, built'[k])
    BY <1>0, <2>1, First
  <2>3. next = 1 /\ next' = 1 /\ pc' = "files"
    BY <1>2 DEF Inherit, TypeInv
  <2>4. LayersOf(spec)' = LayersOf(spec)
    BY <1>2, QuietLayers DEF Inherit
  <2> QED
    BY <2>2, <2>3, <2>4 DEF Decides
<1>3. CASE ReadEnvFile /\ ~Fails
  <2> DEFINE t == text[spec.files[next]]
  <2>1. /\ pc = "files" /\ pc' = "files" /\ next <= Len(spec.files) /\ next' = next + 1
        /\ Parses(t) /\ built' = Over(Layer(t), built) /\ Quiet
    BY <1>3 DEF ReadEnvFile
  <2>2. LayersOf(spec)' = LayersOf(spec) /\ UNCHANGED <<text, spec, dirty>>
    BY <2>1, QuietLayers DEF Quiet, sourceVars
  <2>3. ASSUME ~dirty, NEW k \in Keys PROVE Decides(spec, next + 1, k, built'[k])
    <3>1. LayersOf(spec)[next + 1][k] = Layer(t)[k]
      BY <1>0, <2>1, LayerAt DEF TypeInv
    <3>2. Decides(spec, next, k, built[k])
      BY <2>1, <2>3
    <3> QED
      BY <1>0, <2>1, <3>1, <3>2, Overlay
  <2>4. ~dirty => \A n \in 1 .. next' - 1 : Parses(text[spec.files[n]])
    BY <1>0, <2>1
  <2>5. ~dirty' => \A n \in 1 .. next' - 1 : Parses(text[spec.files[n]])'
    BY <2>2, <2>4 DEF Parses
  <2> QED
    BY <2>1, <2>2, <2>3, <2>5 DEF Decides
<1>4. CASE LoadConfig /\ ~Fails
  <2>1. /\ pc = "files" /\ pc' = "spawn" /\ next > Len(spec.files)
        /\ built' = Over(config[ConfigFile].env, built) /\ Quiet
    BY <1>4 DEF LoadConfig
  <2>2. LayersOf(spec)' = LayersOf(spec) /\ UNCHANGED <<text, spec, dirty>>
    BY <2>1, QuietLayers DEF Quiet, sourceVars
  <2>3. next = Len(spec.files) + 1
    BY <1>0, <2>1 DEF TypeInv
  <2>4. ASSUME ~dirty, NEW k \in Keys PROVE Decides(spec, Len(spec.files) + 2, k, built'[k])
    <3>1. LayersOf(spec)[next + 1][k] = config[ConfigFile].env[k]
      BY <1>0, <2>3, LayerAt
    <3>2. Decides(spec, next, k, built[k])
      BY <2>1, <2>4
    <3>3. Decides(spec, next + 1, k, built'[k])
      BY <1>0, <2>1, <3>1, <3>2, Overlay
    <3> QED
      BY <1>0, <2>3, <3>3
  <2>5. ~dirty => \A n \in 1 .. Len(spec.files) : Parses(text[spec.files[n]])
    BY <1>0, <2>1, <2>3
  <2>6. ~dirty' => \A n \in 1 .. Len(spec.files) : Parses(text[spec.files[n]])'
    BY <2>2, <2>5 DEF Parses
  <2> QED
    BY <2>1, <2>2, <2>4, <2>6 DEF Decides
<1>5. CASE /\ pc # "idle" /\ ~dirty'
           /\ \/ \E f \in Files, t \in Texts \cup {None} : EditFile(f, t)
              \/ \E p \in ConfigPaths, c \in Configs : EditConfig(p, c)
  <2>1. /\ LayersOf(spec)' = LayersOf(spec) /\ ~dirty
        /\ \A n \in DOMAIN spec.files : text'[spec.files[n]] = text[spec.files[n]]
    BY <1>5, EditLayers
  <2>2. UNCHANGED <<pc, spec, built, next>>
    BY <1>5 DEF EditFile, EditConfig, Changed, spawnVars
  <2>3. \A n \in DOMAIN spec.files : Parses(text[spec.files[n]]) => Parses(text[spec.files[n]])'
    BY <2>1, <2>2 DEF Parses
  <2>4. pc = "files" => \A n \in 1 .. next - 1 : n \in DOMAIN spec.files
    BY <1>0 DEF TypeInv
  <2> QED
    BY <1>0, <2>1, <2>2, <2>3, <2>4 DEF Decides
<1>6. CASE UNCHANGED vars
  <2>1. UNCHANGED <<daemon, text, config, pc, spec, built, next, dirty>>
    BY <1>6 DEF vars, spawnVars, sourceVars
  <2>2. LayersOf(spec)' = LayersOf(spec)
    BY <2>1, SpecLayers
  <2>3. \A top, k, v : Decides(spec, top, k, v)' <=> Decides(spec, top, k, v)
    BY <2>2 DEF Decides
  <2>4. \A n : Parses(text[spec.files[n]])' <=> Parses(text[spec.files[n]])
    BY <2>1 DEF Parses
  <2> QED
    BY <2>1, <2>3, <2>4
<1> QED
  <2>1. CASE \E sh \in Shells : RestartDaemon(sh) \/ \E args \in Argss : Run(sh, args)
    BY <1>1, <2>1 DEF RestartDaemon, Changed, spawnVars, Run, Ask
  <2>2. CASE (\E i \in Ids : Restart(i) \/ Spawn(i)) \/ Fails
    BY <1>1, <2>2 DEF Restart, Ask, Spawn, Fails
  <2>3. CASE /\ pc = "idle" \/ dirty'
             /\ \/ \E f \in Files, t \in Texts \cup {None} : EditFile(f, t)
                \/ \E p \in ConfigPaths, c \in Configs : EditConfig(p, c)
    BY <2>3 DEF EditFile, EditConfig, Changed, spawnVars
  <2> QED
    BY <1>2, <2>1, <2>2, <2>3, <1>3, <1>4, <1>5, <1>6 DEF Next, SpawnStep

-----------------------------------------------------------------------------
(* What a spawn was offered *)

LEMMA OfferedStep == TypeInv /\ OfferedInv /\ [Next]_vars => OfferedInv'
<1> SUFFICES ASSUME TypeInv, OfferedInv, [Next]_vars PROVE OfferedInv'
  OBVIOUS
<1>0. spec.files \in Seq(Files) /\ Len(spec.files) \in Nat /\ next \in Nat
  BY DEF TypeInv
<1> USE DEF OfferedInv
<1>1. CASE pc' = "idle"
  BY <1>1
<1>2. ASSUME NEW s, NEW i, NEW sh, Ask(s, i, sh) PROVE OfferedInv'
  <2>1. /\ UNCHANGED <<daemon, text, config>> /\ spec' = s
        /\ offered' = Offers(s) /\ built' = NoVars
    BY <1>2 DEF Ask, sourceVars
  <2>2. LayersOf(spec)' = LayersOf(s)
    BY <2>1 DEF LayersOf, ConfigFile
  <2>3. Offers(spec)' = Offers(s)
    BY <2>1, <2>2 DEF Offers
  <2> QED
    BY <2>1, <2>3 DEF NoVars
\* A step that puts a layer over what has been built.
<1>3. ASSUME Quiet, pc # "idle", pc' # "env", NEW n \in 1 .. Len(spec.files) + 3,
             \A k \in Keys : built'[k] # Unset => built'[k] \in {built[k], LayersOf(spec)[n][k]}
      PROVE  OfferedInv'
  <2>1. Offers(spec)' = Offers(spec) /\ offered' = offered
    BY <1>3, QuietLayers DEF Offers, Quiet
  <2>2. \A k \in Keys : built'[k] # Unset => <<k, built'[k]>> \in offered
    BY <1>3, LayerOffered
  <2> QED
    BY <1>3, <2>1, <2>2
<1>4. CASE Inherit
  <2>1. \A k \in Keys : built'[k] = LayersOf(spec)[1][k]
    BY <1>0, <1>4, LayerAt DEF Inherit
  <2>2. 1 \in 1 .. Len(spec.files) + 3 /\ Quiet /\ pc # "idle" /\ pc' # "env"
    BY <1>0, <1>4 DEF Inherit
  <2> QED
    BY <1>3, <2>1, <2>2
<1>5. CASE ReadEnvFile /\ ~Fails
  <2> DEFINE t == text[spec.files[next]]
  <2>1. /\ next <= Len(spec.files) /\ Parses(t) /\ built' = Over(Layer(t), built)
        /\ Quiet /\ pc # "idle" /\ pc' # "env"
    BY <1>5 DEF ReadEnvFile
  <2>2. next + 1 \in 1 .. Len(spec.files) + 3 /\ LayersOf(spec)[next + 1] = Layer(t)
    BY <1>0, <2>1, LayerAt DEF TypeInv
  <2>3. \A k \in Keys : built'[k] \in {built[k], Layer(t)[k]}
    BY <2>1 DEF Over
  <2> HIDE DEF t
  <2> QED
    BY <1>3, <2>1, <2>2, <2>3
<1>6. CASE LoadConfig /\ ~Fails
  <2>1. /\ built' = Over(config[ConfigFile].env, built)
        /\ Quiet /\ pc # "idle" /\ pc' # "env"
    BY <1>6 DEF LoadConfig
  <2>2. Len(spec.files) + 2 \in 1 .. Len(spec.files) + 3
        /\ LayersOf(spec)[Len(spec.files) + 2] = config[ConfigFile].env
    BY <1>0, LayerAt
  <2>3. \A k \in Keys : built'[k] \in {built[k], config[ConfigFile].env[k]}
    BY <2>1 DEF Over
  <2> QED
    BY <1>3, <2>1, <2>2, <2>3
<1>7. ASSUME NEW S, NEW mine, Changed(mine, S) PROVE OfferedInv'
  <2>1. /\ UNCHANGED <<pc, spec, built>>
        /\ pc # "idle" => offered' = offered \cup Offers(spec)'
    BY <1>7 DEF Changed, spawnVars
  <2> QED
    BY <2>1
<1>8. CASE UNCHANGED vars
  <2>1. UNCHANGED <<daemon, text, config, pc, spec, built, offered>>
    BY <1>8 DEF vars, spawnVars, sourceVars
  <2>2. Offers(spec)' = Offers(spec)
    BY <2>1, SpecLayers DEF Offers
  <2> QED
    BY <2>1, <2>2
<1> QED
  <2>1. CASE \E sh \in Shells : RestartDaemon(sh) \/ \E args \in Argss : Run(sh, args)
    BY <1>2, <1>7, <2>1 DEF RestartDaemon, Run
  <2>2. CASE (\E i \in Ids : Restart(i) \/ Spawn(i)) \/ Fails
    BY <1>1, <1>2, <2>2 DEF Restart, Spawn, Fails
  <2>3. CASE \/ \E f \in Files, t \in Texts \cup {None} : EditFile(f, t)
             \/ \E p \in ConfigPaths, c \in Configs : EditConfig(p, c)
    BY <1>7, <2>3 DEF EditFile, EditConfig
  <2> QED
    BY <1>4, <1>5, <1>6, <1>8, <2>1, <2>2, <2>3 DEF Next, SpawnStep

-----------------------------------------------------------------------------
(* What the rows tell *)

LEMMA PredStep == TypeInv /\ PredInv /\ [Next]_vars => PredInv'
<1> SUFFICES ASSUME TypeInv, PredInv, [Next]_vars PROVE PredInv'
  OBVIOUS
<1> USE DEF PredInv
<1>1. CASE pc' = "idle" \/ pred' = 0
  BY <1>1
<1>2. ASSUME NEW i \in Ids, Restart(i) PROVE PredInv'
  BY <1>2 DEF Restart, Ask, rowVars
<1>3. CASE UNCHANGED <<spec, pred, row>> /\ (pc' # "idle" => pc # "idle")
  BY <1>3 DEF AsSpec, NoVars
<1> QED
  <2>1. CASE \E sh \in Shells : RestartDaemon(sh) \/ \E args \in Argss : Run(sh, args)
    BY <1>1, <1>3, <2>1 DEF RestartDaemon, Changed, rowVars, spawnVars, Run, Ask
  <2>2. CASE (\E i \in Ids : Restart(i) \/ Spawn(i)) \/ Fails
    BY <1>1, <1>2, <2>2 DEF Spawn, Fails
  <2>3. CASE \/ \E f \in Files, t \in Texts \cup {None} : EditFile(f, t)
             \/ \E p \in ConfigPaths, c \in Configs : EditConfig(p, c)
    BY <1>3, <2>3 DEF EditFile, EditConfig, Changed, rowVars, spawnVars
  <2>4. CASE Inherit \/ ((ReadEnvFile \/ LoadConfig) /\ ~Fails) \/ UNCHANGED vars
    BY <1>3, <2>4 DEF Inherit, ReadEnvFile, LoadConfig, Quiet, vars, rowVars, spawnVars
  <2> QED
    BY <2>1, <2>2, <2>3, <2>4 DEF Next, SpawnStep

\* Requests whose layers say the same decide the same.
LEMMA SameValues ==
    ASSUME NEW s, NEW r, s.files \in Seq(Files), r.files = s.files, r.inherit = s.inherit,
           \A k \in Keys : r.env[k] = s.env[k],
           NEW top \in 0 .. Len(s.files) + 3, NEW k \in Keys, NEW v, Decides(s, top, k, v)
    PROVE  Decides(r, top, k, v)
<1>1. \A n \in 1 .. Len(s.files) + 3 : LayersOf(r)[n][k] = LayersOf(s)[n][k]
  BY DEF LayersOf
<1> QED
  BY <1>1 DEF Decides

\* A row whose sources have not changed goes on telling.
LEMMA RowKept ==
    ASSUME TypeInv, KeptInv, NEW i \in Ids, row[i] # None, row[i].keys = {}, i \notin stale,
           row'[i] = row[i], env'[i] = env[i],
           row[i].inherit => daemon'.vars = daemon.vars,
           ConfigFile' = ConfigFile, config'[ConfigFile] = config[ConfigFile],
           \A n \in DOMAIN row[i].files : text'[row[i].files[n]] = text[row[i].files[n]],
           NEW k \in Keys
    PROVE  Decides(AsSpec(row[i]), Len(row[i].files) + 3, k, env[i][k])'
<1>1. PICK s : s = AsSpec(row[i])
  OBVIOUS
<1>2. /\ s.files = row[i].files /\ s.inherit = row[i].inherit /\ s.env = NoVars
      /\ s.files \in Seq(Files) /\ s = AsSpec(row[i])'
  BY <1>1 DEF AsSpec, NoVars, TypeInv
<1>3. Len(s.files) \in Nat /\ DOMAIN s.files = 1 .. Len(s.files)
  BY <1>2
<1>4. \A n \in 1 .. Len(s.files) + 3 : LayersOf(s)'[n] = LayersOf(s)[n]
  <2> TAKE n \in 1 .. Len(s.files) + 3
  <2>1. CASE n = 1 \/ n = Len(s.files) + 2 \/ n = Len(s.files) + 3
    BY <1>2, <1>3, <2>1 DEF LayersOf
  <2>2. CASE n \in 2 .. Len(s.files) + 1
    <3>1. n - 1 \in DOMAIN s.files
      BY <1>3, <2>2
    <3> QED
      BY <1>2, <1>3, <2>2, <3>1 DEF LayersOf
  <2> QED
    BY <1>3, <2>1, <2>2
<1>5. Decides(s, Len(s.files) + 3, k, env[i][k])
  BY <1>1, <1>2 DEF KeptInv
<1>6. Decides(s, Len(s.files) + 3, k, env[i][k])'
  BY <1>3, <1>4, <1>5 DEF Decides
<1>7. row'[i].files = s.files /\ LayersOf(AsSpec(row[i]))' = LayersOf(s)'
  BY <1>2 DEF LayersOf
<1> QED
  BY <1>6, <1>7 DEF Decides

\* What a spawn whose sources have not changed ends in.
LEMMA Spawned ==
    ASSUME TypeInv, BuiltInv, NEW i \in Ids, Spawn(i), ~dirty, NEW k \in Keys
    PROVE  Decides(spec, Len(spec.files) + 3, k, env'[i][k])
<1>1. spec.files \in Seq(Files) /\ Len(spec.files) + 2 \in Nat
  BY DEF TypeInv
<1>2. Decides(spec, Len(spec.files) + 2, k, built[k])
  BY DEF BuiltInv, Spawn
<1>3. LayersOf(spec)[Len(spec.files) + 2 + 1][k] = spec.env[k]
  BY <1>1, LayerAt
<1>4. Decides(spec, Len(spec.files) + 2 + 1, k, Over(spec.env, built)[k])
  BY <1>1, <1>2, <1>3, Overlay
<1>5. env'[i] = Over(spec.env, built)
  BY DEF Spawn, TypeInv
<1> QED
  BY <1>1, <1>4, <1>5

LEMMA KeptStep == TypeInv /\ BuiltInv /\ KeptInv /\ [Next]_vars => KeptInv'
<1> SUFFICES ASSUME TypeInv, BuiltInv, KeptInv, [Next]_vars,
                    NEW i \in Ids, row'[i] # None, row'[i].keys = {}, i \notin stale', NEW k \in Keys
             PROVE  Decides(AsSpec(row[i]), Len(row[i].files) + 3, k, env[i][k])'
  BY DEF KeptInv
<1>1. CASE UNCHANGED <<daemon, text, config, row, env, stale>>
  <2>1. ConfigFile' = ConfigFile
    BY <1>1 DEF ConfigFile
  <2> QED
    BY <1>1, <2>1, RowKept
<1>2. ASSUME NEW j \in Ids, Spawn(j)
      PROVE  Decides(AsSpec(row[i]), Len(row[i].files) + 3, k, env[i][k])'
  <2>1. UNCHANGED <<daemon, text, config>> /\ stale \subseteq stale' /\ ConfigFile' = ConfigFile
    BY <1>2 DEF Spawn, sourceVars, ConfigFile
  <2>2. CASE i # j
    <3>1. row'[i] = row[i] /\ env'[i] = env[i]
      BY <1>2, <2>2 DEF Spawn, TypeInv
    <3> QED
      BY <2>1, <3>1, RowKept
  <2>3. CASE i = j
    <3>1. /\ row'[i] = [inherit |-> spec.inherit, files |-> spec.files,
                        keys |-> {x \in Keys : spec.env[x] # Unset}]
          /\ ~dirty
      BY <1>2, <2>3 DEF Spawn, TypeInv
    <3>2. Decides(spec, Len(spec.files) + 3, k, env'[i][k])
      BY <1>2, <2>3, <3>1, Spawned
    <3>3. PICK r : r = AsSpec(row'[i])
      OBVIOUS
    <3>4. /\ r.files = spec.files /\ r.inherit = spec.inherit
          /\ \A x \in Keys : r.env[x] = spec.env[x]
      BY <3>1, <3>3 DEF AsSpec, NoVars
    <3>5. spec.files \in Seq(Files) /\ Len(spec.files) + 3 \in 0 .. Len(spec.files) + 3
      BY DEF TypeInv
    <3>6. Decides(r, Len(spec.files) + 3, k, env'[i][k])
      BY <3>2, <3>4, <3>5, SameValues
    <3>7. LayersOf(AsSpec(row[i]))' = LayersOf(r) /\ row'[i].files = spec.files
      BY <2>1, <3>1, <3>3 DEF LayersOf
    <3> QED
      BY <3>6, <3>7 DEF Decides
  <2> QED
    BY <2>2, <2>3
<1>3. ASSUME NEW S, NEW mine, Changed(mine, S)
      PROVE  /\ row'[i] = row[i] /\ env'[i] = env[i] /\ i \notin stale /\ i \notin S
  BY <1>3 DEF Changed, rowVars
<1>4. ASSUME NEW f \in Files, NEW t, EditFile(f, t)
      PROVE  Decides(AsSpec(row[i]), Len(row[i].files) + 3, k, env[i][k])'
  <2>1. /\ row'[i] = row[i] /\ env'[i] = env[i] /\ i \notin stale /\ ~InFiles(row[i], f)
        /\ UNCHANGED <<daemon, config>>
    BY <1>3, <1>4 DEF EditFile
  <2>2. \A n \in DOMAIN row[i].files : text'[row[i].files[n]] = text[row[i].files[n]]
    BY <1>4, <2>1 DEF EditFile, InFiles, TypeInv
  <2>3. ConfigFile' = ConfigFile
    BY <2>1 DEF ConfigFile
  <2> QED
    BY <2>1, <2>2, <2>3, RowKept
<1>5. ASSUME NEW p \in ConfigPaths, NEW c, EditConfig(p, c)
      PROVE  Decides(AsSpec(row[i]), Len(row[i].files) + 3, k, env[i][k])'
  <2>1. /\ row'[i] = row[i] /\ env'[i] = env[i] /\ i \notin stale /\ p # ConfigFile
        /\ UNCHANGED <<daemon, text>>
    BY <1>3, <1>5 DEF EditConfig
  <2>2. ConfigFile' = ConfigFile /\ config'[ConfigFile] = config[ConfigFile]
    BY <1>5, <2>1 DEF EditConfig, ConfigFile, ConfigPaths, TypeInv
  <2> QED
    BY <2>1, <2>2, RowKept
<1>6. ASSUME NEW sh \in Shells, RestartDaemon(sh)
      PROVE  Decides(AsSpec(row[i]), Len(row[i].files) + 3, k, env[i][k])'
  <2>1. /\ row'[i] = row[i] /\ env'[i] = env[i] /\ i \notin stale
        /\ ~row[i].inherit /\ ConfigPath(sh) = ConfigFile
        /\ UNCHANGED <<text, config>> /\ daemon' = sh
    BY <1>3, <1>6 DEF RestartDaemon
  <2>2. ConfigFile' = ConfigFile
    BY <2>1 DEF ConfigFile
  <2> QED
    BY <2>1, <2>2, RowKept
<1> QED
  <2>1. CASE \/ \E sh \in Shells, args \in Argss : Run(sh, args)
             \/ \E j \in Ids : Restart(j)
             \/ Fails
    BY <1>1, <2>1 DEF Run, Restart, Ask, Fails, sourceVars, rowVars
  <2>2. CASE Inherit \/ ((ReadEnvFile \/ LoadConfig) /\ ~Fails) \/ UNCHANGED vars
    BY <1>1, <2>2 DEF Inherit, ReadEnvFile, LoadConfig, Quiet, vars, sourceVars, rowVars
  <2> QED
    BY <1>2, <1>4, <1>5, <1>6, <2>1, <2>2 DEF Next, SpawnStep

-----------------------------------------------------------------------------
LEMMA InitInv == Init => Inv
<1> SUFFICES ASSUME Init PROVE Inv
  OBVIOUS
<1>1. TypeInv
  BY DEF Init, TypeInv, NoSpec, NoVars
<1>2. BuiltInv /\ OfferedInv /\ KeptInv /\ PredInv
  BY DEF Init, BuiltInv, OfferedInv, KeptInv, PredInv
<1> QED
  BY <1>1, <1>2 DEF Inv

\* The invariant: what is built is decided and offered, and rows tell the
\* environments of their processes (effective_env, restart_spec).
THEOREM Invariance == Spec => []Inv
<1>1. Inv /\ [Next]_vars => Inv'
  BY TypeStep, BuiltStep, OfferedStep, KeptStep, PredStep DEF Inv
<1> QED
  BY InitInv, <1>1, PTL DEF Spec

\* Only Spawn gives a row.
LEMMA OnlySpawn ==
    ASSUME TypeInv, [Next]_vars, NEW i \in Ids, row[i] = None, row'[i] # None
    PROVE  Spawn(i)
<1>1. UNCHANGED row \/ \E j \in Ids : Spawn(j)
  BY DEF Next, SpawnStep, Run, Restart, Ask, Fails, Inherit, ReadEnvFile, LoadConfig, Quiet,
         EditFile, EditConfig, RestartDaemon, Changed, rowVars, vars
<1> QED
  BY <1>1 DEF Spawn, TypeInv

\* A process spawned while nothing was edited has the environment that the
\* last layer to set a key decides, all of its files could be read, and what it
\* inherits is the CLI's if the daemon came from there (effective_env).
THEOREM LastLayerDecides == Spec => EnvIsDecided
<1>1. Inv /\ [Next]_vars =>
        [\A i \in Ids : row[i] = None /\ row'[i] # None /\ ~dirty =>
          /\ \A k \in Keys : Decides(spec, Len(spec.files) + 3, k, env'[i][k])
          /\ \A n \in DOMAIN spec.files : Parses(text[spec.files[n]])
          /\ InheritsCli(env'[i])]_vars
  <2> SUFFICES ASSUME Inv, [Next]_vars, NEW i \in Ids, row[i] = None, row'[i] # None, ~dirty
               PROVE  /\ \A k \in Keys : Decides(spec, Len(spec.files) + 3, k, env'[i][k])
                      /\ \A n \in DOMAIN spec.files : Parses(text[spec.files[n]])
                      /\ InheritsCli(env'[i])
    OBVIOUS
  <2>1. Spawn(i)
    BY OnlySpawn DEF Inv
  <2>2. \A k \in Keys : Decides(spec, Len(spec.files) + 3, k, env'[i][k])
    BY <2>1, Spawned DEF Inv
  <2>3. \A n \in 1 .. Len(spec.files) : Parses(text[spec.files[n]])
    BY <2>1 DEF Inv, BuiltInv, Spawn
  <2>4. ASSUME spec.inherit, asker = daemon, NEW k \in Keys,
               \A n \in 2 .. Len(spec.files) + 3 : LayersOf(spec)[n][k] = Unset
        PROVE  env'[i][k] = asker.vars[k]
    <3>1. LayersOf(spec)[1] = asker.vars /\ Len(spec.files) \in Nat
      BY <2>4, LayerAt DEF Inv, TypeInv
    <3>2. \A n \in 1 .. Len(spec.files) + 3 : n = 1 \/ n \in 2 .. Len(spec.files) + 3
      BY <3>1
    <3>3. Decides(spec, Len(spec.files) + 3, k, env'[i][k])
      BY <2>2
    <3>4. CASE env'[i][k] = Unset
      BY <3>1, <3>3, <3>4 DEF Decides, Inv, TypeInv
    <3>5. CASE env'[i][k] # Unset
      <4>1. PICK n \in 1 .. Len(spec.files) + 3 : LayersOf(spec)[n][k] = env'[i][k]
        BY <3>3, <3>5 DEF Decides
      <4> QED
        BY <2>4, <3>1, <3>2, <3>5, <4>1
    <3> QED
      BY <3>4, <3>5
  <2>5. InheritsCli(env'[i])
    BY <2>4 DEF InheritsCli
  <2> QED
    BY <2>2, <2>3, <2>5 DEF Inv, TypeInv
<1> QED
  BY Invariance, <1>1, PTL DEF Spec, EnvIsDecided

\* Whatever is edited meanwhile, every variable of a process had its value
\* in one of the sources it was asked for.
THEOREM NothingGetsIn == Spec => NothingElse
<1>1. Inv /\ [Next]_vars =>
        [\A i \in Ids : row[i] = None /\ row'[i] # None =>
          \A k \in Keys : env'[i][k] # Unset => <<k, env'[i][k]>> \in offered]_vars
  <2> SUFFICES ASSUME Inv, [Next]_vars, NEW i \in Ids, row[i] = None, row'[i] # None,
                      NEW k \in Keys, env'[i][k] # Unset
               PROVE  <<k, env'[i][k]>> \in offered
    OBVIOUS
  <2>1. Spawn(i)
    BY OnlySpawn DEF Inv
  <2>2. pc = "spawn" /\ env'[i] = Over(spec.env, built)
    BY <2>1 DEF Spawn, Inv, TypeInv
  <2>3. spec.files \in Seq(Files) /\ Len(spec.files) + 3 \in 1 .. Len(spec.files) + 3
    BY DEF Inv, TypeInv
  <2>4. <<k, spec.env[k]>> \in Offers(spec)
    BY <2>3, LayerAt, LayerOffered
  <2> QED
    BY <2>2, <2>4 DEF Over, Inv, OfferedInv
<1> QED
  BY Invariance, <1>1, PTL DEF Spec, NothingElse

\* A restart reproduces the environment of the process it restarts, unless
\* one of the sources has changed (restart_spec).
THEOREM RestartIsFaithful == Spec => RestartReproduces
<1>1. Inv /\ [Next]_vars =>
        [\A i \in Ids : row[i] = None /\ row'[i] # None /\ pred # 0 =>
          pred \in stale \/ dirty \/ env'[i] = env[pred]]_vars
  <2> SUFFICES ASSUME Inv, [Next]_vars, NEW i \in Ids, row[i] = None, row'[i] # None, pred # 0,
                      pred \notin stale, ~dirty
               PROVE  env'[i] = env[pred]
    OBVIOUS
  <2>1. Spawn(i)
    BY OnlySpawn DEF Inv
  <2>2. /\ pred \in Ids /\ row[pred] # None /\ row[pred].keys = {} /\ spec = AsSpec(row[pred])
    BY <2>1 DEF Spawn, Inv, PredInv, TypeInv
  <2>3. Len(spec.files) + 3 \in Nat /\ row[pred].files = spec.files
    BY <2>2 DEF Inv, TypeInv, AsSpec
  <2>4. ASSUME NEW k \in Keys PROVE env'[i][k] = env[pred][k]
    <3>1. Decides(spec, Len(spec.files) + 3, k, env'[i][k])
      BY <2>1, Spawned DEF Inv
    <3>2. Decides(spec, Len(spec.files) + 3, k, env[pred][k])
      BY <2>2, <2>3 DEF Inv, KeptInv
    <3> QED
      BY <2>3, <3>1, <3>2, Unique
  <2>5. env'[i] = [k \in Keys |-> env'[i][k]] /\ env[pred] = [k \in Keys |-> env[pred][k]]
    BY <2>2, TypeStep DEF Inv, TypeInv
  <2> QED
    BY <2>4, <2>5
<1> QED
  BY Invariance, <1>1, PTL DEF Spec, RestartReproduces
=============================================================================
