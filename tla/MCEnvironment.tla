---------------------------- MODULE MCEnvironment ----------------------------
(***************************************************************************)
(* Environment for TLC: two shells whose daemons read different            *)
(* configurations, one of them by a variable, and one key, so that every   *)
(* layer is in another's way.                                              *)
(***************************************************************************)
EXTENDS Environment

CONSTANTS path, a, b

Set(v) == [k \in Keys |-> v]

\* Found by $HOME, by PZ_CONFIG (which goes before XDG_CONFIG_HOME).
ShellA == [vars |-> Set(a), cwd |-> <<"work">>, home |-> <<"home">>, pz_config |-> Unset, xdg_config |-> Unset]
ShellB == [vars |-> Set(b), cwd |-> <<"work">>, home |-> Unset, pz_config |-> <<<<"etc">>, "b.toml">>,
           xdg_config |-> <<"xdg">>]
TwoShells == {ShellA, ShellB}

File == [base |-> ".", name |-> "env"]

TheFiles == {<<"work">>, <<"home">>, <<"home", ".config">>, <<"etc">>} \X {"env"}
TheTexts == {<<Blank, Line(path, a)>>, <<Line(path, a), Line(path, b)>>, <<Line(path, a), Bad>>}
TheConfigs == {DefaultConfig, Malformed,
               [inherit |-> FALSE, files |-> <<File>>, env |-> NoVars, ok |-> TRUE],
               [inherit |-> TRUE, files |-> <<[base |-> "~", name |-> "env"]>>, env |-> Set(a), ok |-> TRUE]}
TheArgss == {[inherit |-> FALSE, files |-> <<>>, env |-> NoVars],
             [inherit |-> FALSE, files |-> <<File>>, env |-> NoVars],
             [inherit |-> TRUE, files |-> <<>>, env |-> NoVars],
             [inherit |-> FALSE, files |-> <<File>>, env |-> Set(b)]}
=============================================================================
