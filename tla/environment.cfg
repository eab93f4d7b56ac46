\* Processes are run and restarted while their env files and configurations are
\* edited and the daemon is restarted from another shell.
SPECIFICATION Spec
CONSTANTS
    path = path
    a = a
    b = b
    Keys = {path}
    Values = {a, b}
    Unset = Unset
    None = None
    Shells <- TwoShells
    Files <- TheFiles
    Texts <- TheTexts
    Configs <- TheConfigs
    Argss <- TheArgss
    MaxId = 2
    MaxEdits = 2
PROPERTIES
    EnvIsDecided
    NothingElse
    RestartReproduces
CHECK_DEADLOCK FALSE
