\* Following a name while it is restarted.
SPECIFICATION Spec
CONSTANTS
    Procs = {1, 2}
    Streams <- MCStreams
    Bytes <- MCBytes
    Data <- MCPieces
    NL = NL
    Times = {1}
    Null = Null
    MaxChunks = 3
    Modes = {"name"}
    Tails = {Null}
INVARIANTS
    NothingSkipped
CHECK_DEADLOCK FALSE
