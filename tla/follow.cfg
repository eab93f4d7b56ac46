\* Following one process by its id, or every process, while they write, exit and
\* are restarted.
SPECIFICATION FairSpec
CONSTANTS
    Procs = {1, 2}
    Streams <- MCStreams
    Bytes <- MCBytes
    Data <- MCPieces
    NL = NL
    Times = {1}
    Null = Null
    MaxChunks = 3
    Modes = {"id", "all"}
    Tails = {Null, 0, 1}
INVARIANTS
    TypeOK
    PrintsInOrder
    EndsComplete
    LinesUnglued
PROPERTIES
    FollowEnds
CHECK_DEADLOCK FALSE
