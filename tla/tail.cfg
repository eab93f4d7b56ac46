\* Every log of three chunks, every kind of query, tails of up to three lines.
SPECIFICATION Spec
CONSTANTS
    Procs = {p1, p2}
    Streams <- MCStreams
    Bytes <- MCBytes
    Data <- MCData
    NL = NL
    Times = {1, 2}
    Null = Null
    MaxChunks = 3
    Asked <- MCAsked
    Tails = {0, 1, 2, 3}
SYMMETRY Symmetry
INVARIANTS
    TailIsLastLines
    CursorIsExact
CHECK_DEADLOCK FALSE
