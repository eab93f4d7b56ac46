\* Daemons are started, one at a time or racing, stopped and killed, for one
\* socket.
SPECIFICATION FairSpec
CONSTANTS
    Daemons = {d0, d1, d2}
    Rows = {r1}
    Envs <- TwoShells
    Unset = Unset
    None = None
    Earlier = {d0}
    Overlaps = {TRUE, FALSE}
INVARIANTS
    ReachableWhileServing
    CrashLosesRows
    SuccessMeansServed
PROPERTIES
    SomebodyServes
    LosesOnlyTheEnded
    StopCompletes
CHECK_DEADLOCK FALSE
