\* ps and ports while processes fork, listen, exit and are recycled.
SPECIFICATION Spec
CONSTANTS
    Names = {}
    NoName = NoName
    MaxId = 2
    Pids = {p1, p2}
    NoPid = NoPid
    Ports = {http}
    V6 = {}
    Faults = {"netlink", "tcp", "tcp6", "fds"}
    Kinds = {"ps", "ports"}
    Verdicts = {"timed_out"}
SYMMETRY Symmetry
INVARIANTS
    ListsTheLiving
    LostRowsAreAlive
    NothingOfOthers
    ShowsWhatListens
    UnavailableMeansBoth
CHECK_DEADLOCK FALSE
