\* Daemons are started, one at a time or racing, stopped and killed, for one
\* socket.
SPECIFICATION Spec
CONSTANTS
    Daemons = {d1, d2}
    Rows = {r1}
    Envs <- OneShell
    Unset = Unset
    None = None
    Earlier = {}
    Overlaps = {TRUE}
CHECK_DEADLOCK FALSE
PROPERTIES
    LostOnlyFromPrevious
