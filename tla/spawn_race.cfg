\* Runs, replaces and restarts of one name race with a stop and a daemon restart,
\* over generations whose pids are recycled.
SPECIFICATION Spec
CONSTANTS
    Names = {api}
    NoName = NoName
    MaxId = 3
    Families = FALSE
    Unkillable = FALSE
    OtherUsers = {1}
    Tasks = {t1, t2}
    Requests = {"run", "replace", "stop", "restart"}
    Spawnable = {api}
    Selectors = {api}
    Timeouts = {FALSE}
    Faults = {}
    Recycling = "late"
    MaxBoots = 1
SYMMETRY Symmetry
INVARIANTS
    VisibleWhileAlive
    OneVisibleHolder
    RunningIsSupervised
    NoStrangerSignaled
PROPERTIES
    Implements
