\* A restart while a timeout is killing the group.
SPECIFICATION Spec
CONSTANTS
    Names = {api}
    NoName = NoName
    MaxId = 2
    Families = FALSE
    Unkillable = FALSE
    OtherUsers = {}
    Tasks = {t1, t2}
    Requests = {"run", "restart", "stop"}
    Spawnable = {api}
    Selectors = {api}
    Timeouts = {TRUE}
    Faults = {}
    Recycling = "never"
    MaxBoots = 0
SYMMETRY Symmetry
INVARIANTS
    SuccessorAfterDeath
