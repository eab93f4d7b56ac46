\* A stop of a process that has become another user's.
SPECIFICATION Spec
CONSTANTS
    Names = {api}
    NoName = NoName
    MaxId = 1
    Families = FALSE
    Unkillable = FALSE
    OtherUsers = {1}
    Tasks = {t1, t2}
    Requests = {"run", "stop"}
    Spawnable = {api}
    Selectors = {api}
    Timeouts = {FALSE}
    Faults = {}
    Recycling = "never"
    MaxBoots = 0
SYMMETRY Symmetry
PROPERTIES
    KilledMeansDead
