\* Stops, timeouts and exits race for one generation, whose group may outlive
\* its leader and survive SIGKILL, while calls on the store fail.
SPECIFICATION Spec
CONSTANTS
    Names = {api}
    NoName = NoName
    MaxId = 1
    Families = TRUE
    Unkillable = TRUE
    OtherUsers = {1}
    Tasks = {t1, t2}
    Requests = {"run", "stop", "force", "timeout"}
    Spawnable = {api}
    Selectors = {api}
    Timeouts = {TRUE, FALSE}
    Faults = {"deadline", "env", "exec", "store"}
    Recycling = "late"
    MaxBoots = 1
SYMMETRY Symmetry
INVARIANTS
    TypeOK
    IndInv
PROPERTIES
    StopConfirmsDeath
    Implements
