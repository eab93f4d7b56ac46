\* What every exit, timeout and request leads to, under the scheduler's fairness.
SPECIFICATION FairSpec
CONSTANTS
    Names = {api}
    NoName = NoName
    MaxId = 1
    Families = TRUE
    Unkillable = FALSE
    OtherUsers = {1}
    Tasks = {t1, t2}
    Requests = {"run", "stop", "wait"}
    Spawnable = {api}
    Selectors = {api}
    Timeouts = {TRUE, FALSE}
    Faults = {}
    Recycling = "late"
    MaxBoots = 0
INVARIANTS
    RunningIsSupervised
    ListedWhileAlive
PROPERTIES
    TimeoutKills
    RequestsAnswered
    ExitNoticed
    WaitersReleased
