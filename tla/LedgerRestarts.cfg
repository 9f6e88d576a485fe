SPECIFICATION ProjectionSpec
CONSTANTS
    Instances = {}
    NoInstance = none
    MaxJobs = 2
    MonthCount = 1
    MaxVersion = 2
    MaxGeneration = 0
    Submittable = {"initialization"}
    Parents = {}
    Projecting = FALSE
    Projectors = {p1, p2}
    MaxDeaths = 1
    Watched = {1}
INVARIANTS RestartLineage NothingAckedUnseen
PROPERTIES OutboxCurrent EveryChangeAnnounced
