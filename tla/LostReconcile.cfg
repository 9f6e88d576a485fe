SPECIFICATION DispatchSafety
CONSTANTS
    Instances = {i1, i2}
    NoInstance = none
    MaxJobs = 1
    MonthCount = 1
    MaxVersion = 9
    MaxGeneration = 2
    Submittable = {"initialization"}
    Parents = {}
    Projecting = FALSE
    Mortal = {i1}
    Cancelling = FALSE
    LockErrors = TRUE
    LateHeartbeats = 0
INVARIANTS InheritedClaimsReconciled
CHECK_DEADLOCK FALSE
