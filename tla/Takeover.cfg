SPECIFICATION DispatchSafety
CONSTANTS
    Instances = {i1, i2}
    NoInstance = none
    MaxJobs = 2
    MonthCount = 1
    MaxVersion = 9
    MaxGeneration = 3
    Submittable = {"initialization", "backtest"}
    Parents = {}
    Projecting = FALSE
    Mortal = {i1}
    Cancelling = TRUE
    LockErrors = TRUE
    LateHeartbeats = 1
INVARIANTS NoLeakedClaim StaleClaimsReconciled
PROPERTIES EvictedWritesLost
CHECK_DEADLOCK FALSE
