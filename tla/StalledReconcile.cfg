SPECIFICATION DispatchSafety
CONSTANTS
    Instances = {i1, i2}
    NoInstance = none
    MaxJobs = 1
    MonthCount = 1
    MaxVersion = 9
    MaxGeneration = 3
    Submittable = {"initialization"}
    Parents = {}
    Projecting = FALSE
    Mortal = {}
    Cancelling = FALSE
    LockErrors = FALSE
    LateHeartbeats = 1
PROPERTIES HealthyClaimSpared
