SPECIFICATION Spec
CONSTANTS
    Instances = {i1, i2}
    NoInstance = none
    MaxJobs = 2
    MonthCount = 1
    MaxVersion = 3
    MaxGeneration = 2
    Submittable = {"bootstrap", "initialization", "preparation", "backtest"}
    Parents = {1}
    Projecting = FALSE
SYMMETRY InstanceSymmetry
INVARIANTS TypeOK OneRunning ChecksHold CancellationHonoured OutcomesFollowCompletion
PROPERTIES TriggersAllow ServesSerially
