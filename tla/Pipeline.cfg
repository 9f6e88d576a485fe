SPECIFICATION Spec
CONSTANTS
    MaxRuns = 2
    Polled = TRUE
    Killable = TRUE
INVARIANTS
    PipelineTypeOK
    CompleteMeansPublished
    AuthorityPublished
PROPERTIES
    LiveRecordKept
    RefreshSettled
    AuthorityLegal
    RunEnds
CHECK_DEADLOCK FALSE
