\* The scanner page recovers a live run as stale and another run replaces it.
SPECIFICATION Spec
CONSTANTS
    MaxRuns = 2
    Polled = TRUE
    Killable = FALSE
INVARIANTS
    LiveRunNotReplaced
CHECK_DEADLOCK FALSE
