\* A process killed inside finish, and a start that replaces its only record.
SPECIFICATION Spec
CONSTANTS
    MaxRuns = 2
    Polled = FALSE
    Killable = TRUE
PROPERTIES
    ObservedMonthKept
CHECK_DEADLOCK FALSE
