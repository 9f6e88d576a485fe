SPECIFICATION BooksSpec
CONSTANTS
    Shares = {1, 2}
    LastDay = 3
    Statements <- MCStatements
    MaxTrades = 3
    MaxRevision = 3
    MaxRows = 3
    Threads = {}
    Tasks = {b1, b2}
    Nightly = n
    MaxFailures = 1
    Securities = {1, 2, 3}
    LastSession = 4
    StartingCapital = 24
    Evidence <- MCEvidence
    k1 = k1
    k2 = k2
    Ids = {1, 2, 3}
    LastMonth = 2
    LastClock = 3
    Profiles <- MCProfiles
    Policies = {"p1", "p2"}
    Answers <- MCAnswers
    Detect <- MCDetect
    Excluded <- MCExcluded
    Children = {k1, k2}
    Nobody = nobody
    MaxActivations = 2
INVARIANTS CashFollowsNewest DayWrittenOnce ProgressHasARun OrdersFit ReservationsCovered SharesFollowSplits MonthsAsRebuilt
PROPERTY EveryHeldDayCharted
\* The bounds on trades, rows and days end a behaviour.
CHECK_DEADLOCK FALSE
