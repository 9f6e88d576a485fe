SPECIFICATION DailySpec
CONSTANTS
    Portfolios = {f1, f2}
    Runs = {r1, r2}
    NoRun = none
    Tickers = {"t1"}
    Held <- MCHeld
    AlertRuns = 3
    LastDate = 2
    TopPrice = 4
    Cooldown <- MCCooldown
    TrailPercent = 25
    Shares = {1, 2}
    LastDay = 1
    Statements <- MCStatements
    MaxTrades = 3
    MaxRevision = 3
    MaxRows = 1
    Threads = {h1, h2}
    CacheLimit = 1
    Stocks = {1, 2}
    Benchmark = 2
    Week <- MCWeek
    Windows <- MCWindows
    Bars <- MCBars
    LastSession = 4
    MonthEnds = {2}
    Scans <- MCScans
    Settings <- MCSettings
    Holdings <- MCHoldings
    Dividends <- MCDividends
    Artifacts <- MCArtifacts
SYMMETRY MCSymmetry
INVARIANTS AtMostOneMail EveryPortfolioAnswered OneOpenSetup FallMailedOnce CacheCoherent NoFalseMismatch SignalsPointInTime MissingEvidenceNeverTrades LiveFollowsRule
\* Every run has ended.
CHECK_DEADLOCK FALSE
