SPECIFICATION Spec
CONSTANTS
    AvgRps = 100
    Repos <- MCRepos
    Files <- MCFiles
    LanguageOf <- MCLanguageOf
    Sources <- MCSources
    Checkouts <- MCCheckouts
    Measured = {0, 200000}
    MaxShift = 1
    MaxRuns = 3
    Moving = {"first"}
INVARIANTS
    OnlyInfoChanged
    ShieldedStatementsKept
    ClaimsCoverCommits
    ResultsTrue
    ReportsWholeRepos
CHECK_DEADLOCK FALSE
