SPECIFICATION MCSpec
CONSTANTS
    LastEpisode = 2
    MaxAttempts = 1
    Pool = 2
    MaxRuns = 2
    FaultyRuns = 1
    SharedRuns = 1
    OldFiles = {}
VIEW MCView
INVARIANTS
    TypeOK
    EveryEpisodeAccounted
    ReportComplete
    MarkedWhileDownloading
    ReportedDownloadsKept
    ReportedFailuresDurable
PROPERTY
    BudgetCountsFailedRuns
CHECK_DEADLOCK FALSE
