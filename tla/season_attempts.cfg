SPECIFICATION MCSpec
CONSTANTS
    LastEpisode = 2
    MaxAttempts = 1
    Pool = 2
    MaxRuns = 1
    FaultyRuns = 1
    SharedRuns = 1
    OldFiles = {}
INVARIANT
    AttemptsWithinBudget
CHECK_DEADLOCK FALSE
