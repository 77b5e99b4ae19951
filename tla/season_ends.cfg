SPECIFICATION MCFairSpec
CONSTANTS
    LastEpisode = 2
    MaxAttempts = 1
    Pool = 2
    MaxRuns = 1
    FaultyRuns = 0
    SharedRuns = 0
    OldFiles = {1}
PROPERTIES
    FilesAsPromised
    RunEnds
CHECK_DEADLOCK FALSE
