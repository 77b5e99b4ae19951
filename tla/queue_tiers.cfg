SPECIFICATION MCSpec
CONSTANTS
    LastEpisode = 2
    MaxAttempts = 1
    Limits = {0}
INVARIANT
    ResumeBeforePriority
CHECK_DEADLOCK FALSE
