SPECIFICATION MCSpec
CONSTANTS
    LastEpisode = 2
    MaxAttempts = 1
    Limits = {0}
INVARIANT
    ExhaustedStaysOut
CHECK_DEADLOCK FALSE
