SPECIFICATION MCSpec
CONSTANTS
    LastEpisode = 2
    MaxAttempts = 1
    Limits = {0, 1}
INVARIANTS
    QueueIsTotalOrder
    WantedEpisodesQueued
    PresentEpisodesNotQueued
    FreshEpisodesLast
    ExhaustedOnlyWithHistory
PROPERTY
    BytesKept
CHECK_DEADLOCK FALSE
