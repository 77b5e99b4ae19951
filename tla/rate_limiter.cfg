SPECIFICATION FairSpec
CONSTANTS
    Threads = {t1, t2, t3}
    MinGap = 2
    CooldownBase = 2
    MaxCooldown = 8
    Cap = 3
    Window = 9
    MaxSleep = 4
INVARIANTS
    TypeOK
    WindowCap
PROPERTIES
    GapRespected
    CooldownRespected
    CallEnds
CHECK_DEADLOCK FALSE
