SPECIFICATION DLFairSpec
CONSTANTS
    Jobs = {j1, j2, j3, j4}
    MaxLimit = 2
PROPERTIES
    ImplementsSlots
    ShutdownUnblocks
    EveryoneServed
CHECK_DEADLOCK FALSE
