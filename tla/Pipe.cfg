CONSTANTS
    N = 4
    Skews = {0}
    MaxTick = 3
    Wrap = 1024
    Faults = {"create", "join", "calloc", "malloc", "comm"}
SPECIFICATION FairSpec
INVARIANTS
    LatencyInv
    NoEarlyUse
    LatenciesDisjoint
PROPERTIES
    ImplementsRally
    Completes
CHECK_DEADLOCK FALSE
