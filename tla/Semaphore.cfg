CONSTANTS
    N = 4
    Skews = {0, 3}
    MaxTick = 1
    Wrap = 64
    Faults = {"create", "join", "calloc", "malloc", "comm"}
SPECIFICATION FairSpec
INVARIANTS
    RallyInv
    RaceFree
PROPERTIES
    ImplementsRally
    Completes
CHECK_DEADLOCK FALSE
