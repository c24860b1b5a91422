CONSTANTS
    N = 2
    Skews = {0}
    MaxTick = 1
    Wrap = 64
    Faults = {"calloc"}
    BackOff = TRUE
SPECIFICATION FairSpec
PROPERTY ThreadErrorIsReported
CHECK_DEADLOCK FALSE
