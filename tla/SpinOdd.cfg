CONSTANTS
    N = 3
    Skews = {0}
    MaxTick = 1
    Wrap = 64
    Faults = {}
    BackOff = FALSE
SPECIFICATION Spec
INVARIANT DeltasFit
CHECK_DEADLOCK FALSE
