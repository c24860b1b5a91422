CONSTANTS
    Bits = 8
    NsPerMs = 2
    Frequencies = {1, 5}
    Samples = 2
    Starts = {0, 1}
    MaxTick = 2
    Offsets = {0, 40}
    tai_off_ns = 37
SPECIFICATION Spec
INVARIANTS
    TimedInv
    OffsetIsBracketed
    SyscallTimeIsRight
    EveryMethodIsTried
CHECK_DEADLOCK FALSE
