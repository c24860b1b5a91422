CONSTANTS
    Bits = 4
    NsPerMs = 11
    MsPerS = 1
    SamplesPerS = 9
    tsc_khz = 5
    thresh_ns = 5
    Gaps = {1, 2, 3, 5, 7}
    Runtimes = {1, 2, 3}
SPECIFICATION JitterSpec
INVARIANTS
    ResultInv
    NoAssertionFails
    OverflowIsTold
    EveryInterruptionCounts
    CorrectionIsExact
    MedianIsCentral
    PercentilesAreOrdered
CHECK_DEADLOCK FALSE
